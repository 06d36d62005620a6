------------------------------- MODULE Access -------------------------------
(***************************************************************************)
(* The policy gate: callers, grants, approval receipts and the durable     *)
(* proof an accepted flow carries to its effect boundaries.                *)
(*                                                                         *)
(* A request is answered by a daemon task that authenticates, reads the    *)
(* clock and only then sends one command to the store worker, so that two  *)
(* tasks may reach the store in the opposite order of the times they       *)
(* carry.  One caller and one project are modelled; a grant or a receipt   *)
(* of another caller or project never matches.                             *)
(***************************************************************************)
EXTENDS Integers, FiniteSets

CONSTANTS Tasks,        \* daemon tasks, each answering one request at a time
          Asks,         \* task -> the kinds of request it answers
          GrantIds,     \* bound on the grants written
          Terms,        \* grant -> what it may say
          ReceiptIds,   \* bound on the approvals requested
          Revocable,    \* capabilities whose grants the owner revokes
          Flows,        \* flow request identities
          Resources,    \* exact policy resources
          MaxClock,     \* bound on the clock
          Ttl,          \* APPROVAL_LIFETIME
          MaxResets,    \* bound on access resets
          MaxCallers,   \* bound on caller registrations
          Nil

\* The requests a task answers, and what a grant may say.
Kinds == {"plain", "flow", "effect", "decide", "consume", "revoke"}
Capabilities == {"plain", "flow.run", "grant.revoke"}
Term == [capability : Capabilities, resource : Resources \cup {"any"}, effect : {"allow", "deny"},
         approval : {"none", "once"}, lives : Nat \cup {Nil}]

ASSUME AccessAssumption ==
    /\ Ttl \in Nat \ {0} /\ MaxClock \in Nat
    /\ Nil \notin ReceiptIds \cup Flows
    /\ \A t \in Tasks : Asks[t] \subseteq Kinds
    /\ \A i \in GrantIds : Terms[i] \subseteq Term

VARIABLES clock, caller, grants, receipts, flows, proofs, task, resets, uses

accessVars == <<clock, caller, grants, receipts, flows, proofs, task, resets, uses>>

Never == MaxClock + Ttl + 1
Unset == [written |-> FALSE]
Deleted == [written |-> TRUE, capability |-> Nil, resource |-> Nil, effect |-> Nil,
            approval |-> Nil, expires |-> 0, revoked |-> 0]
NoProof == [receipt |-> Nil, resource |-> Nil, schema |-> FALSE]
Free == [kind |-> Nil]
Baseline == {"grant.revoke"}

-----------------------------------------------------------------------------
(* Policy evaluation *)

\* A grant still good in the millisecond it was revoked in.
IsActiveUntil(g, now) == now < g.expires /\ now <= g.revoked

\* Grant::is_active_at: expiry and revocation are exclusive upper bounds.
IsActiveAt(g, now) == now < g.expires /\ now < g.revoked

\* load_grants with Grant::matches.
Matching(capability, resource, now) ==
    {i \in GrantIds : /\ grants[i].written
                      /\ grants[i].capability = capability
                      /\ grants[i].resource \in {"any", resource}
                      /\ IsActiveAt(grants[i], now)}

\* evaluate: a deny overrides, then an unconditional allow, then an allow
\* that asks for approval; a baseline capability needs no grant at all.
Evaluate(capability, resource, now) ==
    LET found == Matching(capability, resource, now) IN
    IF \E i \in found : grants[i].effect = "deny" THEN "denied"
    ELSE IF \E i \in found : grants[i].approval = "none" THEN "allowed"
    ELSE IF found # {} THEN "approval"
    ELSE IF capability \in Baseline THEN "allowed" ELSE "denied"

\* AuthorizationOutcome, FlowAuthorizationOutcome, ApprovalDecisionOutcome and
\* the store's own failures.
Answers == {"denied", "approval", "refused", "expired", "failed", "replayed", "revoked", "approved"}

Capability(kind) ==
    CASE kind \in {"flow", "effect"} -> "flow.run"
      [] kind = "revoke" -> "grant.revoke"
      [] OTHER -> "plain"

-----------------------------------------------------------------------------
(* Approval receipts *)

Unissued == {a \in ReceiptIds : receipts[a].state = "none"}
NextReceipt == CHOOSE a \in Unissued : TRUE

\* The INSERT of authorize_with_approval; flow is Nil for a plain request.
Challenge(t, flow) ==
    receipts' = [receipts EXCEPT ![NextReceipt] =
        [state |-> "requested", flow |-> flow, capability |-> Capability(t.kind),
         resource |-> t.resource, requested |-> t.now, expires |-> t.now + Ttl,
         decided |-> Never, consumed |-> Never]]

\* The exact-effect comparison at the head of resolve_approval and
\* resolve_flow_approval, the fingerprint included.
ReceiptFits(r, t, flow) ==
    /\ r.capability = Capability(t.kind)
    /\ r.resource = t.resource
    /\ r.flow = flow

Due(r, now) == now >= r.expires /\ r.state \in {"requested", "approved"}

\* A receipt that can be presented again.
ResolvedAgain(r, t, flow) ==
    CASE ~ReceiptFits(r, t, flow) -> "denied"
      [] ReceiptFits(r, t, flow) /\ Due(r, t.now) -> "expired"
      [] OTHER -> CASE r.state = "requested" -> "approval"
                    [] r.state \in {"approved", "consumed"} -> "allowed"
                    [] OTHER -> "refused"

\* What resolve_approval answers; Consumable alone also changes the row.
ResolvedAs(r, t, flow) ==
    CASE ~ReceiptFits(r, t, flow) -> "denied"
      [] ReceiptFits(r, t, flow) /\ Due(r, t.now) -> "expired"
      [] OTHER -> CASE r.state = "requested" -> "approval"
                    [] r.state = "approved" -> IF t.now < r.requested THEN "failed" ELSE "allowed"
                    [] r.state = "denied" -> "refused"
                    [] r.state = "expired" -> "expired"
                    [] OTHER -> "denied"

\* The row resolve_approval leaves behind: expired when due, consumed when
\* it answers the one request it was approved for.  The table's CHECK on
\* consumed_at_ms rejects a consumption older than the request.
ResolveReceipt(a, answer, now) ==
    receipts' = CASE answer = "allowed" ->
                       [receipts EXCEPT ![a].state = "consumed", ![a].consumed = now]
                  [] answer = "expired" -> [receipts EXCEPT ![a].state = "expired"]
                  [] OTHER -> receipts

\* Which request each receipt was spent on (for the properties).
Spend(a, t) == uses' = uses \cup {<<a, t.flow, t.resource, Cardinality(uses)>>}

-----------------------------------------------------------------------------
(* The durable proof of an accepted flow *)

\* validate_consumed_flow_receipt.
ReceiptProves(f, p) ==
    LET r == receipts[p.receipt] IN
    /\ r.state = "consumed"
    /\ r.flow = f
    /\ r.resource = p.resource
    /\ r.decided <= r.consumed
    /\ r.consumed < r.expires

\* validate_flow_authorization_integrity: the row is there and, when it
\* names a receipt, that receipt was consumed for this very request.
Intact(f) ==
    /\ proofs[f] # NoProof
    /\ proofs[f].schema => proofs[f].receipt # Nil
    /\ proofs[f].receipt # Nil => ReceiptProves(f, proofs[f])

\* An accepted flow that any matching grant carries on.
StillGranted(f, now) == caller.active /\ Evaluate("flow.run", proofs[f].resource, now) # "denied"

\* validate_loaded_flow_authorization: policy is evaluated again, and a flow
\* accepted without a receipt needs an unconditional grant still.
StillAuthorized(f, now) ==
    LET decision == Evaluate("flow.run", proofs[f].resource, now) IN
    /\ caller.active
    /\ decision # "denied"
    /\ proofs[f].receipt = Nil => decision = "allowed" /\ ~proofs[f].schema

-----------------------------------------------------------------------------
(* A daemon task *)

\* Every answer but Allowed goes straight to the client.
Answer(t, answer) ==
    /\ answer \in Answers
    /\ task' = [task EXCEPT ![t] = Free]

Allow(t, decision) ==
    task' = [task EXCEPT ![t] =
        [kind |-> task[t].kind, pc |-> "allowed", flow |-> task[t].flow,
         decision |-> decision, floor |-> task[t].floor,
         basis |-> Matching(Capability(task[t].kind), task[t].resource, task[t].now)]]

Revoked == {i \in GrantIds : grants[i].written /\ grants[i].revoked < Never}

\* handle_incoming up to request_authentication_preflight: the caller is
\* looked up with the credential the request carries; one that fails is
\* refused without a trace here.  A worker or a connector reaches an effect
\* boundary without authenticating anew.  The same step reads now_ms(), in
\* authorize_request, authorize_flow_submission and the other handlers: a
\* revocation between the two is seen again by the transaction that follows.
Arrive(t) ==
    /\ task[t] = Free
    /\ \E kind \in Asks[t], resource \in Resources \cup {"grants"}, flow \in Flows \cup {Nil},
          receipt \in {a \in ReceiptIds : receipts[a].state # "none"} \cup {Nil}, schema \in BOOLEAN :
        /\ kind \in {"effect", "consume"} \/ caller.active
        /\ (flow # Nil) = (kind \in {"flow", "effect"})
        /\ (resource = "grants") = (kind = "revoke")
        /\ schema => kind = "flow"
        /\ kind \in {"revoke", "effect"} => receipt = Nil
        /\ kind \in {"decide", "consume"} => receipt # Nil
        /\ kind = "decide" => resource = receipts[receipt].resource
        /\ kind = "effect" => /\ flows[flow] = "leased"
                              /\ proofs[flow] # NoProof => resource = proofs[flow].resource
        /\ task' = [task EXCEPT ![t] =
             [kind |-> kind, pc |-> "timed", resource |-> resource, flow |-> flow,
              receipt |-> receipt, schema |-> schema, now |-> clock,
              floor |-> IF kind \in {"decide", "revoke"} THEN {} ELSE Revoked, todo |-> {}]]
    /\ UNCHANGED <<clock, caller, grants, receipts, flows, proofs, resets, uses>>

\* authorize_audited: authorize_tx and its audit row in one transaction.
Authorize(t) ==
    LET decision == Evaluate(Capability(task[t].kind), task[t].resource, task[t].now)
        a == task[t].receipt
        answer == ResolvedAs(receipts[a], task[t], Nil)
    IN
    /\ task[t] # Free /\ task[t].pc = "timed" /\ task[t].kind \in {"plain", "revoke"}
    /\ \/ /\ ~caller.active \/ decision = "denied"
          /\ Answer(t, "denied") /\ UNCHANGED <<receipts, uses>>
       \/ /\ caller.active /\ decision = "allowed"
          /\ IF task[t].kind = "revoke"
             THEN task' = [task EXCEPT ![t].pc = "listing", ![t].now = clock]
             ELSE Allow(t, decision)
          /\ UNCHANGED <<receipts, uses>>
       \/ /\ caller.active /\ decision = "approval" /\ a = Nil
          /\ Unissued # {}
          /\ Challenge(task[t], Nil) /\ Answer(t, "approval") /\ UNCHANGED uses
       \/ /\ caller.active /\ decision = "approval" /\ a # Nil
          /\ ResolveReceipt(a, answer, task[t].now)
          /\ IF answer = "allowed"
             THEN Allow(t, decision) /\ Spend(a, task[t])
             ELSE Answer(t, answer) /\ UNCHANGED uses
    /\ UNCHANGED <<clock, caller, grants, flows, proofs, resets>>

\* consume_effect_approval_audited: a connector's effect boundary spends the
\* receipt bound to its capability even when a grant allows outright.
ConsumeEffectApproval(t) ==
    LET decision == Evaluate(Capability(task[t].kind), task[t].resource, task[t].now)
        a == task[t].receipt
        answer == IF caller.active /\ decision # "denied"
                  THEN ResolvedAs(receipts[a], task[t], Nil) ELSE "denied"
    IN
    /\ task[t] # Free /\ task[t].pc = "timed" /\ task[t].kind = "consume"
    /\ ResolveReceipt(a, answer, task[t].now)
    /\ IF answer = "allowed"
       THEN Allow(t, decision) /\ Spend(a, task[t])
       ELSE Answer(t, answer) /\ UNCHANGED uses
    /\ UNCHANGED <<clock, caller, grants, flows, proofs, resets>>

\* reusable_flow_approval: a retry without a receipt is pointed at the
\* challenge already open for the same request and effect.
Reusable(t) ==
    {a \in ReceiptIds : /\ receipts[a].state \in {"requested", "approved"}
                        /\ ReceiptFits(receipts[a], t, t.flow)
                        /\ receipts[a].expires > t.now}

\* accept_tx with insert_flow_authorization.
AcceptFlow(t, receipt) ==
    /\ flows' = [flows EXCEPT ![t.flow] = "queued"]
    /\ proofs' = [proofs EXCEPT ![t.flow] =
          [receipt |-> receipt, resource |-> t.resource, schema |-> t.schema]]

\* authorize_flow_run on a request the store already holds.
AuthorizeExistingFlow(t) ==
    LET f == task[t].flow
        same == proofs[f].resource = task[t].resource /\ proofs[f].schema = task[t].schema
    IN
    /\ task[t] # Free /\ task[t].pc = "timed" /\ task[t].kind = "flow"
    /\ flows[f] # "none"
    /\ Answer(t, IF ~Intact(f) THEN IF flows[f] \in {"ended", "quarantined"} THEN "replayed" ELSE "failed"
                 ELSE IF same /\ StillAuthorized(f, task[t].now) THEN "replayed" ELSE "denied")
    /\ UNCHANGED <<clock, caller, grants, receipts, flows, proofs, resets, uses>>

\* authorize_new_flow_run: the receipt is consumed and the request accepted
\* in one transaction.
AuthorizeNewFlow(t) ==
    LET f == task[t].flow
        decision == Evaluate("flow.run", task[t].resource, task[t].now)
        needed == task[t].schema \/ decision = "approval"
        a == task[t].receipt
        answer == ResolvedAs(receipts[a], task[t], f)
    IN
    /\ task[t] # Free /\ task[t].pc = "timed" /\ task[t].kind = "flow"
    /\ flows[f] = "none"
    /\ \/ /\ ~caller.active \/ decision = "denied"
          /\ Answer(t, "denied") /\ UNCHANGED <<receipts, flows, proofs, uses>>
       \/ /\ caller.active /\ decision = "allowed" /\ ~needed
          /\ Allow(t, decision) /\ AcceptFlow(task[t], Nil) /\ UNCHANGED <<receipts, uses>>
       \/ /\ caller.active /\ decision # "denied" /\ needed /\ a = Nil
          /\ Reusable(task[t]) # {} \/ Unissued # {}
          /\ IF Reusable(task[t]) # {} THEN UNCHANGED receipts ELSE Challenge(task[t], f)
          /\ Answer(t, "approval") /\ UNCHANGED <<flows, proofs, uses>>
       \/ /\ caller.active /\ decision # "denied" /\ needed /\ a # Nil
          /\ ResolveReceipt(a, answer, task[t].now)
          /\ IF answer = "allowed"
             THEN /\ Allow(t, decision) /\ AcceptFlow(task[t], a)
                  /\ Spend(a, task[t])
             ELSE Answer(t, answer) /\ UNCHANGED <<flows, proofs, uses>>
    /\ UNCHANGED <<clock, caller, grants, resets>>

\* decide_approval for the requesting caller's own project: deciding again
\* the same way is answered without a write, any other second decision fails.
DecideApproval(t) ==
    LET a == task[t].receipt
        r == receipts[a]
        now == task[t].now
        Outcome(verdict) ==
            IF ~caller.active \/ r.state \notin {"requested", "expired", verdict} THEN "failed"
            ELSE IF r.state # "requested" THEN r.state
            ELSE IF now >= r.expires THEN "expired"
            ELSE IF now < r.requested THEN "failed" ELSE verdict
    IN
    /\ task[t] # Free /\ task[t].pc = "timed" /\ task[t].kind = "decide"
    /\ \E verdict \in {"approved", "denied"} :
        /\ Answer(t, Outcome(verdict))
        /\ receipts' = IF r.state # "requested" \/ Outcome(verdict) = "failed" THEN receipts
                       ELSE IF Outcome(verdict) = "expired"
                       THEN [receipts EXCEPT ![a].state = "expired"]
                       ELSE [receipts EXCEPT ![a].state = verdict, ![a].decided = now]
    /\ UNCHANGED <<clock, caller, grants, flows, proofs, resets, uses>>

\* handle_grant_revoke reads the caller's active grants for one capability ...
ListGrants(t) ==
    /\ task[t] # Free /\ task[t].pc = "listing"
    /\ \E capability \in Revocable :
        task' = [task EXCEPT ![t].pc = "revoking",
            ![t].todo = {i \in GrantIds : /\ grants[i].written
                                          /\ grants[i].capability = capability
                                          /\ grants[i].revoked = Never
                                          /\ grants[i].expires > task[t].now}]
    /\ UNCHANGED <<clock, caller, grants, receipts, flows, proofs, resets, uses>>

\* ... and revokes them one transaction at a time, at the time it read first.
RevokeGrant(t) ==
    /\ task[t] # Free /\ task[t].pc = "revoking"
    /\ IF task[t].todo = {} THEN Answer(t, "revoked") /\ UNCHANGED grants
       ELSE \E i \in task[t].todo :
              /\ grants' = IF grants[i].written /\ grants[i].revoked = Never
                           THEN [grants EXCEPT ![i].revoked = task[t].now] ELSE grants
              /\ task' = [task EXCEPT ![t].todo = @ \ {i}]
    /\ UNCHANGED <<clock, caller, receipts, flows, proofs, resets, uses>>

\* validate_flow_effect_authorization at an effect boundary of a leased flow.
ValidateEffect(t) ==
    LET f == task[t].flow IN
    /\ task[t] # Free /\ task[t].pc = "timed" /\ task[t].kind = "effect"
    /\ IF flows[f] # "leased" \/ ~Intact(f) THEN Answer(t, "failed")
       ELSE IF StillAuthorized(f, task[t].now)
       THEN Allow(t, Evaluate("flow.run", proofs[f].resource, task[t].now))
       ELSE Answer(t, "denied")
    /\ UNCHANGED <<clock, caller, grants, receipts, flows, proofs, resets, uses>>

Reply(t) ==
    /\ task[t] # Free /\ task[t].pc = "allowed"
    /\ task' = [task EXCEPT ![t] = Free]
    /\ UNCHANGED <<clock, caller, grants, receipts, flows, proofs, resets, uses>>

-----------------------------------------------------------------------------
(* The owner, the scheduler and time *)

Tick ==
    /\ clock < MaxClock
    /\ clock' = clock + 1
    /\ UNCHANGED <<caller, grants, receipts, flows, proofs, task, resets, uses>>

\* put_grant: a grant identity is written once.
PutGrant(i) ==
    /\ ~grants[i].written /\ caller.credential > 0
    /\ \E g \in Terms[i] :
        grants' = [grants EXCEPT ![i] =
            [written |-> TRUE, capability |-> g.capability, resource |-> g.resource,
             effect |-> g.effect, approval |-> g.approval,
             expires |-> IF g.lives = Nil THEN Never ELSE clock + g.lives, revoked |-> Never]]
    /\ UNCHANGED <<clock, caller, receipts, flows, proofs, task, resets, uses>>

\* register_caller: only an absent or a revoked caller, with a new credential.
RegisterCaller ==
    /\ ~caller.active /\ caller.credential < MaxCallers
    /\ caller' = [active |-> TRUE, credential |-> caller.credential + 1]
    /\ UNCHANGED <<clock, grants, receipts, flows, proofs, task, resets, uses>>

RevokeCaller ==
    /\ caller.active
    /\ caller' = [caller EXCEPT !.active = FALSE]
    /\ UNCHANGED <<clock, grants, receipts, flows, proofs, task, resets, uses>>

\* claim with fail_corrupt_flow_authorization: a queued flow whose proof does
\* not hold is failed without being leased.
ClaimQueued(f) ==
    /\ flows[f] = "queued"
    /\ flows' = [flows EXCEPT ![f] = IF Intact(f) THEN "leased" ELSE "quarantined"]
    /\ UNCHANGED <<clock, caller, grants, receipts, proofs, task, resets, uses>>

\* The run reaches its terminal state; see FlowWorker.
FlowRunEnds(f) ==
    /\ flows[f] = "leased"
    /\ flows' = [flows EXCEPT ![f] = "ended"]
    /\ UNCHANGED <<clock, caller, grants, receipts, proofs, task, resets, uses>>

\* reset_access deletes proofs, receipts and grants in one transaction; the
\* requests themselves stay.  A deleted identity is not used again.
ResetAccess ==
    /\ resets < MaxResets
    /\ resets' = resets + 1
    /\ proofs' = [f \in Flows |-> NoProof]
    /\ receipts' = [a \in ReceiptIds |-> IF receipts[a].state = "none" THEN receipts[a]
                                         ELSE [receipts[a] EXCEPT !.state = "deleted", !.requested = 0,
                                               !.expires = 0, !.decided = 0, !.consumed = 0]]
    /\ grants' = [i \in GrantIds |-> IF grants[i].written THEN Deleted ELSE Unset]
    /\ UNCHANGED <<clock, caller, flows, task, uses>>

AccessInit ==
    /\ clock = 1
    /\ caller = [active |-> FALSE, credential |-> 0]
    /\ grants = [i \in GrantIds |-> Unset]
    /\ receipts = [a \in ReceiptIds |-> [state |-> "none"]]
    /\ flows = [f \in Flows |-> "none"]
    /\ proofs = [f \in Flows |-> NoProof]
    /\ task = [t \in Tasks |-> Free]
    /\ resets = 0
    /\ uses = {}

AccessNext ==
    \/ Tick \/ RegisterCaller \/ RevokeCaller \/ ResetAccess
    \/ \E i \in GrantIds : PutGrant(i)
    \/ \E f \in Flows : ClaimQueued(f) \/ FlowRunEnds(f)
    \/ \E t \in Tasks : \/ Arrive(t) \/ Authorize(t) \/ ConsumeEffectApproval(t)
                        \/ AuthorizeExistingFlow(t) \/ AuthorizeNewFlow(t) \/ DecideApproval(t)
                        \/ ListGrants(t) \/ RevokeGrant(t) \/ ValidateEffect(t) \/ Reply(t)

AccessSpec == AccessInit /\ [][AccessNext]_accessVars
-----------------------------------------------------------------------------
(* Properties *)

\* A receipt authorizes one request, and the exact one it was issued for:
\* whatever tasks present it, to the plain gate, to a flow submission or to
\* a connector's boundary, resolve_approval and resolve_flow_approval answer
\* Allowed on it at most once.
ReceiptSpentOnce ==
    \A u \in uses : /\ u[2] = receipts[u[1]].flow /\ u[3] = receipts[u[1]].resource
                    /\ \A v \in uses : v[1] = u[1] => v = u

\* Revocation is inclusive: no request that arrives after a grant was revoked
\* is allowed on that grant, although evaluate compares the time the request
\* carries and not the order in which the store worker is reached.
RevocationHolds ==
    \A t \in Tasks : task[t] # Free /\ task[t].pc = "allowed" => task[t].basis \cap task[t].floor = {}

\* An effect of a flow is let through only while policy still allows the flow
\* outright, or on a receipt that was spent for this very flow: a flow accepted
\* without a receipt is stopped when its unconditional grant gives way to one
\* that asks for approval.
EffectsStayAuthorized ==
    \A t \in Tasks : task[t] # Free /\ task[t].kind = "effect" /\ task[t].pc = "allowed" =>
        \/ task[t].decision = "allowed"
        \/ task[t].decision = "approval" /\ \E u \in uses : u[2] = task[t].flow

\* What is let through is authorized when it is let through: nothing on a grant
\* revoked before it arrived, and no effect of a flow on less than its grant
\* or its own receipt (evaluate, validate_flow_effect_authorization).
AllowedIsAuthorized == RevocationHolds /\ EffectsStayAuthorized
=============================================================================
