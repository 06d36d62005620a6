---------------------------- MODULE RequestStore ----------------------------
(***************************************************************************)
(* The durable request lifecycle of pam_store/src/store.rs: acceptance     *)
(* with idempotency keys, one queue per project, leases with expiry,       *)
(* renewal and recovery, cancellation, and the part of a flow checkpoint   *)
(* that decides how its request ends.  Every action is one IMMEDIATE       *)
(* SQLite transaction; the store worker runs them one at a time.           *)
(*                                                                         *)
(* Abstractions.  A caller and its idempotency key are one value of Keys.  *)
(* The pair (lease_owner, lease_token) is one number, fresh at each claim  *)
(* as the UUID is.  A request's operation is a member of Ops, and FlowOps  *)
(* are those of kind flow_run.  A flow snapshot is its phase; a transition *)
(* is its kind.  Calls that are rejected change nothing and are stuttering *)
(* steps.                                                                  *)
(***************************************************************************)
EXTENDS Naturals, Sequences, FiniteSets

CONSTANTS
    RequestIds, Projects, Keys, Ops,
    FlowOps,        \* the operations of kind flow_run
    None,           \* SQL NULL in the columns that hold an identifier
    LeaseDuration,
    MaxTime,        \* bound on the wall clock
    MaxClaims,      \* bound on the number of leases ever granted
    MaxEvents       \* bound on the events of a request whose checkpoint is saved

ASSUME StoreAssumption ==
    /\ IsFiniteSet(RequestIds)
    /\ FlowOps \subseteq Ops
    /\ None \notin RequestIds \cup Projects \cup Keys \cup Ops
    /\ LeaseDuration \in Nat \ {0}
    /\ MaxTime \in Nat /\ MaxClaims \in Nat /\ MaxEvents \in Nat

VARIABLES
    req,         \* table requests: one row per request id
    nextSeq,     \* table projects: next_queue_sequence
    events,      \* table events: the kinds recorded for each request, in order
    ckpt,        \* table flow_runs: one checkpoint per flow request
    authorized,  \* table flow_authorizations: the requests that have an intact row
    handles,     \* the leases the workers of the running daemon hold
    lastToken,   \* the last lease token generated
    now          \* the wall clock, which may also be set back

vars == <<req, nextSeq, events, ckpt, authorized, handles, lastToken, now>>

-----------------------------------------------------------------------------
Active == {"leased", "cancellation_requested"}
Terminal == {"succeeded", "failed", "cancelled"}
States == {"absent", "queued"} \cup Active \cup Terminal
Unfinished == {"queued"} \cup Active

Outcomes == {"solved", "unresolved", "blocked", "cancelled"}
Phases == {"none", "running", "inflight", "cancelling", "draining"} \cup Outcomes

\* "flow" is the encoded terminal result kept in the flow checkpoint.
Results == {"null", "success", "failure", "cancellation", "flow"}
TerminalEvents == {"completed", "failed", "cancelled"}
EventKinds == {"accepted", "started", "lease_expired", "cancellation_requested",
               "flow_progress", "flow_effect_started", "flow_reconciliation_unknown"}
              \cup TerminalEvents

Row == [state: States, project: Projects \cup {None}, key: Keys \cup {None},
        op: Ops \cup {None}, seq: Nat, rowid: Nat, at: Nat, attempt: Nat,
        token: Nat, expires: Nat, result: Results]
Handle == [request: RequestIds, token: Nat \ {0}]
Checkpoint == [phase: Phases, override: BOOLEAN]

NoRow == [state |-> "absent", project |-> None, key |-> None, op |-> None,
          seq |-> 0, rowid |-> 0, at |-> 0, attempt |-> 0, token |-> 0,
          expires |-> 0, result |-> "null"]
NoCheckpoint == [phase |-> "none", override |-> FALSE]

IsFlow(r) == req[r].op \in FlowOps

AppendEvent(r, kind) == events' = [events EXCEPT ![r] = Append(@, kind)]

\* The ways an UPDATE changes a row; every one but a renewal appends an event.
NewRow(p, k, o, seq, rowid) ==
    [NoRow EXCEPT !.state = "queued", !.project = p, !.key = k, !.op = o,
                  !.seq = seq, !.rowid = rowid, !.at = now]
Leased(row, token) ==
    [row EXCEPT !.state = "leased", !.attempt = @ + 1,
                !.token = token, !.expires = now + LeaseDuration]

Renewed(row) == [row EXCEPT !.expires = now + LeaseDuration]

\* Mutant: a lost request goes to the back of its queue.
RequeuedLast(row) ==
    [row EXCEPT !.state = "queued", !.token = 0, !.expires = 0, !.seq = nextSeq[row.project]]

Requeued(row) == [row EXCEPT !.state = "queued", !.token = 0, !.expires = 0]

\* Mutant: the cancellation is recorded but the request stays leased.
CancelMarkedLeased(row) == [row EXCEPT !.result = "cancellation"]

CancelMarked(row) ==
    [row EXCEPT !.state = "cancellation_requested", !.result = "cancellation"]
Finalized(row, state, result) ==
    [row EXCEPT !.state = state, !.token = 0, !.expires = 0, !.result = result]

Update(r, row, kind) == req' = [req EXCEPT ![r] = row] /\ AppendEvent(r, kind)

Init ==
    /\ req = [r \in RequestIds |-> NoRow]
    /\ nextSeq = [p \in Projects |-> 1]
    /\ events = [r \in RequestIds |-> <<>>]
    /\ ckpt = [r \in RequestIds |-> NoCheckpoint]
    /\ authorized = {}
    /\ handles = {}
    /\ lastToken = 0
    /\ now = 0

-----------------------------------------------------------------------------
\* Acceptance.  A retry of the same submission and a conflicting one both find
\* the row of (caller, project, key) and insert nothing; so does a request id
\* that is already taken.  A flow is accepted by the transaction that also
\* records its authorization.
RowCount == Cardinality({q \in RequestIds : req[q].state # "absent"})

\* Mutant: only unfinished requests are searched for the key.
AcceptedUnfinished(p, k) ==
    \E q \in RequestIds : req[q].project = p /\ req[q].key = k /\ req[q].state \in Unfinished

Accepted(p, k) == \E q \in RequestIds : req[q].project = p /\ req[q].key = k

Accept(r, p, k, o) ==
    /\ ~Accepted(p, k)
    /\ req[r].state = "absent"
    /\ nextSeq' = [nextSeq EXCEPT ![p] = @ + 1]
    /\ Update(r, NewRow(p, k, o, nextSeq[p], 1 + RowCount), "accepted")
    /\ authorized' = IF o \in FlowOps THEN authorized \cup {r} ELSE authorized
    /\ UNCHANGED <<ckpt, handles, lastToken, now>>

-----------------------------------------------------------------------------
\* Mutants: the claim ignores the project's active lease, or its queue order.
EligibleBesideLease(r) ==
    /\ req[r].state = "queued"
    /\ \A q \in RequestIds :
         req[q].project = req[r].project /\ req[q].state = "queued" => req[q].seq >= req[r].seq

EligibleAnyOrder(r) ==
    /\ req[r].state = "queued"
    /\ \A q \in RequestIds : req[q].project = req[r].project => req[q].state \notin Active

\* The next request of a project, and the one that claim picks among projects
\* (ORDER BY accepted_at_ms, rowid).
Eligible(r) ==
    /\ req[r].state = "queued"
    /\ \A q \in RequestIds :
         req[q].project = req[r].project =>
           /\ req[q].state \in Unfinished => req[q].seq >= req[r].seq
           /\ req[q].state \notin Active

EarlierRow(r, q) ==
    \/ req[r].at < req[q].at
    \/ req[r].at = req[q].at /\ req[r].rowid <= req[q].rowid

Candidate(r) == Eligible(r) /\ \A q \in RequestIds : Eligible(q) => EarlierRow(r, q)

\* claim fails with CorruptFlowAuthorization when the candidate is a flow that
\* lost its authorization: the request stays queued.
Claim(r) ==
    /\ Candidate(r)
    /\ IsFlow(r) => r \in authorized
    /\ lastToken < MaxClaims
    /\ lastToken' = lastToken + 1
    /\ Update(r, Leased(req[r], lastToken + 1), "started")
    /\ handles' = handles \cup {[request |-> r, token |-> lastToken + 1]}
    /\ UNCHANGED <<nextSeq, ckpt, authorized, now>>

\* The lease still belongs to the holder of h: its owner and token are those of
\* the row, and it has not expired.
Live(h) ==
    /\ req[h.request].state \in Active
    /\ req[h.request].token = h.token
    /\ req[h.request].expires > now

Renew(h) ==
    /\ Live(h)
    /\ req' = [req EXCEPT ![h.request] = Renewed(@)]
    /\ UNCHANGED <<nextSeq, events, ckpt, authorized, handles, lastToken, now>>

-----------------------------------------------------------------------------
\* How a flow's terminal outcome resolves its request, and whether it may stand
\* although cancellation was requested.
ResolvedState(phase) ==
    IF phase = "solved" THEN "succeeded"
    ELSE IF phase \in {"unresolved", "blocked"} THEN "failed" ELSE "cancelled"

TerminalEvent(state) ==
    IF state = "succeeded" THEN "completed"
    ELSE IF state = "failed" THEN "failed" ELSE "cancelled"

HasTerminalFlow(r) == IsFlow(r) /\ ckpt[r].phase \in Outcomes

MayOverrideCancellation(r) ==
    \/ ckpt[r].phase = "cancelled"
    \/ ckpt[r].phase = "blocked" /\ ckpt[r].override

\* Mutant: an acknowledged cancellation outweighs every terminal checkpoint.
FlowEndedLeased(r) == HasTerminalFlow(r) /\ req[r].state = "leased"

\* The terminal checkpoint that settles an active request.
FlowEnded(r) == HasTerminalFlow(r) /\ (req[r].state = "leased" \/ MayOverrideCancellation(r))

EndedByFlow(r) == Finalized(req[r], ResolvedState(ckpt[r].phase), "flow")

\* Mutant: recovery returns every lost request to the queue.
RecoveredToQueue(r) == IF FlowEnded(r) THEN EndedByFlow(r) ELSE Requeued(req[r])

\* Recovery of one active lease: a flow that had already ended settles its
\* request; otherwise a leased one returns to the queue and one with an
\* acknowledged cancellation is finalized with the result stored for it.
Recovered(r) ==
    IF FlowEnded(r) THEN EndedByFlow(r)
    ELSE IF req[r].state = "leased" THEN Requeued(req[r])
    ELSE Finalized(req[r], "cancelled", req[r].result)

\* Mutant: recovery records every row as a lost lease.
RecoveryEventExpired(row) == "lease_expired"

RecoveryEvent(row) == IF row.state = "queued" THEN "lease_expired" ELSE TerminalEvent(row.state)

RecoverLeases(R) ==
    /\ req' = [r \in RequestIds |-> IF r \in R THEN Recovered(r) ELSE req[r]]
    /\ events' = [r \in RequestIds |->
                    IF r \in R THEN Append(events[r], RecoveryEvent(Recovered(r))) ELSE events[r]]
    /\ UNCHANGED <<nextSeq, ckpt, authorized, lastToken, now>>

\* Mutant: recovery selects finished rows too.
LeasesOfAnyState == {r \in RequestIds : req[r].state \notin {"absent", "queued"}}

ActiveLeases == {r \in RequestIds : req[r].state \in Active}
ExpiredLeases == {r \in ActiveLeases : req[r].expires <= now}

\* The scheduler's sweep, and the daemon's start: a crash takes every worker of
\* the old process with it, and the new one recovers all leases before it serves.
RecoverExpired ==
    /\ ExpiredLeases # {}
    /\ RecoverLeases(ExpiredLeases)
    /\ UNCHANGED handles

Restart ==
    /\ handles # {}
    /\ RecoverLeases(ActiveLeases)
    /\ handles' = {}

-----------------------------------------------------------------------------
\* The transitions that validate_transition_successor admits between phases.
\* inflight is EffectInFlight; cancelling is Cancelling while a stateful effect
\* is in flight and draining is Cancelling once its result is recorded; every
\* other status that is not terminal is running.
FlowSteps ==
    { <<"none", "create", "running">>,
      <<"running", "progress", "running">>,
      <<"running", "effect_started", "inflight">>,
      <<"inflight", "effect_started", "inflight">>,
      <<"inflight", "progress", "running">>,
      <<"inflight", "progress", "cancelling">>,
      <<"cancelling", "progress", "draining">>,
      <<"running", "progress", "solved">>,
      <<"running", "progress", "unresolved">>,
      <<"running", "progress", "blocked">>,
      <<"inflight", "progress", "blocked">>,
      <<"running", "progress", "cancelled">>,
      <<"inflight", "progress", "cancelled">>,
      <<"cancelling", "progress", "cancelled">>,
      <<"draining", "progress", "cancelled">>,
      <<"inflight", "reconciliation_unknown", "blocked">>,
      <<"cancelling", "reconciliation_unknown", "blocked">> }

FlowEvent(kind) ==
    IF kind = "effect_started" THEN "flow_effect_started"
    ELSE IF kind = "reconciliation_unknown" THEN "flow_reconciliation_unknown"
    ELSE "flow_progress"

\* The outcomes that a request in this state accepts; an override is the one
\* terminal result that stands against an acknowledged cancellation.
TerminalOverride(r, kind, to) ==
    /\ req[r].state = "cancellation_requested"
    /\ to = "blocked" /\ kind = "reconciliation_unknown" /\ ckpt[r].phase = "cancelling"

TerminalAllowed(r, kind, to) ==
    to \in Outcomes =>
        \/ req[r].state = "leased" /\ to # "cancelled"
        \/ req[r].state = "cancellation_requested" /\ to = "cancelled"
        \/ TerminalOverride(r, kind, to)

\* A save with the current revision.  Any other expected revision is rejected,
\* and so is an effect start once cancellation is acknowledged.
SaveCheckpoint(h, kind, to) ==
    LET r == h.request IN
    /\ Live(h)
    /\ IsFlow(r)
    /\ ~(req[r].state = "cancellation_requested" /\ kind = "effect_started")
    /\ TerminalAllowed(r, kind, to)
    /\ <<ckpt[r].phase, kind, to>> \in FlowSteps
    /\ Len(events[r]) < MaxEvents
    /\ ckpt' = [ckpt EXCEPT ![r] = [phase |-> to, override |-> TerminalOverride(r, kind, to)]]
    /\ IF kind = "create" THEN UNCHANGED events ELSE AppendEvent(r, FlowEvent(kind))
    /\ UNCHANGED <<req, nextSeq, authorized, handles, lastToken, now>>

-----------------------------------------------------------------------------
\* finish: an acknowledged cancellation keeps its own result whatever the
\* worker reports, and a leased request cannot end cancelled.
FinishAs(h, state, result) ==
    LET r == h.request
        row == IF req[r].state = "leased"
               THEN Finalized(req[r], state, result)
               ELSE Finalized(req[r], "cancelled", req[r].result)
    IN  /\ Live(h)
        /\ req[r].state = "leased" => state # "cancelled"
        /\ Update(r, row, TerminalEvent(row.state))
        /\ handles' = handles \ {h}
        /\ UNCHANGED <<nextSeq, ckpt, authorized, lastToken, now>>

\* The worker's choice: a flow whose checkpoint is terminal is completed by
\* FinishTerminalFlow, everything else by finish.
Finish(h) ==
    /\ ~HasTerminalFlow(h.request)
    /\ \/ FinishAs(h, "succeeded", "success") /\ ~IsFlow(h.request)
       \/ FinishAs(h, "failed", "failure")

FinishTerminalFlow(h) ==
    LET r == h.request IN
    /\ Live(h)
    /\ FlowEnded(r)
    /\ Update(r, EndedByFlow(r), TerminalEvent(EndedByFlow(r).state))
    /\ handles' = handles \ {h}
    /\ UNCHANGED <<nextSeq, ckpt, authorized, lastToken, now>>

\* cancel: a flow that already ended is resolved by its own result; a queued
\* request ends at once; a leased one is marked and left to its worker.
Cancel(r) ==
    /\ \/ /\ req[r].state \in Active /\ FlowEnded(r)
          /\ Update(r, EndedByFlow(r), TerminalEvent(EndedByFlow(r).state))
       \/ /\ req[r].state = "queued"
          /\ Update(r, Finalized(req[r], "cancelled", "cancellation"), "cancelled")
       \/ /\ req[r].state = "leased" /\ ~FlowEnded(r)
          /\ Update(r, CancelMarked(req[r]), "cancellation_requested")
    /\ UNCHANGED <<nextSeq, ckpt, authorized, handles, lastToken, now>>

\* The quarantine of a queued flow whose authorization is gone.
FailCorruptFlowAuthorization(r) ==
    /\ IsFlow(r)
    /\ req[r].state = "queued"
    /\ r \notin authorized
    /\ Update(r, Finalized(req[r], "failed", "failure"), "failed")
    /\ UNCHANGED <<nextSeq, ckpt, authorized, handles, lastToken, now>>

-----------------------------------------------------------------------------
\* The reset tiers that reach the queue: both run whatever is queued or leased.
ResetAccess ==
    /\ authorized # {}
    /\ authorized' = {}
    /\ UNCHANGED <<req, nextSeq, events, ckpt, handles, lastToken, now>>

ResetHistory ==
    /\ \E r \in RequestIds : ckpt[r] # NoCheckpoint
    /\ ckpt' = [r \in RequestIds |-> NoCheckpoint]
    /\ UNCHANGED <<req, nextSeq, events, authorized, handles, lastToken, now>>

\* A caller reads the system time before it sends its command to the store
\* worker: the time of a transaction may be later or earlier than the last.
SetClock(t) ==
    /\ t # now
    /\ now' = t
    /\ UNCHANGED <<req, nextSeq, events, ckpt, authorized, handles, lastToken>>

Next ==
    \/ \E r \in RequestIds, p \in Projects, k \in Keys, o \in Ops : Accept(r, p, k, o)
    \/ \E r \in RequestIds :
         Claim(r) \/ Cancel(r) \/ FailCorruptFlowAuthorization(r)
    \/ \E h \in handles : Renew(h) \/ Finish(h) \/ FinishTerminalFlow(h)
    \/ \E h \in handles, s \in FlowSteps : SaveCheckpoint(h, s[2], s[3])
    \/ RecoverExpired
    \/ Restart
    \/ ResetAccess
    \/ ResetHistory
    \/ \E t \in 0 .. MaxTime : SetClock(t)

Spec == Init /\ [][Next]_vars

-----------------------------------------------------------------------------
\* The tables keep their types.
TypeOK ==
    /\ req \in [RequestIds -> Row]
    /\ nextSeq \in [Projects -> Nat \ {0}]
    /\ events \in [RequestIds -> Seq(EventKinds)]
    /\ ckpt \in [RequestIds -> Checkpoint]
    /\ authorized \subseteq RequestIds
    /\ handles \subseteq Handle
    /\ lastToken \in Nat
    /\ now \in Nat

SameProject(r, q) == req[r].state # "absent" /\ req[r].project = req[q].project

\* A project never has two requests with an active lease, whatever the order of
\* claims, expiries, recoveries and restarts: two workers never run for one
\* project with a lease the store would honour.
OneActiveLeasePerProject ==
    \A r, q \in ActiveLeases : SameProject(r, q) => r = q

\* First in, first out: a request that was ever started finds every request its
\* project accepted earlier finished, also when a lost lease put it back into
\* the queue.
StartedInOrder ==
    \A r, q \in RequestIds :
        SameProject(r, q) /\ req[q].attempt > 0 /\ req[r].seq < req[q].seq
          => req[r].state \in Terminal

\* A caller that retries a submission meets the request it created: no two
\* requests of a project carry one idempotency key, and no two share a place in
\* its queue.
IdempotentAcceptance ==
    \A r, q \in RequestIds :
        SameProject(r, q) /\ r # q => req[r].key # req[q].key /\ req[r].seq # req[q].seq

\* A finished request has exactly one terminal event, which is the last one and
\* agrees with its state, and an unfinished one has none: replay never shows an
\* end that is taken back or an event after the end.
OneTerminalEvent ==
    \A r \in RequestIds :
        /\ \A i \in 1 .. Len(events[r]) :
             events[r][i] \in TerminalEvents => i = Len(events[r]) /\ req[r].state \in Terminal
        /\ req[r].state \in Terminal =>
             Len(events[r]) > 0 /\ events[r][Len(events[r])] = TerminalEvent(req[r].state)

\* An acknowledged cancellation is kept: the request ends cancelled, unless its
\* last flow transition recorded that the outcome of an effect is unknown.
AcknowledgedCancellationStands ==
    \A r \in RequestIds : \A i \in 1 .. Len(events[r]) :
        events[r][i] = "cancellation_requested" /\ req[r].state \in Terminal =>
            \/ req[r].state = "cancelled"
            \/ /\ req[r].state = "failed" /\ req[r].result = "flow"
               /\ events[r][Len(events[r]) - 1] = "flow_reconciliation_unknown"

\* No effect is started after the cancellation of its request was acknowledged.
NoEffectAfterCancellation ==
    \A r \in RequestIds : \A i, j \in 1 .. Len(events[r]) :
        events[r][i] = "cancellation_requested" /\ events[r][j] = "flow_effect_started" => j < i

\* A request whose flow recorded a terminal outcome ends with that outcome and
\* that result, whoever finalizes it: the worker, recovery or a cancellation.
FlowOutcomeDecides ==
    \A r \in RequestIds :
        HasTerminalFlow(r) =>
            /\ req[r].state # "queued"
            /\ req[r].state \in Terminal =>
                 req[r].state = ResolvedState(ckpt[r].phase) /\ req[r].result = "flow"

\* A finished request is never changed again, its events included.
FinishedIsFinal ==
    [][\A r \in RequestIds :
         req[r].state \in Terminal => req'[r] = req[r] /\ events'[r] = events[r]]_vars

=============================================================================
