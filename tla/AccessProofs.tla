---------------------------- MODULE AccessProofs ----------------------------
(*****************************************************************************)
(* Proofs about who may do what: the daemon's policy gate (Access) and the   *)
(* control center's fences (DesktopCore). Both are about a decision that is  *)
(* taken on what a request carried when it came: a clock reading, a receipt, *)
(* a fence. AccessInv ties every task on its way to the grants that were     *)
(* revoked when it came, and every use of a receipt to the row it changed;   *)
(* CoreInv ties the operations the core remembers to all those it accepted.  *)
(* Each holds whatever other tasks, revocations, resets, activations and     *)
(* refreshes come in between.                                                *)
(*****************************************************************************)
EXTENDS Access, DesktopCore, TLAPS

\* The rows and tasks of the policy gate.
Grant == [written : {TRUE}, capability : Capabilities \cup {Nil}, resource : Resources \cup {"any", Nil},
          effect : {"allow", "deny", Nil}, approval : {"none", "once", Nil}, expires : Nat, revoked : Nat]

\* A row of the approvals table once it is inserted.
Issued == [state : {"requested", "approved", "denied", "expired", "consumed", "deleted"},
           flow : Flows \cup {Nil}, capability : Capabilities, resource : Resources \cup {"grants"},
           requested : Nat, expires : Nat, decided : Nat, consumed : Nat]

\* A task that has read the clock and is not answered yet.
TimedTask == [kind : Kinds, pc : {"timed", "listing", "revoking"}, resource : Resources \cup {"grants"},
              flow : Flows \cup {Nil}, receipt : ReceiptIds \cup {Nil}, schema : BOOLEAN, now : Nat,
              floor : SUBSET GrantIds, todo : SUBSET GrantIds]

\* A task whose request was let through.
AllowedTask == [kind : Kinds, pc : {"allowed"}, flow : Flows \cup {Nil},
                decision : {"allowed", "approval", "denied"}, floor : SUBSET GrantIds,
                basis : SUBSET GrantIds]

\* The types of the clock, the tables and the caller.
AccessTypeOK ==
    /\ clock \in Nat /\ clock < Never
    /\ caller \in [active : BOOLEAN, credential : Nat]
    /\ grants \in [GrantIds -> {Unset} \cup Grant]
    /\ receipts \in [ReceiptIds -> [state : {"none"}] \cup Issued]
    /\ flows \in [Flows -> {"none", "queued", "leased", "ended", "quarantined"}]
    /\ proofs \in [Flows -> [receipt : ReceiptIds \cup {Nil}, resource : Resources \cup {"grants", Nil},
                             schema : BOOLEAN]]

\* A grant is never revoked in the future.
RevokedInThePast ==
    \A i \in GrantIds : grants[i].written /\ grants[i].revoked < Never => grants[i].revoked <= clock

\* A task still on its way: what was revoked when it arrived was revoked by the time
\* it carries.
TimedFits(x) ==
    /\ x \in TimedTask /\ x.now <= clock
    /\ x.flow # Nil <=> x.kind \in {"flow", "effect"}
    /\ x.kind \in {"decide", "consume"} => x.receipt \in ReceiptIds
    /\ \A i \in x.floor : grants[i].written /\ grants[i].revoked <= x.now

\* A task that was let through.
AllowedFits(x) ==
    /\ x \in AllowedTask /\ x.basis \cap x.floor = {}
    /\ x.kind = "effect" =>
         \/ x.decision = "allowed"
         \/ x.decision = "approval" /\ \E u \in uses : u[2] = x.flow

TaskFits(x) == x = Free \/ TimedFits(x) \/ AllowedFits(x)

\* A receipt is used exactly if it was consumed (or deleted since), and for what it
\* was issued for.
UsesFit ==
    /\ \A u \in uses : /\ u[1] \in ReceiptIds /\ receipts[u[1]].state \in {"consumed", "deleted"}
                       /\ u[2] = receipts[u[1]].flow /\ u[3] = receipts[u[1]].resource
                       /\ \A v \in uses : v[1] = u[1] => v = u
    /\ \A a \in ReceiptIds : receipts[a].state = "consumed" =>
         \E u \in uses : u[1] = a /\ u[2] = receipts[a].flow

\* The inductive invariant of the policy gate.
AccessInv ==
    /\ AccessTypeOK
    /\ RevokedInThePast
    /\ task \in [Tasks -> {Free} \cup TimedTask \cup AllowedTask]
    /\ \A t \in Tasks : TaskFits(task[t])
    /\ UsesFit

-----------------------------------------------------------------------------
(* What a step leaves as it was *)

\* A revocation is never undone.
RevocationsStay ==
    \A i \in GrantIds : grants[i].written /\ grants[i].revoked < Never =>
        grants'[i].written /\ grants'[i].revoked \in Nat /\ grants'[i].revoked <= grants[i].revoked

\* What every step of the gate respects: uses are only added, time does not go back
\* and a revocation stands.
Forward == uses \subseteq uses' /\ clock' \in Nat /\ clock <= clock' /\ RevocationsStay

\* evaluate answers one of the three policy decisions.
LEMMA EvaluateKinds ==
    ASSUME NEW c, NEW r, NEW now
    PROVE  Evaluate(c, r, now) \in {"denied", "allowed", "approval"}
BY DEF Evaluate

\* Every request needs one of the modelled capabilities.
LEMMA CapabilityKinds ==
    ASSUME NEW kind
    PROVE  Capability(kind) \in Capabilities
BY DEF Capability, Capabilities

\* The time that stands for 'not revoked' lies beyond the clock and every expiry.
LEMMA NeverFacts ==
    /\ Never \in Nat /\ Ttl \in Nat /\ MaxClock \in Nat /\ MaxClock < Never
    /\ \A n \in Nat : n <= MaxClock => n + Ttl < Never
BY AccessAssumption DEF Never

\* What a task rests on survives the steps of others: a grant revoked when the task
\* arrived stays revoked at or before the time it carries, also when reset_access
\* deletes the row.
LEMMA TimedStays ==
    ASSUME AccessInv, Forward, NEW x, TimedFits(x)
    PROVE  TimedFits(x)'
<1>1. /\ x \in TimedTask /\ x.now <= clock /\ x.floor \subseteq GrantIds
      /\ x.now \in Nat /\ clock \in Nat /\ clock < Never /\ Never \in Nat
  BY NeverFacts, Zenon DEF TimedFits, TimedTask, AccessInv, AccessTypeOK
<1>2. x.now <= clock'
  BY <1>1 DEF Forward
<1>3. ASSUME NEW i \in x.floor
      PROVE  grants'[i].written /\ grants'[i].revoked <= x.now
  <2>1. grants[i].written /\ grants[i].revoked <= x.now /\ i \in GrantIds
    BY <1>1, <1>3, Zenon DEF TimedFits
  <2>2. grants[i].revoked \in Nat
    <3>1. grants[i] \in {Unset} \cup Grant
      BY <2>1, Zenon DEF AccessInv, AccessTypeOK
    <3>2. grants[i] # Unset
      BY <2>1 DEF Unset
    <3> QED
      BY <3>1, <3>2, Zenon DEF Grant
  <2>3. grants'[i].written /\ grants'[i].revoked \in Nat /\ grants'[i].revoked <= grants[i].revoked
    BY <1>1, <2>1, <2>2 DEF Forward, RevocationsStay
  <2>4. grants'[i].revoked <= x.now
    BY <1>1, <2>1, <2>2, <2>3
  <2> QED
    BY <2>3, <2>4, Zenon
<1> QED
  BY <1>1, <1>2, <1>3, Zenon DEF TimedFits

\* What a task was let through on survives too: the use of a receipt is never taken
\* back.
LEMMA AllowedStays ==
    ASSUME Forward, NEW x, AllowedFits(x)
    PROVE  AllowedFits(x)'
BY DEF Forward, AllowedFits

\* So every task keeps fitting in a step that does not touch it.
LEMMA FitsStays ==
    ASSUME AccessInv, Forward, NEW x, TaskFits(x)
    PROVE  TaskFits(x)'
BY TimedStays, AllowedStays DEF TaskFits

\* A step that touches no task keeps them all.
LEMMA TasksStay ==
    ASSUME AccessInv, Forward, UNCHANGED task
    PROVE  /\ task' \in [Tasks -> {Free} \cup TimedTask \cup AllowedTask]
           /\ \A t \in Tasks : TaskFits(task[t])'
<1>1. ASSUME NEW t \in Tasks PROVE TaskFits(task[t])'
  <2>1. PICK x : x = task[t]
    OBVIOUS
  <2>2. TaskFits(x)'
    BY <2>1, FitsStays, Zenon DEF AccessInv
  <2>3. (x = task[t])'
    BY <2>1
  <2> QED
    BY <2>2, <2>3
<1> QED
  BY <1>1 DEF AccessInv

\* A step of one task keeps all of them when it leaves that one in a state that
\* fits.
LEMMA TaskUpdate ==
    ASSUME AccessInv, Forward, NEW t \in Tasks, NEW x, TaskFits(x)',
           task' = [task EXCEPT ![t] = x]
    PROVE  /\ task' \in [Tasks -> {Free} \cup TimedTask \cup AllowedTask]
           /\ \A s \in Tasks : TaskFits(task[s])'
<1>1. x \in {Free} \cup TimedTask \cup AllowedTask
  BY DEF TaskFits, TimedFits, AllowedFits
<1>2. ASSUME NEW s \in Tasks PROVE TaskFits(task[s])'
  <2>1. PICK y : y = task'[s]
    OBVIOUS
  <2>2. TaskFits(y)'
    <3>1. CASE s = t
      BY <2>1, <3>1 DEF AccessInv
    <3>2. CASE s # t
      <4>1. y = task[s]
        BY <2>1, <3>2 DEF AccessInv
      <4>2. TaskFits(y)
        BY <4>1 DEF AccessInv
      <4> QED
        BY <4>2, FitsStays
    <3> QED
      BY <3>1, <3>2
  <2>3. (y = task[s])'
    BY <2>1
  <2> QED
    BY <2>2, <2>3
<1> QED
  BY <1>1, <1>2 DEF AccessInv

\* A task that answers no request fits.
LEMMA FreeFits == TaskFits(Free)'
BY DEF TaskFits

\* Timed tasks are the ones whose pc says so.
LEMMA TimedIsTimed ==
    ASSUME AccessInv, NEW t \in Tasks, task[t] # Free,
           task[t].pc \in {"timed", "listing", "revoking"}
    PROVE  TimedFits(task[t]) /\ task[t] \in TimedTask
<1>1. TaskFits(task[t])
  BY DEF AccessInv
<1>2. ~AllowedFits(task[t])
  BY DEF AllowedFits, AllowedTask
<1> QED
  BY <1>1, <1>2, Zenon DEF TaskFits, TimedFits

-----------------------------------------------------------------------------
(* Receipts *)

\* Rewriting a receipt that was never consumed, to anything but consumed, keeps the
\* uses true to the table: the INSERT of a challenge, an expiry and a decision.
LEMMA ReceiptKeepsUses ==
    ASSUME AccessInv, NEW a \in ReceiptIds, NEW r \in Issued, r.state # "consumed",
           receipts[a].state \notin {"consumed", "deleted"},
           receipts' = [receipts EXCEPT ![a] = r], UNCHANGED uses
    PROVE  /\ receipts' \in [ReceiptIds -> [state : {"none"}] \cup Issued]
           /\ UsesFit'
<1>1. /\ receipts \in [ReceiptIds -> [state : {"none"}] \cup Issued] /\ UsesFit
  BY Zenon DEF AccessInv, AccessTypeOK
<1>2. /\ receipts' \in [ReceiptIds -> [state : {"none"}] \cup Issued]
      /\ receipts'[a] = r /\ \A b \in ReceiptIds \ {a} : receipts'[b] = receipts[b]
  BY <1>1, Zenon
<1>3. \A u \in uses : u[1] \in ReceiptIds \ {a}
  BY <1>1, Zenon DEF UsesFit
<1>4. ASSUME NEW u \in uses'
      PROVE  /\ u[1] \in ReceiptIds /\ receipts'[u[1]].state \in {"consumed", "deleted"}
             /\ u[2] = receipts'[u[1]].flow /\ u[3] = receipts'[u[1]].resource
             /\ \A v \in uses' : v[1] = u[1] => v = u
  BY <1>1, <1>2, <1>3, Zenon DEF UsesFit
<1>5. ASSUME NEW b \in ReceiptIds, receipts'[b].state = "consumed"
      PROVE  \E u \in uses' : u[1] = b /\ u[2] = receipts'[b].flow
  BY <1>1, <1>2, <1>5 DEF UsesFit
<1> QED
  BY <1>2, <1>4, <1>5, Zenon DEF UsesFit

\* Consuming an approved receipt adds its first and only use, for the flow and
\* resource the row names.
LEMMA SpendingFits ==
    ASSUME AccessInv, NEW a \in ReceiptIds, NEW r \in Issued, r.state = "consumed", NEW x,
           receipts[a].state = "approved", r.flow = x.flow, r.resource = x.resource,
           receipts' = [receipts EXCEPT ![a] = r], Spend(a, x)
    PROVE  /\ receipts' \in [ReceiptIds -> [state : {"none"}] \cup Issued]
           /\ UsesFit'
<1>1. /\ receipts \in [ReceiptIds -> [state : {"none"}] \cup Issued] /\ UsesFit
  BY Zenon DEF AccessInv, AccessTypeOK
<1>2. /\ receipts' \in [ReceiptIds -> [state : {"none"}] \cup Issued]
      /\ receipts'[a] = r /\ \A b \in ReceiptIds \ {a} : receipts'[b] = receipts[b]
  BY <1>1, Zenon
<1>3. \A u \in uses : u[1] \in ReceiptIds \ {a}
  BY <1>1, Zenon DEF UsesFit
<1>4. PICK w : /\ w[1] = a /\ w[2] = x.flow /\ w[3] = x.resource /\ uses' = uses \cup {w}
  BY Zenon DEF Spend
<1>5. ASSUME NEW u \in uses'
      PROVE  /\ u[1] \in ReceiptIds /\ receipts'[u[1]].state \in {"consumed", "deleted"}
             /\ u[2] = receipts'[u[1]].flow /\ u[3] = receipts'[u[1]].resource
             /\ \A v \in uses' : v[1] = u[1] => v = u
  <2>1. CASE u = w
    BY <1>2, <1>3, <1>4, <2>1, Zenon
  <2>2. CASE u \in uses
    BY <1>1, <1>2, <1>3, <1>4, <2>2 DEF UsesFit
  <2> QED
    BY <1>4, <2>1, <2>2, Zenon
<1>6. ASSUME NEW b \in ReceiptIds, receipts'[b].state = "consumed"
      PROVE  \E u \in uses' : u[1] = b /\ u[2] = receipts'[b].flow
  <2>1. CASE b = a
    BY <1>2, <1>4, <2>1, Zenon
  <2>2. CASE b # a
    BY <1>1, <1>2, <1>4, <1>6, <2>2 DEF UsesFit
  <2> QED
    BY <2>1, <2>2, Zenon
<1> QED
  BY <1>2, <1>5, <1>6, Zenon DEF UsesFit

\* resolve_approval and resolve_flow_approval: whatever they answer, the row they
\* leave and the use they record agree; only a receipt that fits the request
\* exactly and is approved, so not yet consumed, is answered Allowed.
LEMMA ReceiptStep ==
    ASSUME AccessInv, NEW x, TimedFits(x), NEW a \in ReceiptIds, NEW answer,
           answer = ResolvedAs(receipts[a], x, x.flow) \/ answer = "denied",
           ResolveReceipt(a, answer, x.now),
           IF answer = "allowed" THEN Spend(a, x) ELSE UNCHANGED uses
    PROVE  /\ receipts' \in [ReceiptIds -> [state : {"none"}] \cup Issued]
           /\ UsesFit' /\ uses \subseteq uses'
<1> DEFINE r == receipts[a]
<1>1. receipts \in [ReceiptIds -> [state : {"none"}] \cup Issued] /\ UsesFit
      /\ x.now \in Nat
  BY Zenon DEF AccessInv, AccessTypeOK, TimedFits, TimedTask
<1>2. uses \subseteq uses'
  BY DEF Spend
<1>3. CASE answer = "allowed"
  <2>1. r.state = "approved" /\ r.flow = x.flow /\ r.resource = x.resource
    BY <1>3, Zenon DEF ResolvedAs, ReceiptFits
  <2>2. r \in Issued
    BY <1>1, <2>1, Zenon
  <2>3. PICK new : new = [r EXCEPT !.state = "consumed", !.consumed = x.now]
    BY Zenon
  <2>4. new \in Issued /\ new.state = "consumed" /\ new.flow = x.flow /\ new.resource = x.resource
    BY <1>1, <2>1, <2>2, <2>3, Zenon DEF Issued
  <2>5. receipts' = [receipts EXCEPT ![a] = new]
    BY <1>1, <1>3, <2>3, Zenon DEF ResolveReceipt
  <2> QED
    BY <1>2, <1>3, <2>1, <2>4, <2>5, SpendingFits, Zenon
<1>4. CASE answer = "expired"
  <2>1. r.state \in {"requested", "approved", "expired"}
    BY <1>4, Zenon DEF ResolvedAs, Due
  <2>2. r \in Issued
    BY <1>1, <2>1, Zenon
  <2>3. PICK new : new = [r EXCEPT !.state = "expired"]
    BY Zenon
  <2>4. new \in Issued /\ new.state = "expired"
    BY <2>2, <2>3, Zenon DEF Issued
  <2>5. receipts' = [receipts EXCEPT ![a] = new]
    BY <1>1, <1>4, <2>3, Zenon DEF ResolveReceipt
  <2> QED
    BY <1>2, <1>4, <2>1, <2>4, <2>5, ReceiptKeepsUses, Zenon
<1>5. CASE answer \notin {"allowed", "expired"}
  <2>1. UNCHANGED <<receipts, uses>>
    BY <1>5, Zenon DEF ResolveReceipt
  <2> QED
    BY <1>1, <2>1, ZenonT(40) DEF UsesFit
<1> QED
  BY <1>3, <1>4, <1>5, Zenon

\* A challenge takes a fresh row, for the request's own flow and resource.
LEMMA ChallengeStep ==
    ASSUME AccessInv, NEW x, TimedFits(x), Unissued # {}, Challenge(x, x.flow), UNCHANGED uses
    PROVE  /\ receipts' \in [ReceiptIds -> [state : {"none"}] \cup Issued]
           /\ UsesFit'
<1>1. NextReceipt \in ReceiptIds /\ receipts[NextReceipt].state = "none"
  BY Zenon DEF NextReceipt, Unissued
<1>2. PICK new : new = [state |-> "requested", flow |-> x.flow, capability |-> Capability(x.kind),
                        resource |-> x.resource, requested |-> x.now, expires |-> x.now + Ttl,
                        decided |-> Never, consumed |-> Never]
  BY Zenon
<1>3. /\ x.flow \in Flows \cup {Nil} /\ x.resource \in Resources \cup {"grants"}
      /\ x.now \in Nat /\ x.now + Ttl \in Nat /\ Never \in Nat /\ Capability(x.kind) \in Capabilities
  BY NeverFacts, CapabilityKinds DEF TimedFits, TimedTask
<1>4. new \in Issued /\ new.state = "requested"
  BY <1>2, <1>3, Zenon DEF Issued
<1>5. receipts' = [receipts EXCEPT ![NextReceipt] = new]
  BY <1>2, Zenon DEF Challenge
<1> QED
  BY <1>1, <1>4, <1>5, ReceiptKeepsUses, Zenon

-----------------------------------------------------------------------------
(* Requests that are let through *)

\* load_grants with is_active_at never returns a grant that was revoked when the
\* request arrived: its revocation lies at or before the time the request carries.
LEMMA MatchingIsUnrevoked ==
    ASSUME AccessInv, NEW x, TimedFits(x), NEW c, NEW r
    PROVE  Matching(c, r, x.now) \subseteq GrantIds /\ Matching(c, r, x.now) \cap x.floor = {}
<1>1. ASSUME NEW i \in Matching(c, r, x.now), i \in x.floor PROVE FALSE
  <2>1. grants[i].written /\ x.now < grants[i].revoked /\ grants[i].revoked <= x.now /\ i \in GrantIds
    BY <1>1, Zenon DEF Matching, IsActiveAt, TimedFits
  <2>2. grants[i] \in Grant
    BY <2>1 DEF AccessInv, AccessTypeOK, Unset
  <2>3. grants[i].revoked \in Nat /\ x.now \in Nat
    BY <2>2, Zenon DEF Grant, TimedFits, TimedTask
  <2> QED
    BY <2>1, <2>3
<1> QED
  BY <1>1, Zenon DEF Matching

\* A request that is let through fits, when an effect of a flow has its outright
\* grant or a used receipt behind it.
LEMMA AllowStep ==
    ASSUME AccessInv, Forward, NEW t \in Tasks, TimedFits(task[t]), NEW decision,
           decision \in {"allowed", "approval", "denied"}, Allow(t, decision),
           task[t].kind = "effect" =>
             decision = "allowed" \/ (decision = "approval" /\ \E u \in uses : u[2] = task[t].flow)
    PROVE  /\ task' \in [Tasks -> {Free} \cup TimedTask \cup AllowedTask]
           /\ \A s \in Tasks : TaskFits(task[s])'
<1>1. PICK x : x = task[t]
  BY Zenon
<1>2. PICK basis : basis = Matching(Capability(x.kind), x.resource, x.now)
  BY Zenon
<1>3. PICK y : y = [kind |-> x.kind, pc |-> "allowed", flow |-> x.flow, decision |-> decision,
                    floor |-> x.floor, basis |-> basis]
  BY Zenon
<1>4. TimedFits(x) /\ x \in TimedTask
  BY <1>1, Zenon DEF TimedFits
<1>5. basis \subseteq GrantIds /\ basis \cap x.floor = {}
  BY <1>2, <1>4, MatchingIsUnrevoked, Zenon
<1>6. y \in AllowedTask
  BY <1>3, <1>4, <1>5, Zenon DEF AllowedTask, TimedTask
<1>7. y.kind = "effect" => \/ y.decision = "allowed"
                           \/ y.decision = "approval" /\ \E u \in uses : u[2] = y.flow
  BY <1>1, <1>3, Zenon
<1>8. AllowedFits(y)
  BY <1>3, <1>5, <1>6, <1>7, Zenon DEF AllowedFits
<1>9. TaskFits(y)'
  BY <1>8, AllowedStays, Zenon DEF TaskFits
<1>10. task' = [task EXCEPT ![t] = y]
  BY <1>1, <1>2, <1>3, Zenon DEF Allow
<1> QED
  BY <1>9, <1>10, TaskUpdate, Zenon

\* A request that is answered otherwise leaves its task free.
LEMMA AnswerStep ==
    ASSUME AccessInv, Forward, NEW t \in Tasks, task' = [task EXCEPT ![t] = Free]
    PROVE  /\ task' \in [Tasks -> {Free} \cup TimedTask \cup AllowedTask]
           /\ \A s \in Tasks : TaskFits(task[s])'
<1>1. PICK x : x = Free
  BY Zenon
<1>2. TaskFits(x)'
  BY <1>1, FreeFits, Zenon DEF TaskFits, Free
<1> QED
  BY <1>1, <1>2, TaskUpdate, Zenon

-----------------------------------------------------------------------------
(* Steps of a task *)

\* A grant that is written is a whole row.
LEMMA WrittenGrants ==
    ASSUME AccessInv, NEW i \in GrantIds, grants[i].written
    PROVE  grants[i] \in Grant /\ grants[i].revoked \in Nat
<1>1. grants[i] \in {Unset} \cup Grant /\ grants[i] # Unset
  BY DEF AccessInv, AccessTypeOK, Unset
<1> QED
  BY <1>1, Zenon DEF Grant

\* A step that leaves clock and grants alone takes nothing back.
LEMMA GrantsAlone ==
    ASSUME AccessInv, UNCHANGED <<clock, grants>>, uses \subseteq uses'
    PROVE  Forward /\ RevokedInThePast'
<1>1. clock \in Nat
  BY Zenon DEF AccessInv, AccessTypeOK
<1>2. RevocationsStay
  BY WrittenGrants DEF RevocationsStay
<1> QED
  BY <1>1, <1>2 DEF Forward, AccessInv, RevokedInThePast

\* A step that leaves everything but the receipts, their uses and one task alone.
LEMMA TaskOnly ==
    ASSUME AccessInv, UNCHANGED <<clock, caller, grants>>, uses \subseteq uses',
           receipts' \in [ReceiptIds -> [state : {"none"}] \cup Issued],
           flows' \in [Flows -> {"none", "queued", "leased", "ended", "quarantined"}],
           proofs' \in [Flows -> [receipt : ReceiptIds \cup {Nil},
                                  resource : Resources \cup {"grants", Nil}, schema : BOOLEAN]],
           UsesFit', task' \in [Tasks -> {Free} \cup TimedTask \cup AllowedTask],
           \A s \in Tasks : TaskFits(task[s])'
    PROVE  AccessInv'
BY GrantsAlone, Zenon DEF AccessInv, AccessTypeOK

\* The parts of AccessInv that most steps need.
LEMMA TypesHold ==
    ASSUME AccessInv
    PROVE  /\ receipts \in [ReceiptIds -> [state : {"none"}] \cup Issued]
           /\ flows \in [Flows -> {"none", "queued", "leased", "ended", "quarantined"}]
           /\ proofs \in [Flows -> [receipt : ReceiptIds \cup {Nil},
                                    resource : Resources \cup {"grants", Nil}, schema : BOOLEAN]]
           /\ clock \in Nat /\ clock < Never /\ UsesFit
           /\ task \in [Tasks -> {Free} \cup TimedTask \cup AllowedTask]
BY Zenon DEF AccessInv, AccessTypeOK

\* A step that leaves receipts and uses alone keeps them true to each other.
LEMMA UsesStay ==
    ASSUME AccessInv, UNCHANGED <<receipts, uses>>
    PROVE  UsesFit' /\ uses \subseteq uses'
BY Zenon DEF AccessInv, UsesFit

\* A request arrives: what is revoked by then is revoked no later than the time it
\* reads.
LEMMA ArriveKeeps ==
    ASSUME AccessInv, NEW t \in Tasks, Arrive(t)
    PROVE  AccessInv'
<1>1. UNCHANGED <<clock, caller, grants, receipts, flows, proofs, resets, uses>>
  BY Zenon DEF Arrive
<1>2. PICK kind \in Asks[t], resource \in Resources \cup {"grants"}, flow \in Flows \cup {Nil},
           receipt \in {a \in ReceiptIds : receipts[a].state # "none"} \cup {Nil},
           schema \in BOOLEAN :
        /\ kind \in {"effect", "consume"} \/ caller.active
        /\ (flow # Nil) = (kind \in {"flow", "effect"})
        /\ (resource = "grants") = (kind = "revoke")
        /\ schema => kind = "flow"
        /\ kind \in {"revoke", "effect"} => receipt = Nil
        /\ kind \in {"decide", "consume"} => receipt # Nil
        /\ kind = "decide" => resource = receipts[receipt].resource
        /\ kind = "effect" => /\ flows[flow] = "leased"
                              /\ proofs[flow] # NoProof => resource = proofs[flow].resource
        /\ task' = [task EXCEPT ![t] =
             [kind |-> kind, pc |-> "timed", resource |-> resource, flow |-> flow,
              receipt |-> receipt, schema |-> schema, now |-> clock,
              floor |-> IF kind \in {"decide", "revoke"} THEN {} ELSE Revoked, todo |-> {}]]
  BY Zenon DEF Arrive
<1>3. PICK floor : floor = IF kind \in {"decide", "revoke"} THEN {} ELSE Revoked
  BY Zenon
<1>4. PICK x : x = [kind |-> kind, pc |-> "timed", resource |-> resource, flow |-> flow,
                    receipt |-> receipt, schema |-> schema, now |-> clock, floor |-> floor,
                    todo |-> {}]
  BY Zenon
<1>5. Forward /\ UsesFit'
  BY <1>1, GrantsAlone, UsesStay, Zenon
<1>6. kind \in Kinds /\ receipt \in ReceiptIds \cup {Nil} /\ clock \in Nat
  BY AccessAssumption, TypesHold, Zenon
<1>7. floor \subseteq GrantIds /\ \A i \in floor : grants[i].written /\ grants[i].revoked < Never
  BY <1>3, Zenon DEF Revoked
<1>8. x \in TimedTask
  BY <1>4, <1>6, <1>7, Zenon DEF TimedTask
<1>9. \A i \in floor : grants[i].written /\ grants[i].revoked <= clock
  BY <1>7, Zenon DEF AccessInv, RevokedInThePast
<1>10. TimedFits(x)
  <2>1. x.now <= clock
    BY <1>4, <1>6
  <2>2. x.flow # Nil <=> x.kind \in {"flow", "effect"}
    BY <1>2, <1>4, Zenon
  <2>3. x.kind \in {"decide", "consume"} => x.receipt \in ReceiptIds
    BY <1>2, <1>4, <1>6, Zenon
  <2>4. \A i \in x.floor : grants[i].written /\ grants[i].revoked <= x.now
    BY <1>4, <1>9, Zenon
  <2> QED
    BY <1>8, <2>1, <2>2, <2>3, <2>4, Zenon DEF TimedFits
<1>11. TaskFits(x)'
  BY <1>5, <1>10, TimedStays, Zenon DEF TaskFits
<1>12. task' = [task EXCEPT ![t] = x]
  BY <1>2, <1>3, <1>4, Zenon
<1> QED
  BY <1>1, <1>5, <1>11, <1>12, TaskUpdate, TaskOnly, TypesHold, Zenon

\* authorize_audited keeps the invariant on each of its outcomes.
LEMMA AuthorizeKeeps ==
    ASSUME AccessInv, NEW t \in Tasks, Authorize(t)
    PROVE  AccessInv'
<1> DEFINE decision == Evaluate(Capability(task[t].kind), task[t].resource, task[t].now)
           a == task[t].receipt
           answer == ResolvedAs(receipts[a], task[t], Nil)
<1>1. UNCHANGED <<clock, caller, grants, flows, proofs, resets>>
  BY Zenon DEF Authorize
<1>2. TimedFits(task[t]) /\ task[t] \in TimedTask
  BY TimedIsTimed, Zenon DEF Authorize
<1>3. task[t].kind \in {"plain", "revoke"} /\ task[t].flow = Nil
  BY <1>2, Zenon DEF Authorize, TimedFits
<1>4. decision \in {"allowed", "approval", "denied"}
  BY EvaluateKinds, Zenon
<1>5. CASE task' = [task EXCEPT ![t] = Free] /\ UNCHANGED <<receipts, uses>>
  BY <1>1, <1>5, UsesStay, GrantsAlone, AnswerStep, TaskOnly, TypesHold, Zenon
<1>6. CASE Allow(t, decision) /\ UNCHANGED <<receipts, uses>>
  <2>1. Forward /\ UsesFit' /\ uses \subseteq uses'
    BY <1>1, <1>6, UsesStay, GrantsAlone, Zenon
  <2>2. /\ task' \in [Tasks -> {Free} \cup TimedTask \cup AllowedTask]
        /\ \A s \in Tasks : TaskFits(task[s])'
    BY <1>2, <1>3, <1>4, <1>6, <2>1, AllowStep, Zenon
  <2> QED
    BY <1>1, <1>6, <2>1, <2>2, TaskOnly, TypesHold, Zenon
<1>7. CASE task' = [task EXCEPT ![t].pc = "listing", ![t].now = clock] /\ UNCHANGED <<receipts, uses>>
  <2>1. Forward /\ UsesFit' /\ uses \subseteq uses'
    BY <1>1, <1>7, UsesStay, GrantsAlone, Zenon
  <2>2. PICK x : x = [task[t] EXCEPT !.pc = "listing", !.now = clock]
    BY Zenon
  <2>3. task[t].now \in Nat /\ clock \in Nat /\ task[t].now <= clock
    BY <1>2, TypesHold, Zenon DEF TimedTask, TimedFits
  <2>4. x \in TimedTask /\ x.floor = task[t].floor /\ x.now = clock /\ x.flow = task[t].flow
        /\ x.kind = task[t].kind /\ x.receipt = task[t].receipt
    BY <1>2, <2>2, <2>3, Zenon DEF TimedTask
  <2>5. ASSUME NEW i \in x.floor PROVE grants[i].written /\ grants[i].revoked <= x.now
    <3>1. grants[i].written /\ grants[i].revoked <= task[t].now /\ i \in GrantIds
      BY <1>2, <2>4, <2>5, Zenon DEF TimedFits, TimedTask
    <3>2. grants[i].revoked \in Nat
      BY <3>1, WrittenGrants, Zenon
    <3> QED
      BY <2>3, <2>4, <3>1, <3>2
  <2>6. TimedFits(x)
    BY <1>2, <2>3, <2>4, <2>5 DEF TimedFits
  <2>7. TaskFits(x)'
    BY <2>1, <2>6, TimedStays, Zenon DEF TaskFits
  <2>8. task' = [task EXCEPT ![t] = x]
    BY <1>7, <2>2, TypesHold, Zenon
  <2> QED
    BY <1>1, <1>7, <2>1, <2>7, <2>8, TaskUpdate, TaskOnly, TypesHold, Zenon
<1>8. CASE Unissued # {} /\ Challenge(task[t], Nil) /\ task' = [task EXCEPT ![t] = Free] /\ UNCHANGED uses
  <2>1. /\ receipts' \in [ReceiptIds -> [state : {"none"}] \cup Issued]
        /\ UsesFit'
    BY <1>2, <1>3, <1>8, ChallengeStep, Zenon
  <2>2. Forward
    BY <1>1, <1>8, GrantsAlone, Zenon
  <2> QED
    BY <1>1, <1>8, <2>1, <2>2, AnswerStep, TaskOnly, TypesHold, Zenon
<1>9. CASE /\ a # Nil /\ ResolveReceipt(a, answer, task[t].now)
           /\ IF answer = "allowed" THEN Allow(t, decision) /\ Spend(a, task[t])
              ELSE task' = [task EXCEPT ![t] = Free] /\ UNCHANGED uses
  <2>1. a \in ReceiptIds
    BY <1>2, <1>9, Zenon DEF TimedTask
  <2>2. PICK x : x = task[t]
    BY Zenon
  <2>3. /\ receipts' \in [ReceiptIds -> [state : {"none"}] \cup Issued]
        /\ UsesFit' /\ uses \subseteq uses'
    BY <1>2, <1>3, <1>9, <2>1, <2>2, ReceiptStep, Zenon
  <2>4. Forward
    BY <1>1, <2>3, GrantsAlone, Zenon
  <2>5. /\ task' \in [Tasks -> {Free} \cup TimedTask \cup AllowedTask]
        /\ \A s \in Tasks : TaskFits(task[s])'
    BY <1>2, <1>3, <1>4, <1>9, <2>4, AllowStep, AnswerStep, Zenon
  <2> QED
    BY <1>1, <2>3, <2>5, TaskOnly, TypesHold, Zenon
<1> QED
  <2> HIDE DEF decision, answer
  <2> QED
    BY <1>5, <1>6, <1>7, <1>8, <1>9, Zenon DEF Authorize, Answer, decision, answer

\* consume_effect_approval_audited keeps the invariant.
LEMMA ConsumeKeeps ==
    ASSUME AccessInv, NEW t \in Tasks, ConsumeEffectApproval(t)
    PROVE  AccessInv'
<1> DEFINE decision == Evaluate(Capability(task[t].kind), task[t].resource, task[t].now)
           a == task[t].receipt
           answer == IF caller.active /\ decision # "denied"
                     THEN ResolvedAs(receipts[a], task[t], Nil) ELSE "denied"
<1>1. /\ UNCHANGED <<clock, caller, grants, flows, proofs, resets>>
      /\ ResolveReceipt(a, answer, task[t].now)
      /\ IF answer = "allowed" THEN Allow(t, decision) /\ Spend(a, task[t])
         ELSE task' = [task EXCEPT ![t] = Free] /\ UNCHANGED uses
  BY Zenon DEF ConsumeEffectApproval, Answer
<1>2. TimedFits(task[t]) /\ task[t].kind = "consume"
  BY TimedIsTimed, Zenon DEF ConsumeEffectApproval
<1>3. task[t].flow = Nil /\ a \in ReceiptIds
  BY <1>2, Zenon DEF TimedFits
<1>4. decision \in {"allowed", "approval", "denied"}
  BY EvaluateKinds
<1>5. answer = ResolvedAs(receipts[a], task[t], Nil) \/ answer = "denied"
  BY Zenon
<1> HIDE DEF answer, decision
<1>6. PICK x : x = task[t]
  OBVIOUS
<1>7. PICK ans : ans = answer
  BY Zenon
<1>8. /\ receipts' \in [ReceiptIds -> [state : {"none"}] \cup Issued]
      /\ UsesFit' /\ uses \subseteq uses'
  BY <1>1, <1>2, <1>3, <1>5, <1>6, <1>7, ReceiptStep, Zenon
<1>9. Forward
  BY <1>1, <1>8, GrantsAlone, Zenon
<1>10. /\ task' \in [Tasks -> {Free} \cup TimedTask \cup AllowedTask]
       /\ \A s \in Tasks : TaskFits(task[s])'
  BY <1>1, <1>2, <1>4, <1>9, AllowStep, AnswerStep, Zenon
<1> QED
  BY <1>1, <1>8, <1>10, TaskOnly, TypesHold, Zenon

\* authorize_flow_run on a known request only answers.
LEMMA ExistingFlowKeeps ==
    ASSUME AccessInv, NEW t \in Tasks, AuthorizeExistingFlow(t)
    PROVE  AccessInv'
<1>1. /\ UNCHANGED <<clock, caller, grants, receipts, flows, proofs, resets, uses>>
      /\ task' = [task EXCEPT ![t] = Free]
  BY Zenon DEF AuthorizeExistingFlow, Answer
<1> QED
  BY <1>1, UsesStay, GrantsAlone, AnswerStep, TaskOnly, TypesHold, Zenon

\* accept_tx with insert_flow_authorization writes a request and its proof.
LEMMA AcceptFlowTypes ==
    ASSUME AccessInv, NEW x, TimedFits(x), x.kind = "flow", NEW a \in ReceiptIds \cup {Nil},
           AcceptFlow(x, a)
    PROVE  /\ flows' \in [Flows -> {"none", "queued", "leased", "ended", "quarantined"}]
           /\ proofs' \in [Flows -> [receipt : ReceiptIds \cup {Nil},
                                     resource : Resources \cup {"grants", Nil}, schema : BOOLEAN]]
<1>1. x \in TimedTask /\ x.flow \in Flows
  BY Zenon DEF TimedFits, TimedTask
<1>2. /\ flows \in [Flows -> {"none", "queued", "leased", "ended", "quarantined"}]
      /\ proofs \in [Flows -> [receipt : ReceiptIds \cup {Nil},
                               resource : Resources \cup {"grants", Nil}, schema : BOOLEAN]]
  BY TypesHold, Zenon
<1>3. flows' = [flows EXCEPT ![x.flow] = "queued"]
  BY Zenon DEF AcceptFlow
<1>4. PICK p : p = [receipt |-> a, resource |-> x.resource, schema |-> x.schema]
  BY Zenon
<1>5. p \in [receipt : ReceiptIds \cup {Nil}, resource : Resources \cup {"grants", Nil},
             schema : BOOLEAN]
  BY <1>1, <1>4, Zenon DEF TimedTask
<1>6. proofs' = [proofs EXCEPT ![x.flow] = p]
  BY <1>4, Zenon DEF AcceptFlow
<1> QED
  BY <1>1, <1>2, <1>3, <1>5, <1>6, Zenon

\* authorize_new_flow_run keeps the invariant: the receipt is consumed for the flow
\* it accepts.
LEMMA NewFlowKeeps ==
    ASSUME AccessInv, NEW t \in Tasks, AuthorizeNewFlow(t)
    PROVE  AccessInv'
<1> DEFINE f == task[t].flow
           decision == Evaluate("flow.run", task[t].resource, task[t].now)
           a == task[t].receipt
           answer == ResolvedAs(receipts[a], task[t], f)
<1>1. UNCHANGED <<clock, caller, grants, resets>>
  BY Zenon DEF AuthorizeNewFlow
<1>2. TimedFits(task[t]) /\ task[t].kind = "flow" /\ a \in ReceiptIds \cup {Nil}
  BY TimedIsTimed, Zenon DEF AuthorizeNewFlow, TimedTask
<1>3. decision \in {"allowed", "approval", "denied"}
  BY EvaluateKinds, Zenon
<1>4. CASE task' = [task EXCEPT ![t] = Free] /\ UNCHANGED <<receipts, flows, proofs, uses>>
  BY <1>1, <1>4, UsesStay, GrantsAlone, AnswerStep, TaskOnly, TypesHold, Zenon
<1>5. CASE Allow(t, decision) /\ AcceptFlow(task[t], Nil) /\ UNCHANGED <<receipts, uses>>
  <2>1. Forward /\ UsesFit' /\ uses \subseteq uses'
    BY <1>1, <1>5, UsesStay, GrantsAlone, Zenon
  <2>2. /\ task' \in [Tasks -> {Free} \cup TimedTask \cup AllowedTask]
        /\ \A s \in Tasks : TaskFits(task[s])'
    BY <1>2, <1>3, <1>5, <2>1, AllowStep, Zenon
  <2>3. /\ flows' \in [Flows -> {"none", "queued", "leased", "ended", "quarantined"}]
        /\ proofs' \in [Flows -> [receipt : ReceiptIds \cup {Nil},
                                  resource : Resources \cup {"grants", Nil}, schema : BOOLEAN]]
    BY <1>2, <1>5, AcceptFlowTypes, Zenon
  <2> QED
    BY <1>1, <1>5, <2>1, <2>2, <2>3, TaskOnly, TypesHold, Zenon
<1>6. CASE /\ Unissued # {} /\ Challenge(task[t], f) /\ task' = [task EXCEPT ![t] = Free]
           /\ UNCHANGED <<flows, proofs, uses>>
  <2>1. /\ receipts' \in [ReceiptIds -> [state : {"none"}] \cup Issued]
        /\ UsesFit'
    BY <1>2, <1>6, ChallengeStep, Zenon
  <2>2. Forward
    BY <1>1, <1>6, GrantsAlone, Zenon
  <2> QED
    BY <1>1, <1>6, <2>1, <2>2, AnswerStep, TaskOnly, TypesHold, Zenon
<1>7. CASE /\ a # Nil /\ ResolveReceipt(a, answer, task[t].now)
           /\ IF answer = "allowed"
              THEN Allow(t, decision) /\ AcceptFlow(task[t], a) /\ Spend(a, task[t])
              ELSE task' = [task EXCEPT ![t] = Free] /\ UNCHANGED <<flows, proofs, uses>>
  <2>1. a \in ReceiptIds
    BY <1>2, <1>7, Zenon
  <2> HIDE DEF answer, decision
  <2>2. PICK x : x = task[t]
    OBVIOUS
  <2>3. answer = ResolvedAs(receipts[x.receipt], x, x.flow)
    BY <2>2, Zenon DEF answer
  <2>4. /\ receipts' \in [ReceiptIds -> [state : {"none"}] \cup Issued]
        /\ UsesFit' /\ uses \subseteq uses'
    BY <1>2, <1>7, <2>1, <2>2, <2>3, ReceiptStep, Zenon
  <2>5. Forward
    BY <1>1, <2>4, GrantsAlone, Zenon
  <2>6. /\ task' \in [Tasks -> {Free} \cup TimedTask \cup AllowedTask]
        /\ \A s \in Tasks : TaskFits(task[s])'
    BY <1>2, <1>3, <1>7, <2>5, AllowStep, AnswerStep, Zenon
  <2>7. /\ flows' \in [Flows -> {"none", "queued", "leased", "ended", "quarantined"}]
        /\ proofs' \in [Flows -> [receipt : ReceiptIds \cup {Nil},
                                  resource : Resources \cup {"grants", Nil}, schema : BOOLEAN]]
    BY <1>2, <1>7, <2>1, AcceptFlowTypes, TypesHold, Zenon
  <2> QED
    BY <1>1, <2>4, <2>6, <2>7, TaskOnly, Zenon
<1> QED
  <2> HIDE DEF decision, answer
  <2> QED
    BY <1>4, <1>5, <1>6, <1>7, Zenon DEF AuthorizeNewFlow, Answer, decision, answer

\* decide_approval keeps the invariant: it only decides a receipt that is still
\* requested.
LEMMA DecideKeeps ==
    ASSUME AccessInv, NEW t \in Tasks, DecideApproval(t)
    PROVE  AccessInv'
<1> DEFINE a == task[t].receipt
           r == receipts[a]
<1>1. /\ UNCHANGED <<clock, caller, grants, flows, proofs, resets, uses>>
      /\ task' = [task EXCEPT ![t] = Free]
  BY Zenon DEF DecideApproval, Answer
<1>2. TimedFits(task[t]) /\ task[t].kind = "decide" /\ task[t] \in TimedTask
  BY TimedIsTimed, Zenon DEF DecideApproval
<1>3. a \in ReceiptIds /\ task[t].now \in Nat
  BY <1>2, Zenon DEF TimedFits, TimedTask
<1>4. \/ UNCHANGED receipts
      \/ r.state = "requested" /\ receipts' = [receipts EXCEPT ![a].state = "expired"]
      \/ r.state = "requested" /\ \E verdict \in {"approved", "denied"} :
           receipts' = [receipts EXCEPT ![a].state = verdict, ![a].decided = task[t].now]
  BY Zenon DEF DecideApproval
<1>5. CASE UNCHANGED receipts
  BY <1>1, <1>5, UsesStay, GrantsAlone, AnswerStep, TaskOnly, TypesHold, Zenon
<1>6. CASE r.state = "requested" /\ ~UNCHANGED receipts
  <2>1. r \in Issued
    BY <1>3, <1>6, TypesHold, Zenon
  <2>2. PICK new \in Issued : new.state # "consumed" /\ receipts' = [receipts EXCEPT ![a] = new]
    <3>1. CASE receipts' = [receipts EXCEPT ![a].state = "expired"]
      <4> DEFINE new == [r EXCEPT !.state = "expired"]
      <4>1. new \in Issued /\ new.state # "consumed"
        BY <2>1, Zenon DEF Issued
      <4>2. receipts' = [receipts EXCEPT ![a] = new]
        BY <1>3, <3>1, Zenon
      <4> QED
        BY <4>1, <4>2, Zenon
    <3>2. ASSUME NEW verdict \in {"approved", "denied"},
                 receipts' = [receipts EXCEPT ![a].state = verdict, ![a].decided = task[t].now]
          PROVE  \E new \in Issued : new.state # "consumed" /\ receipts' = [receipts EXCEPT ![a] = new]
      <4> DEFINE new == [r EXCEPT !.state = verdict, !.decided = task[t].now]
      <4>1. new \in Issued /\ new.state # "consumed"
        BY <1>3, <2>1, Zenon DEF Issued
      <4>2. receipts' = [receipts EXCEPT ![a] = new]
        BY <1>3, <3>2, TypesHold, Zenon
      <4> QED
        BY <4>1, <4>2, Zenon
    <3> QED
      BY <1>4, <1>6, <3>1, <3>2, Zenon
  <2>3. /\ receipts' \in [ReceiptIds -> [state : {"none"}] \cup Issued]
        /\ UsesFit'
    BY <1>1, <1>3, <1>6, <2>2, ReceiptKeepsUses, Zenon
  <2>4. Forward
    BY <1>1, GrantsAlone, Zenon
  <2> QED
    BY <1>1, <2>3, <2>4, AnswerStep, TaskOnly, TypesHold, Zenon
<1> QED
  BY <1>4, <1>5, <1>6, Zenon

\* handle_grant_revoke reading the grants keeps the invariant.
LEMMA ListGrantsKeeps ==
    ASSUME AccessInv, NEW t \in Tasks, ListGrants(t)
    PROVE  AccessInv'
<1>1. UNCHANGED <<clock, caller, grants, receipts, flows, proofs, resets, uses>>
  BY Zenon DEF ListGrants
<1>2. PICK todo \in SUBSET GrantIds : task' = [task EXCEPT ![t].pc = "revoking", ![t].todo = todo]
  BY Zenon DEF ListGrants
<1>3. TimedFits(task[t]) /\ task[t] \in TimedTask
  BY TimedIsTimed, Zenon DEF ListGrants
<1>4. PICK x : x = [task[t] EXCEPT !.pc = "revoking", !.todo = todo]
  BY Zenon
<1>5. x \in TimedTask /\ x.floor = task[t].floor /\ x.now = task[t].now /\ x.flow = task[t].flow
      /\ x.kind = task[t].kind /\ x.receipt = task[t].receipt
  BY <1>3, <1>4, Zenon DEF TimedTask
<1>6. TimedFits(x)
  BY <1>3, <1>5, Zenon DEF TimedFits
<1>7. Forward /\ UsesFit'
  BY <1>1, GrantsAlone, UsesStay, Zenon
<1>8. TaskFits(x)'
  BY <1>6, <1>7, TimedStays, Zenon DEF TaskFits
<1>9. task' = [task EXCEPT ![t] = x]
  BY <1>2, <1>4, TypesHold, Zenon
<1> QED
  BY <1>1, <1>7, <1>8, <1>9, TaskUpdate, TaskOnly, TypesHold, Zenon

\* revoke_grant keeps the invariant: it revokes at a time that has passed, and only
\* a grant that was not revoked before.
LEMMA RevokeGrantKeeps ==
    ASSUME AccessInv, NEW t \in Tasks, RevokeGrant(t)
    PROVE  AccessInv'
<1>1. UNCHANGED <<clock, caller, receipts, flows, proofs, resets, uses>>
  BY Zenon DEF RevokeGrant
<1>2. TimedFits(task[t]) /\ task[t] \in TimedTask
  BY TimedIsTimed, Zenon DEF RevokeGrant
<1>3. CASE task[t].todo = {}
  <2>1. UNCHANGED grants /\ task' = [task EXCEPT ![t] = Free]
    BY <1>3, Zenon DEF RevokeGrant, Answer
  <2> QED
    BY <1>1, <2>1, UsesStay, GrantsAlone, AnswerStep, TaskOnly, TypesHold, Zenon
<1>4. CASE task[t].todo # {}
  <2>1. PICK i \in task[t].todo :
          /\ grants' = IF grants[i].written /\ grants[i].revoked = Never
                       THEN [grants EXCEPT ![i].revoked = task[t].now] ELSE grants
          /\ task' = [task EXCEPT ![t].todo = @ \ {i}]
    BY <1>4, Zenon DEF RevokeGrant
  <2>2. i \in GrantIds /\ task[t].now \in Nat /\ task[t].now <= clock /\ clock \in Nat
        /\ clock < Never /\ Never \in Nat
    BY <1>2, TypesHold, NeverFacts, Zenon DEF TimedTask, TimedFits
  <2>3. PICK x : x = [task[t] EXCEPT !.todo = task[t].todo \ {i}]
    BY Zenon
  <2>4. x \in TimedTask /\ x.floor = task[t].floor /\ x.now = task[t].now /\ x.flow = task[t].flow
        /\ x.kind = task[t].kind /\ x.receipt = task[t].receipt
    BY <1>2, <2>3, Zenon DEF TimedTask
  <2>5. TimedFits(x)
    BY <1>2, <2>4, Zenon DEF TimedFits
  <2>6. task' = [task EXCEPT ![t] = x]
    BY <2>1, <2>3, TypesHold, Zenon
  <2>7. /\ grants' \in [GrantIds -> {Unset} \cup Grant]
        /\ RevocationsStay /\ RevokedInThePast'
    <3>1. CASE UNCHANGED grants
      BY <1>1, <3>1, GrantsAlone, Zenon DEF Forward, AccessInv, AccessTypeOK
    <3>2. CASE grants[i].written /\ grants[i].revoked = Never /\ grants' = [grants EXCEPT ![i].revoked = task[t].now]
      <4>1. grants[i] \in Grant /\ grants \in [GrantIds -> {Unset} \cup Grant]
        BY <2>2, <3>2, WrittenGrants, Zenon DEF AccessInv, AccessTypeOK
      <4>2. PICK g : g = [grants[i] EXCEPT !.revoked = task[t].now]
        BY Zenon
      <4>3. g \in Grant /\ g.revoked = task[t].now /\ g.written
        BY <2>2, <4>1, <4>2, Zenon DEF Grant
      <4>4. grants' = [grants EXCEPT ![i] = g]
        BY <3>2, <4>1, <4>2, Zenon
      <4>5. grants' \in [GrantIds -> {Unset} \cup Grant]
        BY <4>1, <4>3, <4>4, Zenon
      <4>6. grants'[i] = g /\ \A k \in GrantIds \ {i} : grants'[k] = grants[k]
        BY <2>2, <4>1, <4>4, Zenon
      <4>7. RevocationsStay
        BY <2>2, <3>2, <4>3, <4>6, WrittenGrants DEF RevocationsStay
      <4>8. RevokedInThePast'
        <5>1. ASSUME NEW k \in GrantIds, grants'[k].written, grants'[k].revoked < Never
              PROVE  grants'[k].revoked <= clock
          <6>1. CASE k = i
            BY <2>2, <4>3, <4>6, <6>1, Zenon
          <6>2. CASE k # i
            BY <4>6, <5>1, <6>2, Zenon DEF AccessInv, RevokedInThePast
          <6> QED
            BY <6>1, <6>2, Zenon
        <5>2. Never' = Never
          BY Zenon DEF Never
        <5> QED
          BY <1>1, <5>1, <5>2, Zenon DEF RevokedInThePast
      <4> QED
        BY <4>5, <4>7, <4>8, Zenon
    <3> QED
      BY <2>1, <3>1, <3>2, Zenon
  <2>8. Forward /\ UsesFit'
    BY <1>1, <2>2, <2>7, UsesStay DEF Forward
  <2>9. TaskFits(x)'
    BY <2>5, <2>8, TimedStays, Zenon DEF TaskFits
  <2>10. /\ task' \in [Tasks -> {Free} \cup TimedTask \cup AllowedTask]
         /\ \A s \in Tasks : TaskFits(task[s])'
    BY <2>6, <2>8, <2>9, TaskUpdate, Zenon
  <2> QED
    BY <1>1, <2>7, <2>8, <2>10, Zenon DEF AccessInv, AccessTypeOK
<1> QED
  BY <1>3, <1>4, Zenon

\* validate_flow_effect_authorization keeps the invariant: a flow let through on a
\* grant that asks for approval names a receipt consumed for it, which has its use.
LEMMA ValidateEffectKeeps ==
    ASSUME AccessInv, NEW t \in Tasks, ValidateEffect(t)
    PROVE  AccessInv'
<1> DEFINE f == task[t].flow
           decision == Evaluate("flow.run", proofs[f].resource, task[t].now)
<1>1. UNCHANGED <<clock, caller, grants, receipts, flows, proofs, resets, uses>>
  BY Zenon DEF ValidateEffect
<1>2. TimedFits(task[t]) /\ task[t].kind = "effect" /\ f \in Flows
  BY TimedIsTimed, Zenon DEF ValidateEffect, TimedFits, TimedTask
<1>3. Forward /\ UsesFit'
  BY <1>1, GrantsAlone, UsesStay, Zenon
<1>4. CASE task' = [task EXCEPT ![t] = Free]
  BY <1>1, <1>3, <1>4, AnswerStep, TaskOnly, TypesHold, Zenon
<1>5. CASE Intact(f) /\ StillAuthorized(f, task[t].now) /\ Allow(t, decision)
  <2>1. decision \in {"allowed", "approval", "denied"}
    BY EvaluateKinds, Zenon
  <2>2. decision # "denied" /\ (proofs[f].receipt = Nil => decision = "allowed")
    BY <1>5, Zenon DEF StillAuthorized
  <2> HIDE DEF decision
  <2>3. ASSUME decision = "approval"
        PROVE  \E u \in uses : u[2] = f
    <3>1. proofs[f].receipt \in ReceiptIds
      BY <1>2, <2>2, <2>3, TypesHold, Zenon
    <3>2. receipts[proofs[f].receipt].state = "consumed" /\ receipts[proofs[f].receipt].flow = f
      BY <1>5, <2>2, <2>3, Zenon DEF Intact, ReceiptProves
    <3> QED
      BY <3>1, <3>2, TypesHold DEF UsesFit
  <2>4. /\ task' \in [Tasks -> {Free} \cup TimedTask \cup AllowedTask]
        /\ \A s \in Tasks : TaskFits(task[s])'
    BY <1>2, <1>3, <1>5, <2>1, <2>2, <2>3, AllowStep, Zenon
  <2> QED
    BY <1>1, <1>3, <2>4, TaskOnly, TypesHold, Zenon
<1> QED
  <2> HIDE DEF decision
  <2> QED
    BY <1>4, <1>5, Zenon DEF ValidateEffect, Answer, decision

\* The answer leaves the daemon.
LEMMA ReplyKeeps ==
    ASSUME AccessInv, NEW t \in Tasks, Reply(t)
    PROVE  AccessInv'
<1>1. /\ UNCHANGED <<clock, caller, grants, receipts, flows, proofs, resets, uses>>
      /\ task' = [task EXCEPT ![t] = Free]
  BY Zenon DEF Reply
<1> QED
  BY <1>1, UsesStay, GrantsAlone, AnswerStep, TaskOnly, TypesHold, Zenon

-----------------------------------------------------------------------------
(* Steps of the owner, the scheduler and time *)

\* Time passing keeps the invariant.
LEMMA TickKeeps ==
    ASSUME AccessInv, Tick
    PROVE  AccessInv'
<1>1. /\ UNCHANGED <<caller, grants, receipts, flows, proofs, task, resets, uses>>
      /\ clock < MaxClock /\ clock' = clock + 1
  BY Zenon DEF Tick
<1>2. clock \in Nat /\ clock' \in Nat /\ clock <= clock' /\ clock' < Never /\ Never' = Never
  BY <1>1, NeverFacts, TypesHold DEF Never
<1>3. RevocationsStay
  BY <1>1, WrittenGrants DEF RevocationsStay
<1>4. Forward /\ UsesFit'
  BY <1>1, <1>2, <1>3, UsesStay, Zenon DEF Forward
<1>5. RevokedInThePast'
  <2>1. ASSUME NEW i \in GrantIds, grants[i].written, grants[i].revoked < Never
        PROVE  grants[i].revoked <= clock'
    <3>1. grants[i].revoked \in Nat /\ grants[i].revoked <= clock
      BY <2>1, WrittenGrants, Zenon DEF AccessInv, RevokedInThePast
    <3> QED
      BY <1>2, <3>1
  <2> QED
    BY <1>1, <1>2, <2>1, Zenon DEF RevokedInThePast
<1> QED
  BY <1>1, <1>2, <1>4, <1>5, TasksStay, Zenon DEF AccessInv, AccessTypeOK

\* put_grant keeps the invariant: a new grant is not revoked.
LEMMA PutGrantKeeps ==
    ASSUME AccessInv, NEW i \in GrantIds, PutGrant(i)
    PROVE  AccessInv'
<1>1. UNCHANGED <<clock, caller, receipts, flows, proofs, task, resets, uses>> /\ ~grants[i].written
  BY Zenon DEF PutGrant
<1>2. PICK g \in Terms[i] :
        grants' = [grants EXCEPT ![i] =
            [written |-> TRUE, capability |-> g.capability, resource |-> g.resource,
             effect |-> g.effect, approval |-> g.approval,
             expires |-> IF g.lives = Nil THEN Never ELSE clock + g.lives, revoked |-> Never]]
  BY Zenon DEF PutGrant
<1>3. g \in Term /\ clock \in Nat /\ Never \in Nat
  BY AccessAssumption, TypesHold, NeverFacts, Zenon
<1>4. PICK expires : expires = IF g.lives = Nil THEN Never ELSE clock + g.lives
  BY Zenon
<1>5. expires \in Nat
  BY <1>3, <1>4 DEF Term
<1>6. PICK new : new = [written |-> TRUE, capability |-> g.capability, resource |-> g.resource,
                        effect |-> g.effect, approval |-> g.approval, expires |-> expires,
                        revoked |-> Never]
  BY Zenon
<1>7. new \in Grant /\ new.revoked = Never
  BY <1>3, <1>5, <1>6, Zenon DEF Grant, Term
<1>8. grants' = [grants EXCEPT ![i] = new] /\ grants \in [GrantIds -> {Unset} \cup Grant]
  BY <1>2, <1>4, <1>6, Zenon DEF AccessInv, AccessTypeOK
<1>9. /\ grants' \in [GrantIds -> {Unset} \cup Grant]
      /\ grants'[i] = new /\ \A k \in GrantIds \ {i} : grants'[k] = grants[k]
  BY <1>7, <1>8, Zenon
<1>10. RevocationsStay
  BY <1>1, <1>9, WrittenGrants DEF RevocationsStay
<1>11. RevokedInThePast'
  <2>1. ASSUME NEW k \in GrantIds, grants'[k].written, grants'[k].revoked < Never
        PROVE  grants'[k].revoked <= clock
    <3>1. k # i
      BY <1>3, <1>7, <1>9, <2>1
    <3> QED
      BY <1>9, <2>1, <3>1, Zenon DEF AccessInv, RevokedInThePast
  <2>2. Never' = Never
    BY Zenon DEF Never
  <2> QED
    BY <1>1, <2>1, <2>2, Zenon DEF RevokedInThePast
<1>12. Forward /\ UsesFit'
  BY <1>1, <1>3, <1>10, UsesStay DEF Forward
<1> QED
  BY <1>1, <1>9, <1>11, <1>12, TasksStay, Zenon DEF AccessInv, AccessTypeOK

\* Registering or revoking the caller keeps the invariant.
LEMMA CallerKeeps ==
    ASSUME AccessInv, RegisterCaller \/ RevokeCaller
    PROVE  AccessInv'
<1>1. UNCHANGED <<clock, grants, receipts, flows, proofs, task, resets, uses>>
  BY Zenon DEF RegisterCaller, RevokeCaller
<1>2. caller' \in [active : BOOLEAN, credential : Nat]
  <2>1. caller \in [active : BOOLEAN, credential : Nat]
    BY Zenon DEF AccessInv, AccessTypeOK
  <2>2. CASE RegisterCaller
    BY <2>1, <2>2 DEF RegisterCaller
  <2>3. CASE RevokeCaller
    BY <2>1, <2>3, Zenon DEF RevokeCaller
  <2> QED
    BY <2>2, <2>3, Zenon
<1>3. Forward /\ UsesFit' /\ RevokedInThePast'
  BY <1>1, GrantsAlone, UsesStay, Zenon
<1> QED
  BY <1>1, <1>2, <1>3, TasksStay, Zenon DEF AccessInv, AccessTypeOK

\* Claiming a flow and its end keep the invariant.
LEMMA FlowKeeps ==
    ASSUME AccessInv, NEW f \in Flows, ClaimQueued(f) \/ FlowRunEnds(f)
    PROVE  AccessInv'
<1>1. UNCHANGED <<clock, caller, grants, receipts, proofs, task, resets, uses>>
  BY Zenon DEF ClaimQueued, FlowRunEnds
<1>2. flows' \in [Flows -> {"none", "queued", "leased", "ended", "quarantined"}]
  BY TypesHold, Zenon DEF ClaimQueued, FlowRunEnds
<1>3. Forward /\ UsesFit'
  BY <1>1, GrantsAlone, UsesStay, Zenon
<1> QED
  BY <1>1, <1>2, <1>3, TasksStay, TaskOnly, TypesHold, Zenon

\* reset_access keeps the invariant: the rows it deletes are gone at once, the uses
\* of their receipts remain uses of rows that cannot be spent again.
LEMMA ResetKeeps ==
    ASSUME AccessInv, ResetAccess
    PROVE  AccessInv'
<1>1. UNCHANGED <<clock, caller, flows, task, uses>> /\ clock \in Nat
  BY TypesHold, Zenon DEF ResetAccess
<1>2. proofs' \in [Flows -> [receipt : ReceiptIds \cup {Nil}, resource : Resources \cup {"grants", Nil},
                             schema : BOOLEAN]]
  BY Zenon DEF ResetAccess, NoProof
<1>3. ASSUME NEW a \in ReceiptIds
      PROVE  /\ receipts'[a] \in [state : {"none"}] \cup Issued
             /\ receipts'[a].state \in {"none", "deleted"}
             /\ receipts[a].state # "none" => /\ receipts'[a].state = "deleted"
                                              /\ receipts'[a].flow = receipts[a].flow
                                              /\ receipts'[a].resource = receipts[a].resource
  <2>1. receipts[a] \in [state : {"none"}] \cup Issued
    BY TypesHold, Zenon
  <2>2. receipts'[a] = IF receipts[a].state = "none" THEN receipts[a]
                       ELSE [receipts[a] EXCEPT !.state = "deleted", !.requested = 0, !.expires = 0,
                             !.decided = 0, !.consumed = 0]
    BY Zenon DEF ResetAccess
  <2>3. CASE receipts[a].state = "none"
    BY <2>1, <2>2, <2>3, Zenon
  <2>4. CASE receipts[a].state # "none"
    <3>1. receipts[a] \in Issued
      BY <2>1, <2>4, Zenon
    <3>2. receipts'[a] = [receipts[a] EXCEPT !.state = "deleted", !.requested = 0, !.expires = 0,
                          !.decided = 0, !.consumed = 0]
      BY <2>2, <2>4, Zenon
    <3>3. /\ receipts'[a].state = "deleted" /\ receipts'[a].flow = receipts[a].flow
          /\ receipts'[a].resource = receipts[a].resource
      BY <3>1, <3>2, Zenon DEF Issued
    <3>4. receipts'[a] \in Issued
      <4>1. PICK r1 : r1 = [receipts[a] EXCEPT !.state = "deleted", !.requested = 0]
        OBVIOUS
      <4>2. PICK r2 : r2 = [r1 EXCEPT !.expires = 0, !.decided = 0]
        BY Zenon
      <4>3. r1 \in Issued
        BY <3>1, <4>1, Zenon DEF Issued
      <4>4. r2 \in Issued
        BY <4>2, <4>3, Zenon DEF Issued
      <4>5. receipts'[a] = [r2 EXCEPT !.consumed = 0]
        BY <3>1, <3>2, <4>1, <4>2, Zenon DEF Issued
      <4> QED
        BY <4>4, <4>5 DEF Issued
    <3> QED
      BY <3>3, <3>4, Zenon
  <2> QED
    BY <2>3, <2>4, Zenon
<1>4. receipts' \in [ReceiptIds -> [state : {"none"}] \cup Issued]
  <2>1. \E F : receipts' = [a \in ReceiptIds |-> F[a]]
    <3>1. receipts' = [a \in ReceiptIds |-> receipts'[a]]
      BY Zenon DEF ResetAccess
    <3> QED
      BY <3>1, Zenon
  <2> QED
    BY <1>3, <2>1, Zenon
<1>5. UsesFit'
  <2>1. ASSUME NEW u \in uses
        PROVE  /\ u[1] \in ReceiptIds /\ receipts'[u[1]].state = "deleted"
               /\ u[2] = receipts'[u[1]].flow /\ u[3] = receipts'[u[1]].resource
               /\ \A v \in uses : v[1] = u[1] => v = u
    <3>1. /\ u[1] \in ReceiptIds /\ receipts[u[1]].state \in {"consumed", "deleted"}
          /\ u[2] = receipts[u[1]].flow /\ u[3] = receipts[u[1]].resource
          /\ \A v \in uses : v[1] = u[1] => v = u
      BY TypesHold, Zenon DEF UsesFit
    <3> QED
      BY <1>3, <3>1, Zenon
  <2>2. \A a \in ReceiptIds : receipts'[a].state # "consumed"
    BY <1>3, Zenon
  <2> QED
    BY <1>1, <2>1, <2>2, Zenon DEF UsesFit
<1>6. ASSUME NEW i \in GrantIds
      PROVE  /\ grants[i].written => grants'[i] = Deleted
             /\ ~grants[i].written => grants'[i] = Unset
  BY Zenon DEF ResetAccess
<1>7. Deleted \in Grant /\ Deleted.written /\ Deleted.revoked = 0 /\ ~Unset.written
  BY Zenon DEF Deleted, Grant, Unset
<1>8. grants' \in [GrantIds -> {Unset} \cup Grant]
  BY <1>7, Zenon DEF ResetAccess
<1>9. RevocationsStay
  <2>1. ASSUME NEW i \in GrantIds, grants[i].written
        PROVE  grants'[i].written /\ grants'[i].revoked \in Nat /\ grants'[i].revoked <= grants[i].revoked
    <3>1. grants[i].revoked \in Nat /\ grants'[i].written /\ grants'[i].revoked = 0
      BY <1>6, <1>7, <2>1, WrittenGrants, Zenon
    <3> QED
      BY <3>1
  <2> QED
    BY <2>1, Zenon DEF RevocationsStay
<1>10. RevokedInThePast'
  <2>1. ASSUME NEW i \in GrantIds, grants'[i].written
        PROVE  grants'[i].revoked <= clock
    <3>1. grants'[i].revoked = 0
      BY <1>6, <1>7, <2>1, Zenon
    <3> QED
      BY <1>1, <3>1
  <2> QED
    BY <1>1, <2>1, Zenon DEF RevokedInThePast
<1>11. Forward
  BY <1>1, <1>9 DEF Forward
<1> QED
  BY <1>1, <1>2, <1>4, <1>5, <1>8, <1>10, <1>11, TasksStay, Zenon DEF AccessInv, AccessTypeOK

-----------------------------------------------------------------------------
(* The theorems *)

\* The invariant holds in an empty store.
LEMMA InitAccessInv ==
    ASSUME AccessInit
    PROVE  AccessInv
<1>1. clock \in Nat /\ clock < Never
  BY AccessAssumption DEF AccessInit, Never
<1>2. AccessTypeOK
  <2>1. NoProof \in [receipt : ReceiptIds \cup {Nil}, resource : Resources \cup {"grants", Nil},
                     schema : BOOLEAN]
    BY Zenon DEF NoProof
  <2> QED
    BY <1>1, <2>1, Zenon DEF AccessInit, AccessTypeOK
<1>3. RevokedInThePast
  BY Zenon DEF AccessInit, RevokedInThePast, Unset
<1>4. task \in [Tasks -> {Free} \cup TimedTask \cup AllowedTask] /\ \A t \in Tasks : TaskFits(task[t])
  BY Zenon DEF AccessInit, TaskFits
<1>5. UsesFit
  BY Zenon DEF AccessInit, UsesFit
<1> QED
  BY <1>2, <1>3, <1>4, <1>5, Zenon DEF AccessInv

\* Every step keeps the invariant.
LEMMA NextAccessInv ==
    ASSUME AccessInv, [AccessNext]_accessVars
    PROVE  AccessInv'
<1>1. CASE UNCHANGED accessVars
  <2>1. UNCHANGED <<clock, caller, grants, receipts, flows, proofs, task, resets, uses>>
    BY <1>1, Zenon DEF accessVars
  <2>2. Forward /\ UsesFit'
    BY <2>1, GrantsAlone, UsesStay, Zenon
  <2> QED
    BY <2>1, <2>2, TasksStay, TaskOnly, TypesHold, Zenon
<1>2. ASSUME NEW t \in Tasks,
             \/ Arrive(t) \/ Authorize(t) \/ ConsumeEffectApproval(t)
             \/ AuthorizeExistingFlow(t) \/ AuthorizeNewFlow(t) \/ DecideApproval(t)
             \/ ListGrants(t) \/ RevokeGrant(t) \/ ValidateEffect(t) \/ Reply(t)
      PROVE  AccessInv'
  BY <1>2, ArriveKeeps, AuthorizeKeeps, ConsumeKeeps, ExistingFlowKeeps, NewFlowKeeps, DecideKeeps,
     ListGrantsKeeps, RevokeGrantKeeps, ValidateEffectKeeps, ReplyKeeps, Zenon
<1> QED
  BY <1>1, <1>2, TickKeeps, CallerKeeps, ResetKeeps, PutGrantKeeps, FlowKeeps, Zenon DEF AccessNext

\* AccessInv holds in every reachable state, for any tasks, grants, receipts, flows
\* and times.
THEOREM AccessInvariant == AccessSpec => []AccessInv
<1>1. AccessInit => AccessInv
  BY InitAccessInv, Zenon
<1>2. AccessInv /\ [AccessNext]_accessVars => AccessInv'
  BY NextAccessInv, Zenon
<1> QED
  BY <1>1, <1>2, PTL DEF AccessSpec

\* A receipt is answered Allowed at most once, and for the flow and the resource it
\* was issued for, whichever of the three gates is asked and however the tasks
\* interleave (resolve_approval, resolve_flow_approval).
THEOREM ReceiptsSpentOnce == AccessSpec => []ReceiptSpentOnce
<1>1. AccessInv => ReceiptSpentOnce
  BY Zenon DEF AccessInv, UsesFit, ReceiptSpentOnce
<1> QED
  BY <1>1, AccessInvariant, PTL

\* What is let through is authorized: not on a grant that was revoked when the
\* request arrived, and no effect of a flow on less than an outright grant or a
\* receipt spent for that flow (evaluate, validate_flow_effect_authorization).
THEOREM AllowedAuthorized == AccessSpec => []AllowedIsAuthorized
<1>1. ASSUME AccessInv PROVE AllowedIsAuthorized
  <2>1. ASSUME NEW t \in Tasks, task[t] # Free, task[t].pc = "allowed" PROVE AllowedFits(task[t])
    <3>1. TaskFits(task[t])
      BY <1>1, Zenon DEF AccessInv
    <3>2. ~TimedFits(task[t])
      BY <2>1, Zenon DEF TimedFits, TimedTask
    <3> QED
      BY <2>1, <3>1, <3>2, Zenon DEF TaskFits
  <2> QED
    BY <2>1, Zenon DEF AllowedIsAuthorized, RevocationHolds, EffectsStayAuthorized, AllowedFits
<1>2. AccessInv => AllowedIsAuthorized
  BY <1>1, Zenon
<1> QED
  BY <1>2, AccessInvariant, PTL

-----------------------------------------------------------------------------
(* The control center *)

\* What the front end may name, and a command under way.
Fence == [project : Projects \cup {Nobody}, gen : Nat, op : Operations \cup {0}]
CommandKinds == {"none"} \cup (UNION {CallKinds[c] : c \in Calls})
Command == [pc : {"idle", "asked", "work"}, kind : CommandKinds, fence : Fence, scope : Fence,
            answer : {"none", "ok", "refused"}]
Books == [project : Seq(Operations), daemon : Seq(Operations)]

\* The remembered operations are the newest MaxOperations of those accepted, and none
\* of these was accepted twice within that window.
Window(ops, all) ==
    /\ Len(ops) = IF Len(all) < MaxOperations THEN Len(all) ELSE MaxOperations
    /\ \A k \in 1 .. Len(ops) : ops[k] = all[Len(all) - Len(ops) + k]
    /\ \A i, j \in 1 .. Len(all) : i < j /\ all[i] = all[j] => j - i > MaxOperations

\* A command under way has not answered yet, and one for the daemon's scope only never
\* carries a project's fence.
CommandFits(x) ==
    /\ x.pc # "idle" => x.answer = "none" /\ x.fence.op \in Operations
    /\ x.kind = "settings" => x.fence.project = Nobody /\ x.scope = NoFence

\* The inductive invariant of the control center.
CoreInv ==
    /\ active \in [project : Projects \cup {Nobody}, gen : Nat] /\ last \in Nat
    /\ call \in [Calls -> Command] /\ \A c \in Calls : CommandFits(call[c])
    /\ HandlesAreCurrent
    /\ used \in Books /\ log \in Books
    /\ Window(used.project, log.project) /\ Window(used.daemon, log.daemon)

\* What remembering an operation does to the window: it grows by one, or drops its
\* oldest when it is full (used_operations and daemon_operations).
LEMMA RememberFacts ==
    ASSUME NEW ops \in Seq(Operations), NEW op \in Operations, Len(ops) <= MaxOperations
    PROVE  /\ Remember(ops, op) \in Seq(Operations)
           /\ Len(ops) < MaxOperations =>
                /\ Len(Remember(ops, op)) = Len(ops) + 1
                /\ Remember(ops, op)[Len(ops) + 1] = op
                /\ \A k \in 1 .. Len(ops) : Remember(ops, op)[k] = ops[k]
           /\ Len(ops) = MaxOperations =>
                /\ Len(Remember(ops, op)) = Len(ops)
                /\ \A k \in 1 .. Len(ops) :
                     Remember(ops, op)[k] = IF k = Len(ops) THEN op ELSE ops[k + 1]
<1> DEFINE kept == Append(ops, op)
<1>1. /\ kept \in Seq(Operations) /\ Len(kept) = Len(ops) + 1 /\ kept # <<>>
      /\ kept[Len(ops) + 1] = op /\ \A k \in 1 .. Len(ops) : kept[k] = ops[k]
  OBVIOUS
<1>2. Len(ops) \in Nat /\ MaxOperations \in Nat
  BY CoreAssumption
<1> HIDE DEF kept
<1>3. CASE Len(ops) < MaxOperations
  <2>1. Remember(ops, op) = kept
    BY <1>1, <1>2, <1>3 DEF Remember, kept
  <2> QED
    BY <1>1, <1>2, <1>3, <2>1
<1>4. CASE Len(ops) = MaxOperations
  <2>1. Remember(ops, op) = Tail(kept)
    BY <1>1, <1>2, <1>4 DEF Remember, kept
  <2>2. /\ Tail(kept) \in Seq(Operations) /\ Len(Tail(kept)) = Len(ops)
        /\ \A k \in 1 .. Len(ops) : Tail(kept)[k] = kept[k + 1]
    BY <1>1, <1>2
  <2>3. ASSUME NEW k \in 1 .. Len(ops)
        PROVE  kept[k + 1] = IF k = Len(ops) THEN op ELSE ops[k + 1]
    <3>1. CASE k = Len(ops)
      BY <1>1, <3>1, Zenon
    <3>2. CASE k # Len(ops)
      <4>1. k + 1 \in 1 .. Len(ops)
        BY <1>2, <3>2
      <4> QED
        BY <1>1, <3>2, <4>1, Zenon
    <3> QED
      BY <3>1, <3>2, Zenon
  <2> QED
    BY <1>2, <1>4, <2>1, <2>2, <2>3
<1> QED
  BY <1>2, <1>3, <1>4

\* A window that remembers the newest MaxOperations keeps doing so when an
\* operation it does not hold is accepted, and that operation was not accepted
\* within the window.
LEMMA WindowStep ==
    ASSUME NEW ops \in Seq(Operations), NEW all \in Seq(Operations), Window(ops, all),
           NEW op \in Operations, ~Holds(ops, op)
    PROVE  /\ Remember(ops, op) \in Seq(Operations) /\ Append(all, op) \in Seq(Operations)
           /\ Window(Remember(ops, op), Append(all, op))
<1> DEFINE m == Len(ops)
           n == Len(all)
           new == Append(all, op)
           kept == Remember(ops, op)
<1>1. /\ n \in Nat /\ m \in Nat /\ MaxOperations \in Nat /\ m <= MaxOperations /\ m <= n
      /\ m < MaxOperations => m = n
  BY CoreAssumption DEF Window
<1>2. /\ new \in Seq(Operations) /\ Len(new) = n + 1 /\ new[n + 1] = op
      /\ \A k \in 1 .. n : new[k] = all[k]
  OBVIOUS
<1>3. \A k \in 1 .. m : ops[k] # op
  BY Zenon DEF Holds
<1>4. Len(ops) <= MaxOperations
  BY <1>1, Zenon
<1>5. /\ kept \in Seq(Operations)
      /\ m < MaxOperations => /\ Len(kept) = m + 1 /\ kept[m + 1] = op
                              /\ \A k \in 1 .. m : kept[k] = ops[k]
      /\ m = MaxOperations => /\ Len(kept) = m
                              /\ \A k \in 1 .. m : kept[k] = IF k = m THEN op ELSE ops[k + 1]
  BY <1>4, RememberFacts, Zenon
<1>6. \A k \in 1 .. m : ops[k] = all[n - m + k]
  BY Zenon DEF Window
<1>7. \A i, j \in 1 .. n : i < j /\ all[i] = all[j] => j - i > MaxOperations
  BY Zenon DEF Window
<1> HIDE DEF m, n, new, kept
<1>8. Len(kept) = IF Len(new) < MaxOperations THEN Len(new) ELSE MaxOperations
  BY <1>1, <1>2, <1>5
<1>9. ASSUME NEW k \in 1 .. Len(kept)
      PROVE  kept[k] = new[Len(new) - Len(kept) + k]
  <2>1. CASE m < MaxOperations
    <3>1. Len(kept) = n + 1 /\ Len(new) - Len(kept) + k = k
      <4>1. Len(kept) = n + 1 /\ Len(new) = n + 1
        BY <1>1, <1>2, <1>5, <2>1, Zenon
      <4>2. k \in 1 .. (n + 1) /\ n \in Nat
        BY <1>1, <1>9, <4>1, Zenon
      <4> QED
        BY <4>1, <4>2
    <3>2. CASE k = n + 1
      BY <1>1, <1>2, <1>5, <2>1, <3>1, <3>2, Zenon
    <3>3. CASE k # n + 1
      <4>1. k \in 1 .. n /\ k \in 1 .. m /\ n - m + k = k
        BY <1>1, <1>9, <2>1, <3>1, <3>3
      <4> QED
        BY <1>2, <1>5, <1>6, <2>1, <3>1, <4>1
    <3> QED
      BY <3>2, <3>3, Zenon
  <2>2. CASE m = MaxOperations
    <3>1. Len(kept) = m /\ k \in 1 .. m /\ Len(new) - Len(kept) + k = n - m + (k + 1)
      <4>1. Len(kept) = m
        BY <1>5, <2>2, Zenon
      <4>2. k \in 1 .. m
        BY <1>9, <4>1, Zenon
      <4> QED
        BY <1>1, <1>2, <4>1, <4>2
    <3>2. CASE k = m
      <4>1. n - m + (k + 1) = n + 1
        BY <1>1, <3>2
      <4> QED
        BY <1>2, <1>5, <2>2, <3>1, <3>2, <4>1, Zenon
    <3>3. CASE k # m
      <4>1. k + 1 \in 1 .. m /\ n - m + (k + 1) \in 1 .. n
        BY <1>1, <3>1, <3>3
      <4>2. kept[k] = all[n - m + (k + 1)]
        BY <1>5, <1>6, <2>2, <3>1, <3>3, <4>1, Zenon
      <4> QED
        BY <1>2, <3>1, <4>1, <4>2, Zenon
    <3> QED
      BY <3>2, <3>3, Zenon
  <2> QED
    BY <1>1, <2>1, <2>2
<1>10. ASSUME NEW i \in 1 .. Len(new), NEW j \in 1 .. Len(new), i < j, new[i] = new[j]
       PROVE  j - i > MaxOperations
  <2>1. CASE j # n + 1
    <3>1. i \in 1 .. n /\ j \in 1 .. n
      BY <1>1, <1>2, <1>10, <2>1
    <3> QED
      BY <1>2, <1>7, <1>10, <3>1, Zenon
  <2>2. CASE j = n + 1
    <3>1. i \in 1 .. n
      BY <1>1, <1>2, <1>10, <2>2
    <3>2. all[i] = op
      BY <1>2, <1>10, <2>2, <3>1, Zenon
    <3>3. SUFFICES ASSUME ~(j - i > MaxOperations) PROVE FALSE
      BY Zenon
    <3>4. i - (n - m) \in 1 .. m /\ n - m + (i - (n - m)) = i
      BY <1>1, <2>2, <3>1, <3>3
    <3>5. ops[i - (n - m)] = all[i]
      BY <1>6, <3>4, Zenon
    <3> QED
      BY <1>3, <3>2, <3>4, <3>5, Zenon
  <2> QED
    BY <2>1, <2>2, Zenon
<1> QED
  BY <1>2, <1>5, <1>8, <1>9, <1>10, Zenon DEF Window, new, kept

\* The parts of CoreInv that most steps need.
LEMMA CoreTypes ==
    ASSUME CoreInv
    PROVE  /\ active \in [project : Projects \cup {Nobody}, gen : Nat] /\ last \in Nat
           /\ active.project \in Projects \cup {Nobody} /\ active.gen \in Nat
           /\ call \in [Calls -> Command] /\ \A c \in Calls : CommandFits(call[c])
           /\ HandlesAreCurrent
           /\ used \in Books /\ log \in Books
           /\ Window(used.project, log.project) /\ Window(used.daemon, log.daemon)
BY Zenon DEF CoreInv

\* A step of one command keeps all of them when it leaves that one in a state that
\* fits.
LEMMA CallUpdate ==
    ASSUME CoreInv, NEW c \in Calls, NEW x \in Command, CommandFits(x), call' = [call EXCEPT ![c] = x]
    PROVE  call' \in [Calls -> Command] /\ \A d \in Calls : CommandFits(call'[d])
<1>1. call \in [Calls -> Command] /\ \A d \in Calls : CommandFits(call[d])
  BY CoreTypes, Zenon
<1>2. \A d \in Calls : call'[d] = IF d = c THEN x ELSE call[d]
  BY <1>1, Zenon
<1> QED
  BY <1>1, <1>2, Zenon

\* The daemon's authority is a fence of no project.
LEMMA FenceFacts == NoFence \in Fence /\ NoFence.project = Nobody
BY Zenon DEF NoFence, Fence

\* A command that ends fits.
LEMMA EndsFits ==
    ASSUME CoreInv, NEW c \in Calls, NEW answer \in {"ok", "refused"}, Ends(c, answer)
    PROVE  call' \in [Calls -> Command] /\ \A d \in Calls : CommandFits(call'[d])
<1>1. PICK x : x = [IdleCall EXCEPT !.answer = answer]
  BY Zenon
<1>2. x \in Command /\ CommandFits(x)
  <2>1. x = [pc |-> "idle", kind |-> "none", fence |-> NoFence, scope |-> NoFence, answer |-> answer]
    BY <1>1, Zenon DEF IdleCall
  <2>2. "none" \in CommandKinds
    BY Zenon DEF CommandKinds
  <2>3. x \in Command
    BY <2>1, <2>2, FenceFacts, Zenon DEF Command
  <2> QED
    BY <2>1, <2>3, Zenon DEF CommandFits
<1>3. call' = [call EXCEPT ![c] = x]
  BY <1>1, Zenon DEF Ends
<1> QED
  BY <1>2, <1>3, CallUpdate, Zenon

\* A command that ends, or begins, and changes nothing but handles it shows itself.
LEMMA CallOnly ==
    ASSUME CoreInv, UNCHANGED <<active, last, used, log>>, HandlesAreCurrent',
           call' \in [Calls -> Command], \A d \in Calls : CommandFits(call'[d])
    PROVE  CoreInv'
BY CoreTypes, Zenon DEF CoreInv, Window, Books, CommandFits

\* Handles stay current while the generation does.
LEMMA HandlesStay ==
    ASSUME CoreInv, UNCHANGED <<active, held>>
    PROVE  HandlesAreCurrent'
BY CoreTypes, Zenon DEF HandlesAreCurrent

\* A command that ends and changes nothing else keeps the invariant.
LEMMA EndedCall ==
    ASSUME CoreInv, NEW c \in Calls, NEW answer \in {"ok", "refused"}, Ends(c, answer),
           UNCHANGED <<active, last, used, held, log>>
    PROVE  CoreInv'
BY EndsFits, HandlesStay, CallOnly, Zenon

\* A new generation keeps the invariant: it hands out only handles of its own and
\* starts an empty window.
LEMMA NewGenerationKeeps ==
    ASSUME CoreInv, NEW c \in Calls, NEW p \in Projects \cup {Nobody}, NewGeneration(p),
           NEW answer \in {"ok", "refused"}, Ends(c, answer)
    PROVE  CoreInv'
<1>1. last \in Nat /\ used \in Books /\ log \in Books /\ Window(used.daemon, log.daemon)
  BY CoreTypes, Zenon
<1>2. active' = [project |-> p, gen |-> last + 1] /\ last' = last + 1
  BY Zenon DEF NewGeneration
<1>3. active' \in [project : Projects \cup {Nobody}, gen : Nat] /\ last' \in Nat
  BY <1>1, <1>2
<1>4. HandlesAreCurrent'
  <2>1. PICK shown \in SUBSET {"approval", "evidence"} :
          held' = {[kind |-> k, project |-> p, gen |-> last + 1] : k \in shown}
    BY Zenon DEF NewGeneration
  <2> QED
    BY <1>2, <2>1 DEF HandlesAreCurrent
<1>5. used' = [used EXCEPT !.project = <<>>] /\ log' = [log EXCEPT !.project = <<>>]
  BY Zenon DEF NewGeneration
<1>6. /\ used' \in Books /\ log' \in Books /\ used'.project = <<>> /\ log'.project = <<>>
      /\ used'.daemon = used.daemon /\ log'.daemon = log.daemon
  <2>1. <<>> \in Seq(Operations)
    OBVIOUS
  <2>2. PICK empty : empty = <<>>
    BY Zenon
  <2>3. used' = [used EXCEPT !.project = empty] /\ log' = [log EXCEPT !.project = empty]
    BY <1>5, <2>2, Zenon
  <2>4. empty \in Seq(Operations)
    BY <2>1, <2>2, Zenon
  <2>5. /\ used' \in Books /\ log' \in Books /\ used'.project = empty /\ log'.project = empty
        /\ used'.daemon = used.daemon /\ log'.daemon = log.daemon
    BY <1>1, <2>3, <2>4, Zenon DEF Books
  <2> QED
    BY <2>2, <2>5, Zenon
<1>7. Window(<<>>, <<>>)
  BY CoreAssumption DEF Window
<1>8. Window(used.project, log.project)' /\ Window(used.daemon, log.daemon)'
  BY <1>1, <1>6, <1>7, ZenonT(40) DEF Window
<1> QED
  BY <1>3, <1>4, <1>6, <1>8, EndsFits, ZenonT(40) DEF CoreInv, CommandFits

\* A command arriving keeps the invariant.
LEMMA AskKeeps ==
    ASSUME CoreInv, NEW c \in Calls, Ask(c)
    PROVE  CoreInv'
<1>1. UNCHANGED <<active, last, used, held, workspace, gate, log>>
  BY Zenon DEF Ask
<1>2. PICK kind \in CallKinds[c], p \in Projects \cup {Nobody}, op \in Operations :
        /\ kind = "settings" => p = Nobody
        /\ call' = [call EXCEPT ![c] =
              [pc |-> "asked", kind |-> kind, scope |-> NoFence, answer |-> "none",
               fence |-> [project |-> p, gen |-> IF p = Nobody THEN 0 ELSE active.gen, op |-> op]]]
  BY Zenon DEF Ask
<1>3. PICK fence : fence = [project |-> p, gen |-> IF p = Nobody THEN 0 ELSE active.gen, op |-> op]
  BY Zenon
<1>4. PICK x : x = [pc |-> "asked", kind |-> kind, scope |-> NoFence, answer |-> "none",
                    fence |-> fence]
  BY Zenon
<1>5. fence \in Fence /\ fence.project = p
  BY <1>3, CoreTypes, Zenon DEF Fence
<1>6. kind \in CommandKinds
  BY Zenon DEF CommandKinds
<1>7. x \in Command /\ CommandFits(x)
  <2>1. x \in Command
    BY <1>4, <1>5, <1>6, FenceFacts, Zenon DEF Command
  <2>2. fence.op \in Operations
    BY <1>3, Zenon
  <2> QED
    BY <1>2, <1>4, <1>5, <2>1, <2>2, Zenon DEF CommandFits
<1>8. call' = [call EXCEPT ![c] = x]
  BY <1>2, <1>3, <1>4, Zenon
<1> QED
  BY <1>1, <1>7, <1>8, CallUpdate, HandlesStay, CallOnly, Zenon

\* begin, begin_daemon and begin_scoped keep the invariant: an operation is
\* accepted only when the window of its scope does not hold it.
LEMMA BeginKeeps ==
    ASSUME CoreInv, NEW c \in Calls, Begin(c)
    PROVE  CoreInv'
<1> DEFINE fence == call[c].fence
           s == Scope(fence)
<1>1. UNCHANGED <<active, last, held, workspace>> /\ call[c].pc = "asked"
  BY Zenon DEF Begin
<1>2. call[c] \in Command /\ CommandFits(call[c]) /\ fence \in Fence /\ call \in [Calls -> Command]
  BY CoreTypes, Zenon DEF Command
<1>3. CASE Ends(c, "refused") /\ UNCHANGED <<used, log>>
  BY <1>1, <1>3, EndedCall, Zenon
<1>4. CASE /\ ~Holds(used[s], fence.op)
           /\ used' = [used EXCEPT ![s] = Remember(@, fence.op)]
           /\ log' = [log EXCEPT ![s] = Append(@, fence.op)]
           /\ call' = [call EXCEPT ![c].pc = "work",
                         ![c].scope = IF s = "daemon" THEN NoFence ELSE fence]
  <2>1. fence.op \in Operations /\ call[c].answer = "none"
    BY <1>1, <1>2, Zenon DEF CommandFits
  <2>2. PICK scope : scope = IF s = "daemon" THEN NoFence ELSE fence
    BY Zenon
  <2>3. scope \in Fence /\ (fence.project = Nobody => scope = NoFence)
    BY <1>2, <2>2, FenceFacts, Zenon DEF Scope
  <2>4. PICK x : x = [call[c] EXCEPT !.pc = "work", !.scope = scope]
    BY Zenon
  <2>5. /\ x \in Command /\ x.kind = call[c].kind /\ x.fence = fence /\ x.scope = scope
        /\ x.answer = "none"
    BY <1>2, <2>1, <2>3, <2>4, Zenon DEF Command
  <2>6. CommandFits(x)
    BY <1>2, <2>1, <2>3, <2>5, Zenon DEF CommandFits
  <2>7. call' = [call EXCEPT ![c] = x]
    BY <1>2, <1>4, <2>2, <2>4, Zenon
  <2>8. /\ used \in Books /\ log \in Books
        /\ Window(used.project, log.project) /\ Window(used.daemon, log.daemon)
    BY CoreTypes, Zenon
  <2>9. /\ used' \in Books /\ log' \in Books
        /\ Window(used'.project, log'.project) /\ Window(used'.daemon, log'.daemon)
    <3>1. PICK op : op = fence.op
      BY Zenon
    <3>2. CASE s = "daemon"
      <4>1. ~Holds(used.daemon, op) /\ op \in Operations
        BY <1>4, <2>1, <3>1, <3>2, Zenon
      <4>2. /\ Remember(used.daemon, op) \in Seq(Operations)
            /\ Append(log.daemon, op) \in Seq(Operations)
            /\ Window(Remember(used.daemon, op), Append(log.daemon, op))
        BY <2>8, <4>1, WindowStep, Zenon DEF Books
      <4>3. /\ used' = [used EXCEPT !.daemon = Remember(used.daemon, op)]
            /\ log' = [log EXCEPT !.daemon = Append(log.daemon, op)]
        BY <1>4, <2>8, <3>1, <3>2, Zenon DEF Books
      <4> QED
        BY <2>8, <4>2, <4>3, Zenon DEF Books
    <3>3. CASE s = "project"
      <4>1. ~Holds(used.project, op) /\ op \in Operations
        BY <1>4, <2>1, <3>1, <3>3, Zenon
      <4>2. /\ Remember(used.project, op) \in Seq(Operations)
            /\ Append(log.project, op) \in Seq(Operations)
            /\ Window(Remember(used.project, op), Append(log.project, op))
        BY <2>8, <4>1, WindowStep, Zenon DEF Books
      <4>3. /\ used' = [used EXCEPT !.project = Remember(used.project, op)]
            /\ log' = [log EXCEPT !.project = Append(log.project, op)]
        BY <1>4, <2>8, <3>1, <3>3, Zenon DEF Books
      <4> QED
        BY <2>8, <4>2, <4>3, Zenon DEF Books
    <3> QED
      BY <3>2, <3>3, Zenon DEF Scope
  <2>10. Window(used.project, log.project)' /\ Window(used.daemon, log.daemon)'
    BY <2>9, Zenon DEF Window
  <2>11. call' \in [Calls -> Command] /\ \A d \in Calls : CommandFits(call'[d])
    BY <2>5, <2>6, <2>7, CallUpdate, Zenon
  <2>12. HandlesAreCurrent' /\ active' = active /\ last' = last
    BY <1>1, HandlesStay, Zenon
  <2> QED
    BY <2>9, <2>10, <2>11, <2>12, CoreTypes, Zenon DEF CoreInv, CommandFits
<1> QED
  BY <1>1, <1>3, <1>4, Zenon DEF Begin

\* activate and bootstrap keep the invariant.
LEMMA ActivateKeeps ==
    ASSUME CoreInv, NEW c \in Calls, BeginActivate(c) \/ FinishActivate(c)
    PROVE  CoreInv'
<1>1. CASE Ends(c, "refused") /\ UNCHANGED <<active, last, used, held, log>>
  BY <1>1, EndedCall, Zenon
<1>2. CASE BeginActivate(c) /\ call' = [call EXCEPT ![c].pc = "work"]
  <2>1. PICK x : x = [call[c] EXCEPT !.pc = "work"]
    BY Zenon
  <2>2. call[c] \in Command /\ CommandFits(call[c]) /\ call[c].pc = "asked"
    BY <1>2, CoreTypes, Zenon DEF BeginActivate
  <2>3. /\ x \in Command /\ x.kind = call[c].kind /\ x.fence = call[c].fence
        /\ x.scope = call[c].scope /\ x.answer = call[c].answer
    BY <2>1, <2>2, Zenon DEF Command
  <2>4. CommandFits(x)
    BY <2>2, <2>3, Zenon DEF CommandFits
  <2>5. call' = [call EXCEPT ![c] = x]
    BY <1>2, <2>1, CoreTypes, Zenon
  <2>6. UNCHANGED <<active, last, used, held, workspace, log>>
    BY <1>2, Zenon DEF BeginActivate
  <2> QED
    BY <2>3, <2>4, <2>5, <2>6, CallUpdate, HandlesStay, CallOnly, Zenon
<1>3. CASE NewGeneration(call[c].fence.project) /\ Ends(c, "ok")
  <2>1. call[c].fence.project \in Projects \cup {Nobody}
    BY CoreTypes, Zenon DEF Command, Fence
  <2>2. PICK p \in Projects \cup {Nobody} : p = call[c].fence.project
    BY <2>1, Zenon
  <2> QED
    BY <1>3, <2>2, NewGenerationKeeps, Zenon
<1> QED
  BY <1>1, <1>2, <1>3, Zenon DEF BeginActivate, FinishActivate

\* The answer a command that ends gives.
LEMMA EndsAnswer ==
    ASSUME CoreInv, NEW c \in Calls, NEW answer, Ends(c, answer)
    PROVE  call'[c].answer = answer /\ \A d \in Calls \ {c} : call'[d] = call[d]
<1>1. call \in [Calls -> Command]
  BY CoreTypes, Zenon
<1>2. [IdleCall EXCEPT !.answer = answer].answer = answer
  BY Zenon DEF IdleCall
<1> QED
  BY <1>1, <1>2, Zenon DEF Ends

\* The actions that end a command other than an activation.
Finishes(c) ==
    \/ FinishSnapshot(c) \/ FinishApproval(c) \/ FinishEvidence(c) \/ FinishProgress(c)
    \/ FinishWorkspace(c) \/ FinishDocument(c) \/ FinishFlowRun(c)
    \/ ReadDaemon(c) \/ ComposeFlow(c) \/ ReadHistory(c) \/ InferModel(c)
    \/ ChangeModel(c) \/ ImportModel(c) \/ UseDownloads(c)
    \/ UseConnector(c) \/ ManageSkills(c) \/ ChangeSettings(c) \/ DaemonAccess(c)

\* What all of these do: the command answers, and "ok" only in its own generation; it
\* starts a generation, shows evidence of the active one, or leaves both alone.
Concludes(c) ==
    \E answer \in {"ok", "refused"} :
        /\ Ends(c, answer)
        /\ answer = "ok" => call[c].scope = NoFence \/ FenceIsActive(call[c].scope)
        /\ \/ NewGeneration(active.project)
           \/ /\ UNCHANGED <<active, last, used, log>>
              /\ held' \in {held, held \cup {[kind |-> "evidence", project |-> active.project,
                                              gen |-> active.gen]}}

\* Every command that is not an activation looks at its fence again before it
\* answers ok, or belongs to the daemon's scope (ensure_scope_matches).
LEMMA FinishesConclude ==
    ASSUME CoreInv, NEW c \in Calls, Finishes(c)
    PROVE  Concludes(c)
<1> USE DEF ScopeMatches
<1>1. CASE FinishSnapshot(c)
  <2>1. CASE call[c].scope # NoFence /\ ScopeMatches(c) /\ NewGeneration(active.project) /\ Ends(c, "ok")
    BY <2>1, Zenon DEF Concludes
  <2>2. CASE /\ \E works \in BOOLEAN :
                  Ends(c, IF works /\ call[c].scope = NoFence THEN "ok" ELSE "refused")
             /\ UNCHANGED <<active, last, used, held, workspace, log>>
    BY <2>2, Zenon DEF Concludes
  <2> QED
    BY <1>1, <2>1, <2>2, Zenon DEF FinishSnapshot
<1>2. CASE FinishApproval(c)
  <2>1. CASE ScopeMatches(c) /\ NewGeneration(active.project) /\ Ends(c, "ok")
    BY <2>1, Zenon DEF Concludes
  <2>2. CASE Ends(c, "refused") /\ UNCHANGED <<active, last, used, held, workspace, log>>
    BY <2>2, Zenon DEF Concludes
  <2> QED
    BY <1>2, <2>1, <2>2, Zenon DEF FinishApproval
<1>3. CASE FinishEvidence(c)
  BY <1>3, Zenon DEF FinishEvidence, Concludes
<1>4. CASE FinishProgress(c)
  BY <1>4, Zenon DEF FinishProgress, Concludes
<1>5. CASE FinishWorkspace(c)
  BY <1>5, Zenon DEF FinishWorkspace, Concludes
<1>6. CASE FinishDocument(c)
  BY <1>6, Zenon DEF FinishDocument, Concludes
<1>7. CASE FinishFlowRun(c)
  BY <1>7, Zenon DEF FinishFlowRun, Concludes
<1>8. ASSUME Shows(c) PROVE Concludes(c)
  BY <1>8, Zenon DEF Shows, Concludes
<1>9. CASE ManageSkills(c)
  <2>1. CASE Ends(c, "refused") /\ UNCHANGED <<active, last, used, held, workspace, log>>
    BY <2>1 DEF Concludes
  <2> QED
    BY <1>8, <1>9, <2>1, Zenon DEF ManageSkills
<1>10. CASE ChangeSettings(c)
  <2>1. call[c].scope = NoFence
    BY <1>10, CoreTypes, Zenon DEF ChangeSettings, Working, CommandFits
  <2> QED
    BY <1>10, <2>1, Zenon DEF ChangeSettings, Concludes
<1> QED
  BY <1>1, <1>2, <1>3, <1>4, <1>5, <1>6, <1>7, <1>8, <1>9, <1>10, Zenon
     DEF Finishes, ReadDaemon, ComposeFlow, ReadHistory, InferModel, ChangeModel, ImportModel,
         UseDownloads, UseConnector, DaemonAccess

\* A command that concludes keeps the invariant.
LEMMA ConcludesKeeps ==
    ASSUME CoreInv, NEW c \in Calls, Concludes(c)
    PROVE  CoreInv'
<1>1. PICK answer \in {"ok", "refused"} :
        /\ Ends(c, answer)
        /\ \/ NewGeneration(active.project)
           \/ /\ UNCHANGED <<active, last, used, log>>
              /\ held' \in {held, held \cup {[kind |-> "evidence", project |-> active.project,
                                              gen |-> active.gen]}}
  BY Zenon DEF Concludes
<1>2. CASE NewGeneration(active.project)
  <2>1. PICK p \in Projects \cup {Nobody} : p = active.project
    BY CoreTypes, Zenon
  <2> QED
    BY <1>1, <1>2, <2>1, NewGenerationKeeps, Zenon
<1>3. CASE /\ UNCHANGED <<active, last, used, log>>
           /\ held' \in {held, held \cup {[kind |-> "evidence", project |-> active.project,
                                           gen |-> active.gen]}}
  <2>1. HandlesAreCurrent'
    BY <1>3, CoreTypes DEF HandlesAreCurrent
  <2> QED
    BY <1>1, <1>3, <2>1, EndsFits, CallOnly, Zenon
<1> QED
  BY <1>1, <1>2, <1>3, Zenon

\* The invariant holds before the first activation.
LEMMA InitCoreInv ==
    ASSUME CoreInit
    PROVE  CoreInv
<1>1. active \in [project : Projects \cup {Nobody}, gen : Nat] /\ last \in Nat /\ HandlesAreCurrent
  BY Zenon DEF CoreInit, NoProject, HandlesAreCurrent
<1>2. IdleCall \in Command /\ CommandFits(IdleCall)
  BY FenceFacts, Zenon DEF IdleCall, Command, CommandKinds, CommandFits
<1>3. <<>> \in Seq(Operations) /\ Window(<<>>, <<>>)
  BY CoreAssumption DEF Window
<1>4. /\ used \in Books /\ log \in Books
      /\ Window(used.project, log.project) /\ Window(used.daemon, log.daemon)
  BY <1>3, Zenon DEF CoreInit, Books
<1> QED
  BY <1>1, <1>2, <1>4, Zenon DEF CoreInit, CoreInv

\* Every step keeps the invariant.
LEMMA NextCoreInv ==
    ASSUME CoreInv, [CoreNext]_coreVars
    PROVE  CoreInv'
<1>1. CASE UNCHANGED coreVars
  BY <1>1, CoreTypes, HandlesStay, CallOnly, Zenon DEF coreVars
<1>2. ASSUME NEW c \in Calls,
             Ask(c) \/ Begin(c) \/ BeginActivate(c) \/ FinishActivate(c) \/ Finishes(c)
      PROVE  CoreInv'
  BY <1>2, AskKeeps, BeginKeeps, ActivateKeeps, FinishesConclude, ConcludesKeeps, Zenon
<1> QED
  BY <1>1, <1>2, Zenon DEF CoreNext, Finishes

\* A step in which a command answers ok is a step of that command, and its fence is
\* the active one then.
LEMMA ShowsCurrent ==
    ASSUME CoreInv, CoreNext, NEW d \in Calls,
           call[d].pc = "work", call'[d].answer = "ok", call[d].kind # "activate"
    PROVE  call[d].scope = NoFence \/ FenceIsActive(call[d].scope)
<1>1. call[d].answer # "ok" /\ call \in [Calls -> Command]
  BY CoreTypes, Zenon DEF CommandFits
<1>2. ASSUME NEW c \in Calls, Ask(c) \/ Begin(c) \/ BeginActivate(c) \/ FinishActivate(c)
      PROVE  FALSE
  <2>1. CASE d # c
    <3>1. call'[d] = call[d]
      BY <1>1, <1>2, <2>1, Zenon DEF Ask, Begin, BeginActivate, FinishActivate, Ends
    <3> QED
      BY <1>1, <3>1, Zenon
  <2>2. CASE d = c
    BY <1>2, <2>2, Zenon DEF Ask, Begin, BeginActivate, FinishActivate
  <2> QED
    BY <2>1, <2>2, Zenon
<1>3. ASSUME NEW c \in Calls, Finishes(c)
      PROVE  call[d].scope = NoFence \/ FenceIsActive(call[d].scope)
  <2>1. PICK answer \in {"ok", "refused"} :
          /\ Ends(c, answer)
          /\ answer = "ok" => call[c].scope = NoFence \/ FenceIsActive(call[c].scope)
    BY <1>3, FinishesConclude, Zenon DEF Concludes
  <2>2. call'[c].answer = answer /\ \A e \in Calls \ {c} : call'[e] = call[e]
    BY <2>1, EndsAnswer, Zenon
  <2>3. d = c /\ answer = "ok"
    BY <1>1, <2>2, Zenon
  <2> QED
    BY <2>1, <2>3, Zenon
<1> QED
  BY <1>2, <1>3, Zenon DEF CoreNext, Finishes

\* CoreInv holds in every reachable state, for any number of commands, projects and
\* generations and any MAX_OPERATIONS.
THEOREM CoreInvariant == CoreSpec => []CoreInv
<1>1. CoreInit => CoreInv
  BY InitCoreInv
<1>2. CoreInv /\ [CoreNext]_coreVars => CoreInv'
  BY NextCoreInv
<1> QED
  BY <1>1, <1>2, PTL DEF CoreSpec

\* Handles are those of the active generation, an operation is accepted again only
\* after MAX_OPERATIONS others, and a command under a project answers ok only while
\* its generation is the active one (begin_scoped, activate, ensure_scope_matches).
THEOREM CoreCurrent == CoreSpec => CoreIsCurrent
<1>1. ASSUME CoreInv PROVE HandlesAreCurrent /\ OperationWindow
  <2>1. \A ops \in {log.project, log.daemon} : ops \in Seq(Operations)
    BY <1>1, CoreTypes, Zenon DEF Books
  <2>2. \A ops \in {log.project, log.daemon} : DOMAIN ops = 1 .. Len(ops)
    BY <2>1
  <2> QED
    BY <1>1, <2>2, CoreTypes, Zenon DEF OperationWindow, Window
<1>2. CoreInv => HandlesAreCurrent /\ OperationWindow
  BY <1>1, Zenon
<1>3. CoreInv /\ [CoreNext]_coreVars =>
        [\A c \in Calls :
           call[c].pc = "work" /\ call'[c].answer = "ok" /\ call[c].kind # "activate"
           => call[c].scope = NoFence \/ FenceIsActive(call[c].scope)]_coreVars
  BY ShowsCurrent, Zenon
<1> QED
  BY <1>2, <1>3, CoreInvariant, PTL DEF CoreSpec, CoreIsCurrent, ShowsOnlyItsGeneration
=============================================================================
