------------------------- MODULE RequestStoreProofs -------------------------
(***************************************************************************)
(* The safety of the durable queue for any number of requests, projects,   *)
(* claims and events, any lease duration and any movement of the clock.    *)
(***************************************************************************)
EXTENDS RequestStore, FiniteSetTheorems, TLAPS

\* The columns of a row that go together: an absent row is empty, any other has a
\* place in its project's queue below the next one, an active one was started
\* and a marked one holds the result of its cancellation.
RowShapeOf(r) ==
    /\ req[r].state = "absent" =>
         /\ req[r] = NoRow /\ events[r] = <<>> /\ ckpt[r] = NoCheckpoint
    /\ req[r].state # "absent" =>
         /\ req[r].project \in Projects /\ req[r].key \in Keys /\ req[r].op \in Ops
         /\ req[r].seq < nextSeq[req[r].project]
    /\ req[r].state \in Active => req[r].attempt > 0
    /\ req[r].state = "cancellation_requested" => req[r].result = "cancellation"
RowShape == \A r \in RequestIds : RowShapeOf(r)

\* The queue part of the inductive invariant.
QueueInv ==
    /\ TypeOK
    /\ RowShape
    /\ IdempotentAcceptance
    /\ OneActiveLeasePerProject
    /\ StartedInOrder

\* A terminal checkpoint under an acknowledged cancellation is one that may
\* override it, and an override is the last thing the flow recorded.
FlowShape ==
    \A r \in RequestIds :
        /\ ckpt[r].override => ckpt[r].phase = "blocked" /\ IsFlow(r)
        /\ HasTerminalFlow(r) /\ req[r].state = "cancellation_requested" =>
             MayOverrideCancellation(r)
        /\ req[r].state = "cancellation_requested" /\ ckpt[r].override =>
             /\ Len(events[r]) > 0
             /\ events[r][Len(events[r])] = "flow_reconciliation_unknown"

\* A request with an acknowledged cancellation never runs again.
CancellationIsKept ==
    \A r \in RequestIds : \A i \in 1 .. Len(events[r]) :
        events[r][i] = "cancellation_requested" =>
            req[r].state \in {"cancellation_requested"} \cup Terminal

FlowInv ==
    /\ FlowShape
    /\ CancellationIsKept
    /\ OneTerminalEvent
    /\ NoEffectAfterCancellation
    /\ FlowOutcomeDecides
    /\ AcknowledgedCancellationStands

IInv == QueueInv /\ FlowInv

-----------------------------------------------------------------------------
\* What the row operators write, so that no later step has to expand them.
LEMMA FinalizedRow ==
    ASSUME NEW row \in Row, NEW s \in States, NEW x \in Results
    PROVE  LET new == Finalized(row, s, x) IN
           /\ new \in Row /\ new.state = s /\ new.result = x
           /\ new.attempt = row.attempt /\ new.project = row.project
           /\ new.key = row.key /\ new.op = row.op /\ new.seq = row.seq
<1>1. Finalized(row, s, x) \in Row
  BY Zenon DEF Finalized, Row
<1> QED BY <1>1 DEF Finalized, Row

\* A request whose lease was recovered is queued again and keeps everything else
\* (recover_leases).
LEMMA RequeuedRow ==
    ASSUME NEW row \in Row
    PROVE  LET new == Requeued(row) IN
           /\ new \in Row /\ new.state = "queued"
           /\ new.attempt = row.attempt /\ new.project = row.project
           /\ new.key = row.key /\ new.op = row.op /\ new.seq = row.seq
<1>1. Requeued(row) \in Row
  BY Zenon DEF Requeued, Row, States
<1> QED BY <1>1 DEF Requeued, Row

\* A cancellation that is acknowledged to a running request marks it and stores
\* its result (cancel).
LEMMA CancelMarkedRow ==
    ASSUME NEW row \in Row
    PROVE  LET new == CancelMarked(row) IN
           /\ new \in Row /\ new.state = "cancellation_requested" /\ new.result = "cancellation"
           /\ new.attempt = row.attempt /\ new.project = row.project
           /\ new.key = row.key /\ new.op = row.op /\ new.seq = row.seq
<1>1. CancelMarked(row) \in Row
  BY Zenon DEF CancelMarked, Row, States, Active, Results
<1> QED BY <1>1 DEF CancelMarked, Row

\* A claimed request is leased and has one attempt more (claim).
LEMMA LeasedRow ==
    ASSUME TypeOK, NEW row \in Row, NEW t \in Nat
    PROVE  LET new == Leased(row, t) IN
           /\ new \in Row /\ new.state = "leased"
           /\ new.attempt = row.attempt + 1 /\ new.project = row.project
           /\ new.key = row.key /\ new.op = row.op /\ new.seq = row.seq
<1>1. now + LeaseDuration \in Nat /\ row.attempt + 1 \in Nat
  BY StoreAssumption DEF TypeOK, Row
<1>2. Leased(row, t) \in Row
  BY <1>1, Zenon DEF Leased, Row, States, Active
<1> QED BY <1>2 DEF Leased, Row

\* A renewal changes only the expiry of the lease (renew).
LEMMA RenewedRow ==
    ASSUME TypeOK, NEW row \in Row
    PROVE  LET new == Renewed(row) IN
           /\ new \in Row /\ new.state = row.state /\ new.result = row.result
           /\ new.attempt = row.attempt /\ new.project = row.project
           /\ new.key = row.key /\ new.op = row.op /\ new.seq = row.seq
<1>1. now + LeaseDuration \in Nat
  BY StoreAssumption DEF TypeOK
<1>2. Renewed(row) \in Row
  BY <1>1 DEF Renewed, Row
<1> QED BY <1>2 DEF Renewed, Row

\* An accepted request is queued, unstarted, at the place it was given (accept).
LEMMA NewRowOperator ==
    ASSUME TypeOK, NEW p \in Projects, NEW k \in Keys, NEW o \in Ops,
           NEW n \in Nat, NEW id \in Nat
    PROVE  LET new == NewRow(p, k, o, n, id) IN
           /\ new \in Row
           /\ new.state = "queued" /\ new.project = p /\ new.key = k /\ new.op = o
           /\ new.seq = n /\ new.attempt = 0 /\ new.result = "null"
BY Zenon DEF TypeOK, NewRow, NoRow, Row, States, Results

\* The state and the event that end a request are terminal ones.
LEMMA TerminalValues ==
    ASSUME NEW x
    PROVE  /\ ResolvedState(x) \in Terminal
           /\ TerminalEvent(x) \in TerminalEvents
BY DEF ResolvedState, TerminalEvent, Terminal, TerminalEvents

\* The number of rows, from which the next rowid is taken, is a number.
LEMMA RowCountType == RowCount \in Nat
<1>1. IsFiniteSet({q \in RequestIds : req[q].state # "absent"})
  BY StoreAssumption, FS_Subset
<1> QED BY <1>1, FS_CardinalityType DEF RowCount

\* The columns that only acceptance writes.
SameIdentity(r) ==
    /\ req'[r].project = req[r].project /\ req'[r].key = req[r].key
    /\ req'[r].op = req[r].op /\ req'[r].seq = req[r].seq

\* What a step does to one request: nothing, or one of the transitions of its
\* own life.  Deleting the flow checkpoints is the one change from outside.
Quiet(r) ==
    /\ req'[r].state = req[r].state /\ req'[r].attempt = req[r].attempt
    /\ req'[r].result = req[r].result /\ SameIdentity(r)
    /\ req[r].state \notin Active => req'[r] = req[r]
    /\ events'[r] = events[r]
    /\ ckpt'[r] = ckpt[r] \/ ckpt'[r] = NoCheckpoint

Moved(r, row, kind) ==
    /\ row \in Row
    /\ req'[r] = row
    /\ events'[r] = Append(events[r], kind)
    /\ ckpt'[r] = ckpt[r]

Created(r) ==
    /\ req[r].state = "absent" /\ req'[r].state = "queued" /\ req'[r].attempt = 0
    /\ Moved(r, req'[r], "accepted")

Started(r) ==
    /\ req[r].state = "queued" /\ req'[r].state = "leased"
    /\ req'[r].attempt = req[r].attempt + 1
    /\ SameIdentity(r) /\ Moved(r, req'[r], "started")

Released(r) ==
    /\ req[r].state = "leased" /\ req'[r].state = "queued" /\ ~HasTerminalFlow(r)
    /\ req'[r].attempt = req[r].attempt
    /\ SameIdentity(r) /\ Moved(r, req'[r], "lease_expired")

Marked(r) ==
    /\ req[r].state = "leased" /\ req'[r].state = "cancellation_requested"
    /\ ~HasTerminalFlow(r) /\ req'[r].result = "cancellation"
    /\ req'[r].attempt = req[r].attempt
    /\ SameIdentity(r) /\ Moved(r, req'[r], "cancellation_requested")

Ended(r) ==
    /\ req[r].state \in Unfinished /\ req'[r].state \in Terminal
    /\ HasTerminalFlow(r) => req'[r].state = ResolvedState(ckpt[r].phase) /\ req'[r].result = "flow"
    /\ req[r].state = "cancellation_requested" =>
         req'[r].state = "cancelled" \/ FlowEnded(r)
    /\ req'[r].attempt = req[r].attempt
    /\ SameIdentity(r) /\ Moved(r, req'[r], TerminalEvent(req'[r].state))

Saved(r) ==
    /\ req[r].state \in Active /\ IsFlow(r)
    /\ req'[r] = req[r]
    /\ \E s \in FlowSteps :
         /\ ~(req[r].state = "cancellation_requested" /\ s[2] = "effect_started")
         /\ TerminalAllowed(r, s[2], s[3])
         /\ ckpt[r].phase = s[1]
         /\ ckpt'[r] = [phase |-> s[3], override |-> TerminalOverride(r, s[2], s[3])]
         /\ events'[r] = IF s[2] = "create" THEN events[r] ELSE Append(events[r], FlowEvent(s[2]))

LaterStep(r) == Quiet(r) \/ Released(r) \/ Marked(r) \/ Ended(r) \/ Saved(r)
RowStep(r) == Created(r) \/ Started(r) \/ LaterStep(r)

\* Rewriting one row with its event.
LEMMA UpdateEffect ==
    ASSUME TypeOK, NEW r \in RequestIds, NEW row \in Row, NEW kind \in EventKinds,
           Update(r, row, kind)
    PROVE  /\ req' \in [RequestIds -> Row] /\ events' \in [RequestIds -> Seq(EventKinds)]
           /\ req'[r] = row /\ events'[r] = Append(events[r], kind)
           /\ \A q \in RequestIds \ {r} : req'[q] = req[q] /\ events'[q] = events[q]
BY DEF TypeOK, Update, AppendEvent

\* The kinds of events the transactions append are event kinds.
LEMMA EventKindMembers ==
    /\ {"accepted", "started", "lease_expired", "cancellation_requested"} \subseteq EventKinds
    /\ TerminalEvents \subseteq EventKinds
    /\ \A kind : FlowEvent(kind) \in EventKinds
BY DEF EventKinds, FlowEvent

\* Terminal states are states, and the results the transactions write are results.
LEMMA StateMembers ==
    /\ Terminal \subseteq States
    /\ {"success", "failure", "cancellation", "flow"} \subseteq Results
BY DEF States, Results

\* Recovering an active lease releases it or ends its request.
LEMMA RecoveredRow ==
    ASSUME TypeOK, NEW r \in RequestIds, req[r].state \in Active
    PROVE  LET row == Recovered(r) IN
           /\ row \in Row
           /\ row.project = req[r].project /\ row.key = req[r].key
           /\ row.op = req[r].op /\ row.seq = req[r].seq /\ row.attempt = req[r].attempt
           /\ \/ /\ row.state = "queued" /\ req[r].state = "leased" /\ ~HasTerminalFlow(r)
                 /\ RecoveryEvent(row) = "lease_expired"
              \/ /\ row.state \in Terminal
                 /\ FlowEnded(r) => row.state = ResolvedState(ckpt[r].phase) /\ row.result = "flow"
                 /\ ~FlowEnded(r) => row.state = "cancelled" /\ req[r].state # "leased"
                 /\ RecoveryEvent(row) = TerminalEvent(row.state)
<1>1. req[r] \in Row /\ req[r].result \in Results
  BY DEF TypeOK, Row
<1>2. ResolvedState(ckpt[r].phase) \in Terminal /\ ResolvedState(ckpt[r].phase) \in States
  BY TerminalValues, StateMembers
<1>3. CASE FlowEnded(r)
  <2>1. Recovered(r) = Finalized(req[r], ResolvedState(ckpt[r].phase), "flow")
    BY <1>3 DEF Recovered, EndedByFlow
  <2>2. "flow" \in Results
    BY DEF Results
  <2>3. Recovered(r) \in Row /\ Recovered(r).state = ResolvedState(ckpt[r].phase)
    BY <2>1, <2>2, <1>1, <1>2, FinalizedRow
  <2>4. Recovered(r).state # "queued"
    BY <2>3, <1>2 DEF Terminal
  <2> QED BY <1>1, <1>2, <1>3, <2>1, <2>2, <2>3, <2>4, FinalizedRow DEF RecoveryEvent
<1>4. CASE ~FlowEnded(r) /\ req[r].state = "leased"
  <2>1. Recovered(r) = Requeued(req[r]) /\ ~HasTerminalFlow(r)
    BY <1>4 DEF Recovered, FlowEnded
  <2> QED BY <1>1, <1>4, <2>1, RequeuedRow DEF RecoveryEvent
<1>5. CASE ~FlowEnded(r) /\ req[r].state # "leased"
  <2>1. Recovered(r) = Finalized(req[r], "cancelled", req[r].result)
    BY <1>5 DEF Recovered
  <2>2. "cancelled" \in States /\ "cancelled" \in Terminal /\ "cancelled" # "queued"
    BY DEF States, Terminal
  <2> QED BY <1>1, <1>5, <2>1, <2>2, FinalizedRow DEF RecoveryEvent
<1> QED BY <1>3, <1>4, <1>5, Zenon

-----------------------------------------------------------------------------
\* A transaction that leaves a request's row and events alone, and at most deletes
\* its checkpoint, is quiet about it.
LEMMA UnchangedIsQuiet ==
    ASSUME NEW r, req'[r] = req[r], events'[r] = events[r],
           ckpt'[r] = ckpt[r] \/ ckpt'[r] = NoCheckpoint
    PROVE  LaterStep(r)
BY DEF LaterStep, Quiet, SameIdentity

\* A rewritten row that ends its request.
LEMMA EndingRow ==
    ASSUME TypeOK, NEW r \in RequestIds, req[r].state \in Unfinished,
           NEW s \in Terminal, NEW x \in Results, ckpt' = ckpt,
           HasTerminalFlow(r) => s = ResolvedState(ckpt[r].phase) /\ x = "flow",
           req[r].state = "cancellation_requested" => s = "cancelled" \/ FlowEnded(r),
           Update(r, Finalized(req[r], s, x), TerminalEvent(s))
    PROVE  /\ req' \in [RequestIds -> Row] /\ events' \in [RequestIds -> Seq(EventKinds)]
           /\ \A q \in RequestIds : LaterStep(q)
<1>1. req[r] \in Row /\ s \in States
  BY StateMembers DEF TypeOK
<1>2. Finalized(req[r], s, x) \in Row /\ TerminalEvent(s) \in EventKinds
  BY <1>1, FinalizedRow, TerminalValues, EventKindMembers
<1>3. /\ req' \in [RequestIds -> Row] /\ events' \in [RequestIds -> Seq(EventKinds)]
      /\ req'[r] = Finalized(req[r], s, x) /\ events'[r] = Append(events[r], TerminalEvent(s))
      /\ \A q \in RequestIds \ {r} : req'[q] = req[q] /\ events'[q] = events[q]
  BY <1>2, UpdateEffect, Zenon
<1>4. /\ req'[r] \in Row /\ req'[r].state = s /\ req'[r].result = x
      /\ req'[r].attempt = req[r].attempt /\ req'[r].project = req[r].project
      /\ req'[r].key = req[r].key /\ req'[r].op = req[r].op /\ req'[r].seq = req[r].seq
  BY <1>1, <1>3, FinalizedRow
<1>5. Ended(r)
  BY <1>3, <1>4, Zenon DEF Ended, SameIdentity, Moved
<1>6. \A q \in RequestIds \ {r} : LaterStep(q)
  BY <1>3, UnchangedIsQuiet, Zenon
<1> QED BY <1>3, <1>5, <1>6 DEF LaterStep

\* accept creates one row and touches no other.
LEMMA AcceptStep ==
    ASSUME IInv, NEW r \in RequestIds, NEW p \in Projects, NEW k \in Keys, NEW o \in Ops,
           Accept(r, p, k, o)
    PROVE  /\ TypeOK' /\ \A q \in RequestIds : RowStep(q)
           /\ req'[r] = NewRow(p, k, o, nextSeq[p], 1 + RowCount)
           /\ \A q \in RequestIds \ {r} : req'[q] = req[q]
<1>1. TypeOK
  BY DEF IInv, QueueInv
<1>2. nextSeq[p] \in Nat /\ 1 + RowCount \in Nat
  BY <1>1, RowCountType DEF TypeOK
<1> DEFINE new == NewRow(p, k, o, nextSeq[p], 1 + RowCount)
<1>3. new \in Row /\ new.state = "queued" /\ new.attempt = 0
  BY <1>1, <1>2, NewRowOperator
<1>4. Update(r, new, "accepted") /\ "accepted" \in EventKinds
  BY EventKindMembers, Zenon DEF Accept
<1> HIDE DEF new
<1>5. /\ req' \in [RequestIds -> Row] /\ events' \in [RequestIds -> Seq(EventKinds)]
      /\ req'[r] = new /\ events'[r] = Append(events[r], "accepted")
      /\ \A q \in RequestIds \ {r} : req'[q] = req[q] /\ events'[q] = events[q]
  BY <1>1, <1>3, <1>4, UpdateEffect
<1>6. Created(r)
  BY <1>3, <1>5, Zenon DEF Accept, Created, Moved
<1>7. \A q \in RequestIds \ {r} : LaterStep(q)
  BY <1>5, UnchangedIsQuiet, Zenon DEF Accept
<1>8. nextSeq' \in [Projects -> Nat \ {0}] /\ authorized' \subseteq RequestIds
  BY <1>1 DEF Accept, TypeOK
<1> QED BY <1>1, <1>5, <1>6, <1>7, <1>8, Zenon DEF RowStep, TypeOK, Accept, new

\* claim starts one request and touches no other row.
LEMMA ClaimStep ==
    ASSUME IInv, NEW r \in RequestIds, Claim(r)
    PROVE  /\ TypeOK' /\ \A q \in RequestIds : RowStep(q)
           /\ Started(r) /\ \A q \in RequestIds \ {r} : req'[q] = req[q]
<1>1. TypeOK /\ req[r] \in Row /\ lastToken + 1 \in Nat \ {0}
  BY DEF IInv, QueueInv, TypeOK
<1>2. LET new == Leased(req[r], lastToken + 1) IN
      /\ new \in Row /\ new.state = "leased"
      /\ new.attempt = req[r].attempt + 1 /\ new.project = req[r].project
      /\ new.key = req[r].key /\ new.op = req[r].op /\ new.seq = req[r].seq
  BY <1>1, LeasedRow, Zenon
<1>3. Update(r, Leased(req[r], lastToken + 1), "started") /\ "started" \in EventKinds
  BY EventKindMembers DEF Claim
<1>4. /\ req' \in [RequestIds -> Row] /\ events' \in [RequestIds -> Seq(EventKinds)]
      /\ req'[r] = Leased(req[r], lastToken + 1) /\ events'[r] = Append(events[r], "started")
      /\ \A q \in RequestIds \ {r} : req'[q] = req[q] /\ events'[q] = events[q]
  BY <1>1, <1>2, <1>3, UpdateEffect, Zenon
<1>5. Started(r)
  BY <1>2, <1>4, Zenon DEF Claim, Candidate, Eligible, Started, SameIdentity, Moved
<1>6. \A q \in RequestIds \ {r} : LaterStep(q)
  BY <1>4, UnchangedIsQuiet, Zenon DEF Claim
<1>7. handles' \subseteq Handle
  BY <1>1 DEF Claim, TypeOK, Handle
<1> QED BY <1>1, <1>4, <1>5, <1>6, <1>7, Zenon DEF RowStep, TypeOK, Claim

\* Recovery, by the sweep or at a restart, releases or ends each lease it takes and
\* touches no other row.
LEMMA RecoverStep ==
    ASSUME IInv, NEW R \in SUBSET ActiveLeases, RecoverLeases(R), handles' \subseteq handles
    PROVE  TypeOK' /\ \A q \in RequestIds : LaterStep(q)
<1>1. TypeOK /\ R \subseteq RequestIds /\ \A r \in R : req[r].state \in Active
  BY DEF IInv, QueueInv, ActiveLeases
<1>2. \A r \in R : Recovered(r) \in Row /\ RecoveryEvent(Recovered(r)) \in EventKinds
  <2> SUFFICES ASSUME NEW r \in R
               PROVE  Recovered(r) \in Row /\ RecoveryEvent(Recovered(r)) \in EventKinds
    OBVIOUS
  <2>1. Recovered(r) \in Row
    BY <1>1, RecoveredRow, Zenon
  <2>2. RecoveryEvent(Recovered(r)) \in {"lease_expired"} \cup TerminalEvents
    BY TerminalValues DEF RecoveryEvent
  <2> QED BY <2>1, <2>2, EventKindMembers
<1>3. /\ req' \in [RequestIds -> Row] /\ events' \in [RequestIds -> Seq(EventKinds)]
      /\ \A r \in R : /\ req'[r] = Recovered(r)
                      /\ events'[r] = Append(events[r], RecoveryEvent(Recovered(r)))
      /\ \A r \in RequestIds \ R : req'[r] = req[r] /\ events'[r] = events[r]
      /\ ckpt' = ckpt
  BY <1>1, <1>2 DEF RecoverLeases, TypeOK
<1>4. ASSUME NEW r \in R PROVE LaterStep(r)
  <2> DEFINE row == Recovered(r)
  <2>1. /\ row \in Row
        /\ row.project = req[r].project /\ row.key = req[r].key
        /\ row.op = req[r].op /\ row.seq = req[r].seq /\ row.attempt = req[r].attempt
        /\ \/ /\ row.state = "queued" /\ req[r].state = "leased" /\ ~HasTerminalFlow(r)
              /\ RecoveryEvent(row) = "lease_expired"
           \/ /\ row.state \in Terminal
              /\ FlowEnded(r) => row.state = ResolvedState(ckpt[r].phase) /\ row.result = "flow"
              /\ ~FlowEnded(r) => row.state = "cancelled" /\ req[r].state # "leased"
              /\ RecoveryEvent(row) = TerminalEvent(row.state)
    BY <1>1, RecoveredRow, Zenon
  <2>2. req'[r] = row /\ events'[r] = Append(events[r], RecoveryEvent(row)) /\ ckpt'[r] = ckpt[r]
    BY <1>3, Zenon
  <2>3. HasTerminalFlow(r) => FlowEnded(r)
    BY <1>1, Zenon DEF IInv, FlowInv, FlowShape, FlowEnded, Active
  <2>4. req[r].state \in Active /\ req[r].state \in Unfinished
    BY <1>1 DEF Unfinished
  <2> HIDE DEF row
  <2>5. CASE row.state = "queued" /\ req[r].state = "leased" /\ ~HasTerminalFlow(r)
             /\ RecoveryEvent(row) = "lease_expired"
    BY <2>1, <2>2, <2>5, Zenon DEF LaterStep, Released, SameIdentity, Moved
  <2>6. CASE /\ row.state \in Terminal
             /\ FlowEnded(r) => row.state = ResolvedState(ckpt[r].phase) /\ row.result = "flow"
             /\ ~FlowEnded(r) => row.state = "cancelled" /\ req[r].state # "leased"
             /\ RecoveryEvent(row) = TerminalEvent(row.state)
    BY <2>1, <2>2, <2>3, <2>4, <2>6, Zenon DEF LaterStep, Ended, SameIdentity, Moved
  <2> QED BY <2>1, <2>5, <2>6, Zenon
<1>5. ASSUME NEW r \in RequestIds \ R PROVE LaterStep(r)
  BY <1>3, UnchangedIsQuiet, Zenon
<1>6. TypeOK'
  BY <1>1, <1>3, Zenon DEF TypeOK, RecoverLeases
<1> QED BY <1>4, <1>5, <1>6

\* The state of the row written when a flow's own result ends its request.
LEMMA EndedByFlowState ==
    ASSUME TypeOK, NEW r \in RequestIds
    PROVE  EndedByFlow(r).state = ResolvedState(ckpt[r].phase)
<1>1. req[r] \in Row /\ ResolvedState(ckpt[r].phase) \in States /\ "flow" \in Results
  BY TerminalValues, StateMembers DEF TypeOK
<1> QED BY <1>1, FinalizedRow, Zenon DEF EndedByFlow

\* cancel ends a request, marks it, or resolves it by its flow's own result.
LEMMA CancelStep ==
    ASSUME IInv, NEW r \in RequestIds, Cancel(r)
    PROVE  TypeOK' /\ \A q \in RequestIds : LaterStep(q)
<1>1. TypeOK /\ req[r] \in Row /\ ckpt' = ckpt
  BY Zenon DEF IInv, QueueInv, TypeOK, Cancel
<1>2. SUFFICES /\ req' \in [RequestIds -> Row] /\ events' \in [RequestIds -> Seq(EventKinds)]
               /\ \A q \in RequestIds : LaterStep(q)
  BY <1>1, Zenon DEF TypeOK, Cancel
<1>3. CASE /\ req[r].state \in Active /\ FlowEnded(r)
           /\ Update(r, EndedByFlow(r), TerminalEvent(EndedByFlow(r).state))
  <2>1. Update(r, Finalized(req[r], ResolvedState(ckpt[r].phase), "flow"),
               TerminalEvent(ResolvedState(ckpt[r].phase)))
    BY <1>1, <1>3, EndedByFlowState, Zenon DEF EndedByFlow
  <2>2. req[r].state \in Unfinished /\ "flow" \in Results
    BY <1>3 DEF Unfinished, Results
  <2>3. ResolvedState(ckpt[r].phase) \in Terminal
    BY TerminalValues
  <2> QED BY <1>1, <1>3, <2>1, <2>2, <2>3, EndingRow, Zenon
<1>4. CASE /\ req[r].state = "queued"
           /\ Update(r, Finalized(req[r], "cancelled", "cancellation"), "cancelled")
  <2>1. req[r].state \in Unfinished /\ "cancellation" \in Results /\ "cancelled" \in Terminal
    BY <1>4 DEF Unfinished, Results, Terminal
  <2>2. ~HasTerminalFlow(r) /\ TerminalEvent("cancelled") = "cancelled"
    BY <1>4 DEF IInv, FlowInv, FlowOutcomeDecides, TerminalEvent
  <2> QED BY <1>1, <1>4, <2>1, <2>2, EndingRow, Zenon
<1>5. CASE /\ req[r].state = "leased" /\ ~FlowEnded(r)
           /\ Update(r, CancelMarked(req[r]), "cancellation_requested")
  <2>1. /\ req' \in [RequestIds -> Row] /\ events' \in [RequestIds -> Seq(EventKinds)]
        /\ req'[r] = CancelMarked(req[r])
        /\ events'[r] = Append(events[r], "cancellation_requested")
        /\ \A q \in RequestIds \ {r} : req'[q] = req[q] /\ events'[q] = events[q]
    BY <1>1, <1>5, CancelMarkedRow, EventKindMembers, UpdateEffect, ZenonT(40)
  <2>2. ~HasTerminalFlow(r)
    BY <1>5 DEF FlowEnded
  <2>3. Marked(r)
    BY <1>1, <1>5, <2>1, <2>2, CancelMarkedRow DEF Marked, SameIdentity, Moved
  <2>4. \A q \in RequestIds \ {r} : LaterStep(q)
    BY <1>1, <2>1, UnchangedIsQuiet, Zenon
  <2> QED BY <2>1, <2>3, <2>4, Zenon DEF LaterStep
<1> QED BY <1>3, <1>4, <1>5, Zenon DEF Cancel

\* The quarantine of a queued flow without authorization ends it as failed
\* (fail_corrupt_flow_authorization).
LEMMA FailCorruptStep ==
    ASSUME IInv, NEW r \in RequestIds, FailCorruptFlowAuthorization(r)
    PROVE  TypeOK' /\ \A q \in RequestIds : LaterStep(q)
<1>1. TypeOK /\ req[r].state = "queued" /\ ckpt' = ckpt
  BY Zenon DEF IInv, QueueInv, FailCorruptFlowAuthorization
<1>2. /\ req[r].state \in Unfinished /\ "failure" \in Results /\ "failed" \in Terminal
      /\ TerminalEvent("failed") = "failed" /\ req[r].state # "cancellation_requested"
  BY <1>1 DEF Unfinished, Results, Terminal, TerminalEvent
<1>3. ~HasTerminalFlow(r)
  BY <1>1, Zenon DEF IInv, FlowInv, FlowOutcomeDecides
<1>4. /\ req' \in [RequestIds -> Row] /\ events' \in [RequestIds -> Seq(EventKinds)]
      /\ \A q \in RequestIds : LaterStep(q)
  BY <1>1, <1>2, <1>3, EndingRow, Zenon DEF FailCorruptFlowAuthorization
<1> QED BY <1>1, <1>4, Zenon DEF TypeOK, FailCorruptFlowAuthorization

\* renew is quiet about every request.
LEMMA RenewStep ==
    ASSUME IInv, NEW h \in handles, Renew(h)
    PROVE  TypeOK' /\ \A q \in RequestIds : LaterStep(q)
<1> DEFINE r == h.request
<1>1. TypeOK /\ r \in RequestIds /\ req[r] \in Row /\ req[r].state \in Active
  BY Zenon DEF IInv, QueueInv, TypeOK, Handle, Renew, Live
<1> HIDE DEF r
<1>2. req' = [req EXCEPT ![r] = Renewed(req[r])] /\ events' = events /\ ckpt' = ckpt
  BY <1>1, Zenon DEF Renew, r, TypeOK
<1>3. /\ req' \in [RequestIds -> Row] /\ req'[r] = Renewed(req[r])
      /\ \A q \in RequestIds \ {r} : req'[q] = req[q]
  BY <1>1, <1>2, RenewedRow, Zenon DEF TypeOK
<1>4. Quiet(r)
  BY <1>1, <1>2, <1>3, RenewedRow, Zenon DEF Quiet, SameIdentity
<1>5. \A q \in RequestIds \ {r} : LaterStep(q)
  BY <1>2, <1>3, UnchangedIsQuiet, Zenon
<1>6. TypeOK'
  BY <1>1, <1>3, Zenon DEF TypeOK, Renew
<1> QED BY <1>4, <1>5, <1>6 DEF LaterStep

\* finish and finish_terminal_flow end the request of the lease they present.
LEMMA FinishStep ==
    ASSUME IInv, NEW h \in handles, Finish(h) \/ FinishTerminalFlow(h)
    PROVE  TypeOK' /\ \A q \in RequestIds : LaterStep(q)
<1> DEFINE r == h.request
<1>1. TypeOK /\ r \in RequestIds /\ req[r] \in Row /\ ckpt' = ckpt
  BY Zenon DEF IInv, QueueInv, TypeOK, Handle, Finish, FinishAs, FinishTerminalFlow
<1>2. req[r].state \in Active /\ req[r].state \in Unfinished
  BY Zenon DEF Finish, FinishAs, FinishTerminalFlow, Live, Unfinished
<1> HIDE DEF r
<1>3. SUFFICES /\ req' \in [RequestIds -> Row] /\ events' \in [RequestIds -> Seq(EventKinds)]
               /\ \A q \in RequestIds : LaterStep(q)
  BY <1>1, Zenon DEF TypeOK, Finish, FinishAs, FinishTerminalFlow
<1>4. ASSUME NEW s \in Terminal, NEW x \in Results, FinishAs(h, s, x), ~HasTerminalFlow(r)
      PROVE  /\ req' \in [RequestIds -> Row] /\ events' \in [RequestIds -> Seq(EventKinds)]
             /\ \A q \in RequestIds : LaterStep(q)
  <2>1. CASE req[r].state = "leased"
    <3>1. s \in States
      BY StateMembers
    <3>2. Finalized(req[r], s, x).state = s
      BY <1>1, <3>1, FinalizedRow
    <3>3. Update(r, Finalized(req[r], s, x), TerminalEvent(s))
      BY <1>4, <2>1, <3>2, Zenon DEF FinishAs, r
    <3>4. req[r].state # "cancellation_requested"
      BY <2>1
    <3> QED BY <1>1, <1>2, <1>4, <3>3, <3>4, EndingRow, Zenon
  <2>2. CASE req[r].state # "leased"
    <3>1. "cancelled" \in States /\ "cancelled" \in Terminal /\ req[r].result \in Results
      BY <1>1, Zenon DEF States, Terminal, Row
    <3>2. Finalized(req[r], "cancelled", req[r].result).state = "cancelled"
      BY <1>1, <3>1, FinalizedRow, ZenonT(40)
    <3>3. Update(r, Finalized(req[r], "cancelled", req[r].result), TerminalEvent("cancelled"))
      BY <1>4, <2>2, <3>2, Zenon DEF FinishAs, r
    <3> QED BY <1>1, <1>2, <1>4, <3>1, <3>3, EndingRow, Zenon
  <2> QED BY <2>1, <2>2, Zenon
<1>5. CASE Finish(h)
  <2>1. ~HasTerminalFlow(r) /\ (FinishAs(h, "succeeded", "success") \/ FinishAs(h, "failed", "failure"))
    BY <1>5, Zenon DEF Finish, r
  <2>2. {"succeeded", "failed"} \subseteq Terminal /\ {"success", "failure"} \subseteq Results
    BY Zenon DEF Terminal, Results
  <2> QED BY <1>4, <2>1, <2>2, Zenon
<1>6. CASE FinishTerminalFlow(h)
  <2>1. FlowEnded(r) /\ Update(r, EndedByFlow(r), TerminalEvent(EndedByFlow(r).state))
    BY <1>6 DEF FinishTerminalFlow, r
  <2>2. Update(r, Finalized(req[r], ResolvedState(ckpt[r].phase), "flow"),
               TerminalEvent(ResolvedState(ckpt[r].phase)))
    BY <1>1, <2>1, EndedByFlowState, Zenon DEF EndedByFlow
  <2>3. ResolvedState(ckpt[r].phase) \in Terminal /\ "flow" \in Results
    BY TerminalValues DEF Results
  <2> QED BY <1>1, <1>2, <2>1, <2>2, <2>3, EndingRow, Zenon
<1> QED BY <1>5, <1>6

\* The tags and the phases of the flow transitions.
LEMMA FlowStepValues ==
    ASSUME NEW s \in FlowSteps
    PROVE  /\ s[3] \in Phases /\ s[1] \notin Outcomes
           /\ s[3] = "blocked" \/ s[2] # "reconciliation_unknown"
BY DEF FlowSteps, Phases, Outcomes

\* save_flow_checkpoint records one transition of the flow and leaves the row alone.
LEMMA SaveStep ==
    ASSUME IInv, NEW h \in handles, NEW s \in FlowSteps, SaveCheckpoint(h, s[2], s[3])
    PROVE  TypeOK' /\ \A q \in RequestIds : LaterStep(q)
<1> DEFINE r == h.request
           new == [phase |-> s[3], override |-> TerminalOverride(r, s[2], s[3])]
<1>1. TypeOK /\ r \in RequestIds /\ req' = req
  BY Zenon DEF IInv, QueueInv, TypeOK, Handle, SaveCheckpoint
<1>2. /\ req[r].state \in Active /\ IsFlow(r)
      /\ ~(req[r].state = "cancellation_requested" /\ s[2] = "effect_started")
      /\ TerminalAllowed(r, s[2], s[3])
      /\ <<ckpt[r].phase, s[2], s[3]>> \in FlowSteps
      /\ ckpt' = [ckpt EXCEPT ![r] = new]
      /\ IF s[2] = "create" THEN UNCHANGED events ELSE AppendEvent(r, FlowEvent(s[2]))
  BY Zenon DEF SaveCheckpoint, Live
<1>3. new \in Checkpoint
  BY FlowStepValues, Zenon DEF Checkpoint, TerminalOverride
<1> HIDE DEF r, new
<1>4. ckpt' \in [RequestIds -> Checkpoint] /\ ckpt'[r] = new
      /\ \A q \in RequestIds \ {r} : ckpt'[q] = ckpt[q]
  BY <1>1, <1>2, <1>3, Zenon DEF TypeOK
<1>5. /\ events' \in [RequestIds -> Seq(EventKinds)]
      /\ events'[r] = IF s[2] = "create" THEN events[r] ELSE Append(events[r], FlowEvent(s[2]))
      /\ \A q \in RequestIds \ {r} : events'[q] = events[q]
  <2>1. CASE s[2] = "create"
    BY <1>1, <1>2, <2>1, Zenon DEF TypeOK
  <2>2. CASE s[2] # "create"
    <3>1. FlowEvent(s[2]) \in EventKinds
      BY EventKindMembers
    <3>2. events' = [events EXCEPT ![r] = Append(events[r], FlowEvent(s[2]))]
      BY <1>2, <2>2, Zenon DEF AppendEvent
    <3> QED BY <1>1, <2>2, <3>1, <3>2 DEF TypeOK
  <2> QED BY <2>1, <2>2, Zenon
<1>6. PICK t \in FlowSteps : t = <<ckpt[r].phase, s[2], s[3]>>
  BY <1>2, Zenon
<1>7. t[1] = ckpt[r].phase /\ t[2] = s[2] /\ t[3] = s[3]
  BY <1>6, Zenon
<1>8. Saved(r)
  BY <1>1, <1>2, <1>4, <1>5, <1>7, ZenonT(40) DEF Saved, new
<1>9. \A q \in RequestIds \ {r} : LaterStep(q)
  <2> TAKE q \in RequestIds \ {r}
  <2>1. req'[q] = req[q] /\ events'[q] = events[q] /\ ckpt'[q] = ckpt[q]
    BY <1>1, <1>4, <1>5, Zenon
  <2> QED BY <2>1, UnchangedIsQuiet, Zenon
<1>10. TypeOK'
  BY <1>1, <1>4, <1>5, Zenon DEF TypeOK, SaveCheckpoint
<1> QED BY <1>8, <1>9, <1>10, Zenon DEF LaterStep

\* Every step keeps the types, and is for each request a step of its life; only
\* acceptance and claim do more than that.
LEMMA StepShape ==
    ASSUME IInv, [Next]_vars
    PROVE  /\ TypeOK' /\ \A q \in RequestIds : RowStep(q)
           /\ \/ nextSeq' = nextSeq /\ \A q \in RequestIds : LaterStep(q)
              \/ \E r \in RequestIds : Claim(r)
              \/ \E r \in RequestIds, p \in Projects, k \in Keys, o \in Ops : Accept(r, p, k, o)
<1> DEFINE Later == nextSeq' = nextSeq /\ TypeOK' /\ \A q \in RequestIds : LaterStep(q)
<1>1. TypeOK
  BY DEF IInv, QueueInv
<1>2. CASE UNCHANGED vars
  <2>1. Later
    BY <1>1, <1>2, UnchangedIsQuiet, Zenon DEF vars, TypeOK
  <2> QED BY <2>1 DEF RowStep
<1>3. CASE \E r \in RequestIds, p \in Projects, k \in Keys, o \in Ops : Accept(r, p, k, o)
  BY <1>3, AcceptStep, Zenon
<1>4. CASE \E r \in RequestIds : Claim(r)
  BY <1>4, ClaimStep, Zenon
<1>5. ASSUME NEW r \in RequestIds, Cancel(r) \/ FailCorruptFlowAuthorization(r)
      PROVE  Later
  BY <1>5, CancelStep, FailCorruptStep, Zenon DEF Cancel, FailCorruptFlowAuthorization
<1>6. ASSUME NEW h \in handles, Renew(h) \/ Finish(h) \/ FinishTerminalFlow(h)
      PROVE  Later
  BY <1>6, RenewStep, FinishStep, Zenon DEF Renew, Finish, FinishAs, FinishTerminalFlow
<1>7. ASSUME NEW h \in handles, NEW s \in FlowSteps, SaveCheckpoint(h, s[2], s[3])
      PROVE  Later
  BY <1>7, SaveStep, Zenon DEF SaveCheckpoint
<1>8. ASSUME RecoverExpired PROVE Later
  <2>1. ExpiredLeases \in SUBSET ActiveLeases /\ handles' \subseteq handles
    BY <1>8, Zenon DEF ExpiredLeases, RecoverExpired
  <2> QED BY <1>8, <2>1, RecoverStep, Zenon DEF RecoverExpired, RecoverLeases
<1>9. ASSUME Restart PROVE Later
  <2>1. ActiveLeases \in SUBSET ActiveLeases /\ handles' \subseteq handles
    BY <1>9 DEF Restart
  <2> QED BY <1>9, <2>1, RecoverStep, Zenon DEF Restart, RecoverLeases
<1>10. ASSUME ResetAccess PROVE Later
  BY <1>1, <1>10, UnchangedIsQuiet, Zenon DEF ResetAccess, TypeOK
<1>11. ASSUME ResetHistory PROVE Later
  <2>1. NoCheckpoint \in Checkpoint
    BY DEF NoCheckpoint, Checkpoint, Phases
  <2>2. ckpt' \in [RequestIds -> Checkpoint] /\ \A q \in RequestIds : ckpt'[q] = NoCheckpoint
    BY <1>11, <2>1 DEF ResetHistory
  <2> QED BY <1>1, <1>11, <2>2, UnchangedIsQuiet, Zenon DEF ResetHistory, TypeOK
<1>12. ASSUME NEW t \in 0 .. MaxTime, SetClock(t)
       PROVE  Later
  BY <1>1, <1>12, UnchangedIsQuiet, StoreAssumption DEF SetClock, TypeOK
<1> HIDE DEF Later
<1>13. CASE Later
  BY <1>13, Zenon DEF Later, RowStep
<1> QED BY <1>2, <1>3, <1>4, <1>5, <1>6, <1>7, <1>8, <1>9, <1>10, <1>11, <1>12, <1>13, Zenon DEF Next

-----------------------------------------------------------------------------
(* Every transaction of the store keeps the queue part of the inductive
   invariant: one lease per project, service in order, one request per key. *)

\* A step that neither accepts nor claims keeps the identity of every row, makes
\* no row active and leaves finished and absent ones alone.
LEMMA LaterFacts ==
    ASSUME IInv, NEW r \in RequestIds, LaterStep(r)
    PROVE  /\ SameIdentity(r) /\ req'[r].attempt = req[r].attempt
           /\ req'[r].state \in Active => req[r].state \in Active
           /\ req'[r].state = "cancellation_requested" => req'[r].result = "cancellation"
           /\ req[r].state = "absent" <=> req'[r].state = "absent"
           /\ req[r].state = "absent" => req'[r] = NoRow /\ events'[r] = <<>> /\ ckpt'[r] = NoCheckpoint
           /\ req[r].state \in Terminal => req'[r] = req[r] /\ events'[r] = events[r]
<1>1. /\ req[r].state = "absent" => req[r] = NoRow /\ events[r] = <<>> /\ ckpt[r] = NoCheckpoint
      /\ req[r].state = "cancellation_requested" => req[r].result = "cancellation"
  BY DEF IInv, QueueInv, RowShape, RowShapeOf
<1> USE DEF Active, Terminal, Unfinished
<1>2. CASE Quiet(r)
  BY <1>1, <1>2 DEF Quiet
<1>3. CASE Released(r) \/ Marked(r)
  BY <1>1, <1>3, Zenon DEF Released, Marked
<1>4. CASE Ended(r)
  BY <1>1, <1>4 DEF Ended
<1>5. CASE Saved(r)
  BY <1>1, <1>5, Zenon DEF Saved, SameIdentity
<1> QED BY <1>2, <1>3, <1>4, <1>5 DEF LaterStep

\* A step that neither accepts nor claims keeps the queue part of the invariant.
LEMMA LaterKeepsQueue ==
    ASSUME IInv, TypeOK', nextSeq' = nextSeq, \A q \in RequestIds : LaterStep(q)
    PROVE  QueueInv'
<1>1. \A r \in RequestIds :
        /\ SameIdentity(r) /\ req'[r].attempt = req[r].attempt
        /\ req'[r].state \in Active => req[r].state \in Active
        /\ req'[r].state = "cancellation_requested" => req'[r].result = "cancellation"
        /\ req[r].state = "absent" <=> req'[r].state = "absent"
        /\ req[r].state = "absent" => req'[r] = NoRow /\ events'[r] = <<>> /\ ckpt'[r] = NoCheckpoint
        /\ req[r].state \in Terminal => req'[r] = req[r]
  BY LaterFacts
<1>2. \A r, q \in RequestIds : SameProject(r, q)' <=> SameProject(r, q)
  BY <1>1, Zenon DEF SameProject, SameIdentity
<1>3. RowShape'
  <2> SUFFICES ASSUME NEW r \in RequestIds PROVE RowShapeOf(r)'
    BY DEF RowShape
  <2>1. RowShapeOf(r)
    BY DEF IInv, QueueInv, RowShape
  <2> QED BY <1>1, <2>1 DEF RowShapeOf, SameIdentity
<1>4. IdempotentAcceptance'
  <2>1. IdempotentAcceptance /\ \A r \in RequestIds : SameIdentity(r)
    BY <1>1 DEF IInv, QueueInv
  <2> QED BY <1>2, <2>1 DEF IdempotentAcceptance, SameIdentity
<1>5. OneActiveLeasePerProject'
  BY <1>1, <1>2, Zenon DEF IInv, QueueInv, OneActiveLeasePerProject, ActiveLeases
<1>6. StartedInOrder'
  BY <1>1, <1>2 DEF IInv, QueueInv, StartedInOrder, SameIdentity
<1> QED BY <1>3, <1>4, <1>5, <1>6 DEF QueueInv

\* A claim takes the first unfinished request of a project without a lease.
LEMMA ClaimKeepsQueue ==
    ASSUME IInv, NEW r \in RequestIds, Claim(r)
    PROVE  QueueInv'
<1>1. /\ TypeOK /\ TypeOK' /\ Started(r) /\ Eligible(r)
      /\ nextSeq' = nextSeq /\ ckpt' = ckpt
      /\ \A q \in RequestIds \ {r} : req'[q] = req[q]
  BY ClaimStep, Zenon DEF IInv, QueueInv, Claim, Candidate
<1>2. /\ SameIdentity(r) /\ req[r].state = "queued" /\ req'[r].state = "leased"
      /\ req'[r].attempt = req[r].attempt + 1 /\ req[r].attempt \in Nat /\ req[r].seq \in Nat
  BY <1>1, Zenon DEF Started, TypeOK, Row
<1>3. \A q \in RequestIds \ {r} : events'[q] = events[q]
  BY <1>1 DEF Claim, Update, AppendEvent, TypeOK
<1>4. \A q \in RequestIds : SameIdentity(q) /\ (req'[q].state = "absent" <=> req[q].state = "absent")
  <2> SUFFICES ASSUME NEW q \in RequestIds
               PROVE  SameIdentity(q) /\ (req'[q].state = "absent" <=> req[q].state = "absent")
    OBVIOUS
  <2>1. CASE q = r
    BY <1>2, <2>1, Zenon
  <2>2. CASE q # r
    <3>1. req'[q] = req[q]
      BY <1>1, <2>2
    <3> QED BY <3>1 DEF SameIdentity
  <2> QED BY <2>1, <2>2
<1>5. \A q, z \in RequestIds : SameProject(q, z)' <=> SameProject(q, z)
  BY <1>4 DEF SameProject, SameIdentity
<1>6. RowShape'
  <2> SUFFICES ASSUME NEW q \in RequestIds PROVE RowShapeOf(q)'
    BY DEF RowShape
  <2>1. RowShapeOf(q)
    BY DEF IInv, QueueInv, RowShape
  <2>2. CASE q = r
    BY <1>1, <1>2, <2>1, <2>2 DEF RowShapeOf, SameIdentity, Active
  <2>3. CASE q # r
    <3>1. req'[q] = req[q] /\ events'[q] = events[q] /\ ckpt' = ckpt /\ nextSeq' = nextSeq
      BY <1>1, <1>3, <2>3
    <3> QED BY <2>1, <3>1, Zenon DEF RowShapeOf
  <2> QED BY <2>2, <2>3
<1>7. IdempotentAcceptance'
  <2>1. IdempotentAcceptance
    BY DEF IInv, QueueInv
  <2> QED BY <1>4, <1>5, <2>1 DEF IdempotentAcceptance, SameIdentity
<1>8. \A q \in RequestIds : SameProject(q, r) \/ SameProject(r, q) => req[q].state \notin Active
  BY <1>1 DEF Eligible, SameProject
<1>9. OneActiveLeasePerProject'
  BY <1>1, <1>2, <1>5, <1>8 DEF IInv, QueueInv, OneActiveLeasePerProject, ActiveLeases
<1>10. StartedInOrder'
  <2> SUFFICES ASSUME NEW q \in RequestIds, NEW z \in RequestIds, SameProject(q, z),
                      req'[z].attempt > 0, req'[q].seq < req'[z].seq
               PROVE  req'[q].state \in Terminal
    BY <1>5 DEF StartedInOrder
  <2>1. CASE z = r
    <3>1. req[q] \in Row /\ req[q].seq \in Nat /\ req[q].state \in States
      BY <1>1, Zenon DEF TypeOK, Row
    <3>2. req'[z].seq = req[r].seq
      BY <1>2, <2>1, Zenon DEF SameIdentity
    <3>3. q # r
      BY <1>2, <3>2, <2>1
    <3>4. req'[q] = req[q] /\ req[q].seq < req[r].seq
      BY <1>1, <3>2, <3>3
    <3>5. req[q].project = req[r].project /\ req[q].state # "absent"
      BY <2>1 DEF SameProject
    <3>6. req[q].state \notin Unfinished
      <4>1. req[q].state \in Unfinished => req[q].seq >= req[r].seq
        BY <1>1, <3>5 DEF Eligible
      <4> QED BY <1>2, <3>1, <3>4, <4>1
    <3> QED BY <3>1, <3>4, <3>5, <3>6 DEF States, Unfinished, Active, Terminal
  <2>2. CASE z # r
    <3>1. req[q].state \in Terminal
      BY <1>1, <1>2, <2>2, Zenon DEF IInv, QueueInv, StartedInOrder, SameIdentity
    <3> QED BY <1>1, <1>2, <3>1 DEF Terminal
  <2> QED BY <2>1, <2>2
<1> QED BY <1>1, <1>6, <1>7, <1>9, <1>10 DEF QueueInv

\* Acceptance adds a row with a new key at the end of its project's queue.
LEMMA AcceptKeepsQueue ==
    ASSUME IInv, NEW r \in RequestIds, NEW p \in Projects, NEW k \in Keys, NEW o \in Ops,
           Accept(r, p, k, o)
    PROVE  QueueInv'
<1>1. TypeOK /\ TypeOK' /\ RowShape /\ \A q \in RequestIds \ {r} : req'[q] = req[q]
  BY AcceptStep DEF IInv, QueueInv
<1>2. /\ \A q \in RequestIds \ {r} : events'[q] = events[q]
      /\ ckpt' = ckpt /\ req[r].state = "absent" /\ nextSeq' = [nextSeq EXCEPT ![p] = @ + 1]
  BY <1>1 DEF Accept, Update, AppendEvent, TypeOK
<1>3. /\ req'[r].state = "queued" /\ req'[r].project = p /\ req'[r].key = k /\ req'[r].op = o
      /\ req'[r].seq = nextSeq[p] /\ req'[r].attempt = 0
  <2>1. 1 + RowCount \in Nat
    BY RowCountType
  <2>2. req'[r] = NewRow(p, k, o, nextSeq[p], 1 + RowCount)
    BY AcceptStep, Zenon
  <2>3. nextSeq[p] \in Nat
    BY <1>1 DEF TypeOK
  <2>4. LET new == NewRow(p, k, o, nextSeq[p], 1 + RowCount) IN
        /\ new.state = "queued" /\ new.project = p /\ new.key = k /\ new.op = o
        /\ new.seq = nextSeq[p] /\ new.attempt = 0
    BY <1>1, <2>1, <2>3, NewRowOperator
  <2> QED BY <2>2, <2>4, Zenon
<1>4. \A x \in Projects : nextSeq'[x] >= nextSeq[x] /\ nextSeq[x] \in Nat /\ nextSeq'[x] \in Nat
  BY <1>1, <1>2 DEF TypeOK
<1>5. nextSeq[p] \in Nat /\ nextSeq'[p] = nextSeq[p] + 1
  BY <1>1, <1>2, Zenon DEF TypeOK
<1>6. ASSUME NEW q \in RequestIds
      PROVE  req[q].seq \in Nat /\ RowShapeOf(q) /\ (req[q].project = p => req[q].state # "absent")
  <2>1. req[q].seq \in Nat
    BY <1>1, Zenon DEF TypeOK, Row
  <2>2. RowShapeOf(q)
    BY <1>1 DEF RowShape
  <2>3. req[q].state = "absent" => req[q].project = None
    BY <2>2 DEF RowShapeOf, NoRow
  <2>4. p # None
    BY StoreAssumption, Zenon
  <2> QED BY <2>1, <2>2, <2>3, <2>4, Zenon
<1>7. ASSUME NEW q \in RequestIds, q # r, req'[q].project = p
      PROVE  req'[q].key # k /\ req'[q].seq # nextSeq[p] /\ ~(nextSeq[p] < req'[q].seq)
  <2>1. req'[q] = req[q]
    BY <1>1, <1>7, Zenon
  <2>2. req[q].key # k
    BY <1>7, <2>1, Zenon DEF Accept, Accepted
  <2>3. req[q].seq < nextSeq[p]
    BY <1>6, <1>7, <2>1, Zenon DEF RowShapeOf
  <2>4. req[q].seq \in Nat
    BY <1>6
  <2> QED BY <1>5, <2>1, <2>2, <2>3, <2>4
<1>8. RowShape'
  <2> SUFFICES ASSUME NEW q \in RequestIds PROVE RowShapeOf(q)'
    BY DEF RowShape
  <2>1. CASE q = r
    <3>1. nextSeq[p] < nextSeq'[p] /\ "queued" \notin Active
      BY <1>5 DEF Active
    <3> QED BY <1>3, <2>1, <3>1, Zenon DEF RowShapeOf
  <2>2. CASE q # r
    <3>1. req'[q] = req[q] /\ events'[q] = events[q] /\ ckpt'[q] = ckpt[q]
      BY <1>1, <1>2, <2>2, Zenon
    <3>2. RowShapeOf(q) /\ req[q].seq \in Nat
      BY <1>6, Zenon
    <3>3. req[q].project \in Projects /\ req[q].seq < nextSeq[req[q].project] =>
            req[q].seq < nextSeq'[req[q].project]
      BY <1>4, <3>2
    <3> QED BY <3>1, <3>2, <3>3, Zenon DEF RowShapeOf
  <2> QED BY <2>1, <2>2
<1>9. IdempotentAcceptance'
  <2> SUFFICES ASSUME NEW x \in RequestIds, NEW y \in RequestIds, SameProject(x, y)', x # y
               PROVE  req'[x].key # req'[y].key /\ req'[x].seq # req'[y].seq
    BY Zenon DEF IdempotentAcceptance
  <2>1. req'[x].project = req'[y].project /\ req'[x].state # "absent"
    BY DEF SameProject
  <2>2. CASE x = r
    BY <1>3, <1>7, <2>1, <2>2, Zenon
  <2>3. CASE y = r
    BY <1>3, <1>7, <2>1, <2>3, Zenon
  <2>4. CASE x # r /\ y # r
    <3>1. req'[x] = req[x] /\ req'[y] = req[y] /\ IdempotentAcceptance
      BY <1>1, <2>4, Zenon DEF IInv, QueueInv
    <3> QED BY <2>1, <3>1, Zenon DEF IdempotentAcceptance, SameProject
  <2> QED BY <2>2, <2>3, <2>4
<1>10. OneActiveLeasePerProject'
  <2> SUFFICES ASSUME NEW x \in RequestIds, NEW y \in RequestIds, SameProject(x, y)',
                      req'[x].state \in Active, req'[y].state \in Active
               PROVE  x = y
    BY DEF OneActiveLeasePerProject, ActiveLeases
  <2>1. x # r /\ y # r
    BY <1>3, Zenon DEF Active
  <2>2. req'[x] = req[x] /\ req'[y] = req[y] /\ OneActiveLeasePerProject
    BY <1>1, <2>1, Zenon DEF IInv, QueueInv
  <2> QED BY <2>2, Zenon DEF OneActiveLeasePerProject, ActiveLeases, SameProject
<1>11. StartedInOrder'
  <2> SUFFICES ASSUME NEW x \in RequestIds, NEW y \in RequestIds, SameProject(x, y)',
                      req'[y].attempt > 0, req'[x].seq < req'[y].seq
               PROVE  req'[x].state \in Terminal
    BY Zenon DEF StartedInOrder
  <2>1. y # r
    BY <1>3
  <2>2. req'[x].project = req'[y].project
    BY DEF SameProject
  <2>3. x # r
    BY <1>3, <1>7, <2>1, <2>2, Zenon
  <2>4. req'[x] = req[x] /\ req'[y] = req[y] /\ StartedInOrder
    BY <1>1, <2>1, <2>3, Zenon DEF IInv, QueueInv
  <2> QED BY <2>4, Zenon DEF StartedInOrder, SameProject
<1> QED BY <1>1, <1>8, <1>9, <1>10, <1>11 DEF QueueInv

-----------------------------------------------------------------------------
(* Every transaction of the store keeps the flow part of the inductive
   invariant, and the theorems about the store that follow from the whole. *)

\* The flow part of the invariant speaks of one request at a time.
FlowInvOf(r) ==
    /\ ckpt[r].override => ckpt[r].phase = "blocked" /\ IsFlow(r)
    /\ HasTerminalFlow(r) /\ req[r].state = "cancellation_requested" => MayOverrideCancellation(r)
    /\ req[r].state = "cancellation_requested" /\ ckpt[r].override =>
         Len(events[r]) > 0 /\ events[r][Len(events[r])] = "flow_reconciliation_unknown"
    /\ \A i \in 1 .. Len(events[r]) : events[r][i] = "cancellation_requested" =>
         req[r].state \in {"cancellation_requested"} \cup Terminal
    /\ \A i \in 1 .. Len(events[r]) :
         events[r][i] \in TerminalEvents => i = Len(events[r]) /\ req[r].state \in Terminal
    /\ req[r].state \in Terminal =>
         Len(events[r]) > 0 /\ events[r][Len(events[r])] = TerminalEvent(req[r].state)
    /\ \A i, j \in 1 .. Len(events[r]) :
         events[r][i] = "cancellation_requested" /\ events[r][j] = "flow_effect_started" => j < i
    /\ HasTerminalFlow(r) =>
         /\ req[r].state # "queued"
         /\ req[r].state \in Terminal =>
              req[r].state = ResolvedState(ckpt[r].phase) /\ req[r].result = "flow"
    /\ \A i \in 1 .. Len(events[r]) :
         events[r][i] = "cancellation_requested" /\ req[r].state \in Terminal =>
           \/ req[r].state = "cancelled"
           \/ /\ req[r].state = "failed" /\ req[r].result = "flow"
              /\ events[r][Len(events[r]) - 1] = "flow_reconciliation_unknown"

\* The flow part of the invariant is that of every request.
LEMMA FlowInvPerRequest == FlowInv <=> \A r \in RequestIds : FlowInvOf(r)
<1>1. FlowInv => \A r \in RequestIds : FlowInvOf(r)
  BY Zenon DEF FlowInv, FlowShape, CancellationIsKept, OneTerminalEvent, NoEffectAfterCancellation,
         FlowOutcomeDecides, AcknowledgedCancellationStands, FlowInvOf
<1>2. (\A r \in RequestIds : FlowInvOf(r)) => FlowInv
  BY Zenon DEF FlowInv, FlowShape, CancellationIsKept, OneTerminalEvent, NoEffectAfterCancellation,
         FlowOutcomeDecides, AcknowledgedCancellationStands, FlowInvOf
<1> QED BY <1>1, <1>2

\* What appending an event does to the event log of a request.
LEMMA AppendFacts ==
    ASSUME NEW e \in Seq(EventKinds), NEW kind \in EventKinds, NEW f, f = Append(e, kind)
    PROVE  /\ Len(e) \in Nat /\ Len(f) = Len(e) + 1
           /\ \A i \in 1 .. Len(e) : f[i] = e[i]
           /\ f[Len(e) + 1] = kind
           /\ \A i \in 1 .. Len(f) : \/ i \in 1 .. Len(e) /\ f[i] = e[i]
                                     \/ i = Len(e) + 1 /\ f[i] = kind
<1>1. /\ Len(e) \in Nat /\ Len(f) = Len(e) + 1
      /\ \A i \in 1 .. Len(e) : f[i] = e[i]
      /\ f[Len(e) + 1] = kind
  OBVIOUS
<1>2. \A i \in 1 .. Len(e) + 1 : i \in 1 .. Len(e) \/ i = Len(e) + 1
  BY <1>1
<1> QED BY <1>1, <1>2

\* The history of a request that is not finished has no terminal event, and a
\* cancellation only if the request is marked.
LEMMA OpenHistory ==
    ASSUME NEW r \in RequestIds, FlowInvOf(r), req[r].state \notin Terminal
    PROVE  \A i \in 1 .. Len(events[r]) :
             /\ events[r][i] \notin TerminalEvents
             /\ events[r][i] = "cancellation_requested" => req[r].state = "cancellation_requested"
BY Zenon DEF FlowInvOf

\* A quiet step keeps the flow part, also when a reset deletes the checkpoint
\* (reset_history).
LEMMA QuietKeepsFlow ==
    ASSUME IInv, TypeOK', NEW r \in RequestIds, FlowInvOf(r), Quiet(r)
    PROVE  FlowInvOf(r)'
<1>1. /\ req'[r].state = req[r].state /\ req'[r].result = req[r].result /\ req'[r].op = req[r].op
      /\ events'[r] = events[r]
  BY DEF Quiet, SameIdentity
<1>2. CASE ckpt'[r] = ckpt[r]
  <2>1. /\ HasTerminalFlow(r)' <=> HasTerminalFlow(r)
        /\ MayOverrideCancellation(r)' <=> MayOverrideCancellation(r)
        /\ IsFlow(r)' <=> IsFlow(r)
    BY <1>1, <1>2 DEF HasTerminalFlow, MayOverrideCancellation, IsFlow
  <2> QED BY <1>1, <1>2, <2>1, ZenonT(40) DEF FlowInvOf
<1>3. CASE ckpt'[r] = NoCheckpoint
  <2>1. ckpt'[r].override = FALSE /\ ckpt'[r].phase \notin Outcomes
    BY <1>3 DEF NoCheckpoint, Outcomes
  <2> QED BY <1>1, <2>1, ZenonT(40) DEF FlowInvOf, HasTerminalFlow
<1> QED BY <1>2, <1>3 DEF Quiet

\* A move that appends an event which is neither terminal nor an effect start.
LEMMA StartedOrReleasedKeepsFlow ==
    ASSUME IInv, TypeOK', NEW r \in RequestIds, FlowInvOf(r),
           Created(r) \/ Started(r) \/ Released(r)
    PROVE  FlowInvOf(r)'
<1>1. PICK kind \in {"accepted", "started", "lease_expired"} :
        /\ events'[r] = Append(events[r], kind) /\ ckpt'[r] = ckpt[r]
  BY Zenon DEF Created, Started, Released, Moved
<1>2. events[r] \in Seq(EventKinds) /\ kind \in EventKinds
  BY EventKindMembers DEF IInv, QueueInv, TypeOK
<1>3. /\ Len(events[r]) \in Nat /\ Len(events'[r]) = Len(events[r]) + 1
      /\ \A i \in 1 .. Len(events[r]) : events'[r][i] = events[r][i]
      /\ events'[r][Len(events[r]) + 1] = kind
      /\ \A i \in 1 .. Len(events'[r]) :
           \/ i \in 1 .. Len(events[r]) /\ events'[r][i] = events[r][i]
           \/ i = Len(events[r]) + 1 /\ events'[r][i] = kind
  BY <1>1, <1>2, AppendFacts
<1>4. /\ req[r].state \in {"absent", "queued", "leased"} /\ req'[r].state \in {"queued", "leased"}
      /\ kind \notin TerminalEvents \cup {"cancellation_requested", "flow_effect_started"}
  BY <1>1 DEF Created, Started, Released, TerminalEvents
<1>5. HasTerminalFlow(r)' => req'[r].state # "queued"
  <2>1. CASE Created(r)
    <3>1. ckpt[r] = NoCheckpoint
      BY <2>1 DEF Created, IInv, QueueInv, RowShape, RowShapeOf
    <3> QED BY <1>1, <3>1 DEF HasTerminalFlow, NoCheckpoint, Outcomes
  <2>2. CASE Started(r)
    BY <2>2 DEF Started
  <2>3. CASE Released(r)
    BY <1>1, <2>3, Zenon DEF Released, HasTerminalFlow, IsFlow, SameIdentity
  <2> QED BY <2>1, <2>2, <2>3
<1>6. \A i \in 1 .. Len(events'[r]) :
        /\ events'[r][i] \notin TerminalEvents
        /\ events'[r][i] # "cancellation_requested"
  <2>1. req[r].state \notin Terminal /\ req[r].state # "cancellation_requested"
    BY <1>4 DEF Terminal
  <2>2. \A i \in 1 .. Len(events[r]) :
          events[r][i] \notin TerminalEvents /\ events[r][i] # "cancellation_requested"
    BY <2>1, OpenHistory
  <2> QED BY <1>3, <1>4, <2>2, Zenon
<1>7. ckpt'[r].override => IsFlow(r)'
  <2>1. CASE Created(r)
    <3>1. ckpt[r] = NoCheckpoint
      BY <2>1 DEF Created, IInv, QueueInv, RowShape, RowShapeOf
    <3> QED BY <1>1, <3>1 DEF NoCheckpoint
  <2>2. CASE Started(r) \/ Released(r)
    BY <1>1, <2>2, Zenon DEF Started, Released, SameIdentity, FlowInvOf, IsFlow
  <2> QED BY <2>1, <2>2
<1> QED BY <1>1, <1>4, <1>5, <1>6, <1>7, Zenon DEF FlowInvOf, Terminal

\* Acknowledging a cancellation keeps the flow part: no effect start follows it.
LEMMA MarkedKeepsFlow ==
    ASSUME IInv, TypeOK', NEW r \in RequestIds, FlowInvOf(r), Marked(r)
    PROVE  FlowInvOf(r)'
<1>1. /\ events'[r] = Append(events[r], "cancellation_requested") /\ ckpt'[r] = ckpt[r]
      /\ req[r].state = "leased" /\ req'[r].state = "cancellation_requested"
      /\ req'[r].op = req[r].op /\ ~HasTerminalFlow(r)
  BY DEF Marked, Moved, SameIdentity
<1>2. events[r] \in Seq(EventKinds) /\ "cancellation_requested" \in EventKinds
  BY EventKindMembers DEF IInv, QueueInv, TypeOK
<1>3. /\ Len(events[r]) \in Nat /\ Len(events'[r]) = Len(events[r]) + 1
      /\ \A i \in 1 .. Len(events[r]) : events'[r][i] = events[r][i]
      /\ events'[r][Len(events[r]) + 1] = "cancellation_requested"
      /\ \A i \in 1 .. Len(events'[r]) :
           \/ i \in 1 .. Len(events[r]) /\ events'[r][i] = events[r][i]
           \/ i = Len(events[r]) + 1 /\ events'[r][i] = "cancellation_requested"
  BY <1>1, <1>2, AppendFacts
<1>4. ~HasTerminalFlow(r)'
  BY <1>1 DEF HasTerminalFlow, IsFlow
<1>5. ~ckpt[r].override
  BY <1>1, Zenon DEF FlowInvOf, HasTerminalFlow, Outcomes
<1>6. \A i \in 1 .. Len(events'[r]) : events'[r][i] \notin TerminalEvents
  <2>1. req[r].state \notin Terminal /\ "cancellation_requested" \notin TerminalEvents
    BY <1>1 DEF Terminal, TerminalEvents
  <2>2. \A i \in 1 .. Len(events[r]) : events[r][i] \notin TerminalEvents
    BY <2>1, OpenHistory, Zenon
  <2> QED BY <1>3, <2>1, <2>2, Zenon
<1>7. \A i, j \in 1 .. Len(events'[r]) :
        events'[r][i] = "cancellation_requested" /\ events'[r][j] = "flow_effect_started" => j < i
  <2>1. \A i \in 1 .. Len(events[r]) : events[r][i] # "cancellation_requested"
    BY <1>1, Zenon DEF FlowInvOf, Terminal
  <2> SUFFICES ASSUME NEW i \in 1 .. Len(events'[r]), NEW j \in 1 .. Len(events'[r]),
                      events'[r][i] = "cancellation_requested",
                      events'[r][j] = "flow_effect_started"
               PROVE  j < i
    BY Zenon
  <2>2. i = Len(events[r]) + 1 /\ j \in 1 .. Len(events[r])
    BY <1>3, <2>1, Zenon
  <2> QED BY <1>3, <2>2
<1> QED BY <1>1, <1>4, <1>5, <1>6, <1>7, Zenon DEF FlowInvOf, Terminal

\* Ending a request keeps the flow part: the terminal event is the last, and an
\* acknowledged cancellation gives way only to an unknown reconciliation.
LEMMA EndedKeepsFlow ==
    ASSUME IInv, TypeOK', NEW r \in RequestIds, FlowInvOf(r), Ended(r)
    PROVE  FlowInvOf(r)'
<1> DEFINE e == TerminalEvent(req'[r].state)
<1>1. /\ events'[r] = Append(events[r], e) /\ ckpt'[r] = ckpt[r]
      /\ req[r].state \in Unfinished /\ req'[r].state \in Terminal
      /\ req'[r].op = req[r].op
      /\ HasTerminalFlow(r) => req'[r].state = ResolvedState(ckpt[r].phase) /\ req'[r].result = "flow"
      /\ req[r].state = "cancellation_requested" => req'[r].state = "cancelled" \/ FlowEnded(r)
  BY Zenon DEF Ended, Moved, SameIdentity
<1>2. events[r] \in Seq(EventKinds) /\ e \in EventKinds /\ e \in TerminalEvents
  BY EventKindMembers, TerminalValues, Zenon DEF IInv, QueueInv, TypeOK
<1> HIDE DEF e
<1>3. /\ Len(events[r]) \in Nat /\ Len(events'[r]) = Len(events[r]) + 1
      /\ \A i \in 1 .. Len(events[r]) : events'[r][i] = events[r][i]
      /\ events'[r][Len(events[r]) + 1] = e
      /\ \A i \in 1 .. Len(events'[r]) :
           \/ i \in 1 .. Len(events[r]) /\ events'[r][i] = events[r][i]
           \/ i = Len(events[r]) + 1 /\ events'[r][i] = e
  BY <1>1, <1>2, AppendFacts
<1>4. /\ req[r].state \notin Terminal /\ req'[r].state # "cancellation_requested"
      /\ req'[r].state # "queued"
  BY <1>1, Zenon DEF Terminal, Unfinished, Active
<1>5. HasTerminalFlow(r)' <=> HasTerminalFlow(r)
  BY <1>1, Zenon DEF HasTerminalFlow, IsFlow
<1>6. ASSUME NEW i \in 1 .. Len(events'[r])
      PROVE  events'[r][i] \in TerminalEvents => i = Len(events'[r])
  <2>1. CASE i = Len(events'[r])
    BY <1>1, <1>2, <1>3, <2>1, Zenon
  <2>2. CASE i # Len(events'[r])
    <3>1. i \in 1 .. Len(events[r])
      BY <1>3, <2>2, Zenon
    <3> QED BY <1>3, <1>4, <2>2, <3>1, Zenon DEF FlowInvOf
  <2> QED BY <2>1, <2>2, Zenon
<1>7. e # "cancellation_requested" /\ e # "flow_effect_started"
  BY <1>2, Zenon DEF TerminalEvents
<1>8. \A i, j \in 1 .. Len(events'[r]) :
        events'[r][i] = "cancellation_requested" /\ events'[r][j] = "flow_effect_started" => j < i
  <2> SUFFICES ASSUME NEW i \in 1 .. Len(events'[r]), NEW j \in 1 .. Len(events'[r]),
                      events'[r][i] = "cancellation_requested", events'[r][j] = "flow_effect_started"
               PROVE  j < i
    BY Zenon
  <2>1. /\ i \in 1 .. Len(events[r]) /\ events[r][i] = "cancellation_requested"
        /\ j \in 1 .. Len(events[r]) /\ events[r][j] = "flow_effect_started"
    BY <1>3, <1>7, Zenon
  <2> QED BY <2>1, Zenon DEF FlowInvOf
<1>9. ASSUME NEW i \in 1 .. Len(events'[r]), events'[r][i] = "cancellation_requested"
      PROVE  \/ req'[r].state = "cancelled"
             \/ /\ req'[r].state = "failed" /\ req'[r].result = "flow"
                /\ events'[r][Len(events'[r]) - 1] = "flow_reconciliation_unknown"
  <2>1. i \in 1 .. Len(events[r]) /\ events[r][i] = "cancellation_requested"
    BY <1>3, <1>7, <1>9, Zenon
  <2>2. req[r].state = "cancellation_requested"
    BY <1>4, <2>1, Zenon DEF FlowInvOf
  <2>3. CASE req'[r].state # "cancelled"
    <3>1. HasTerminalFlow(r) /\ MayOverrideCancellation(r)
      BY <1>1, <2>2, <2>3, Zenon DEF FlowEnded
    <3>2. ckpt[r].phase = "blocked" /\ ckpt[r].override
      BY <1>1, <2>3, <3>1, Zenon DEF MayOverrideCancellation, ResolvedState
    <3>3. req'[r].state = "failed" /\ req'[r].result = "flow"
      BY <1>1, <3>1, <3>2, Zenon DEF ResolvedState
    <3>4. Len(events[r]) > 0 /\ events[r][Len(events[r])] = "flow_reconciliation_unknown"
      BY <2>2, <3>2, Zenon DEF FlowInvOf
    <3>5. events'[r][Len(events'[r]) - 1] = "flow_reconciliation_unknown"
      BY <1>3, <3>4
    <3> QED BY <3>3, <3>5, Zenon
  <2> QED BY <2>3, Zenon
<1>10. Len(events'[r]) > 0 /\ events'[r][Len(events'[r])] = e
  BY <1>3
<1> QED BY <1>1, <1>4, <1>5, <1>6, <1>8, <1>9, <1>10, Zenon DEF FlowInvOf, IsFlow, e

\* The fields of a checkpoint that save_flow_checkpoint writes.
LEMMA CheckpointFields ==
    ASSUME NEW phase, NEW override, NEW c, c = [phase |-> phase, override |-> override]
    PROVE  c.phase = phase /\ c.override = override
OBVIOUS

\* A saved checkpoint keeps the flow part, whatever transition it records and
\* whether or not the request is marked.
LEMMA SavedKeepsFlow ==
    ASSUME IInv, TypeOK', NEW r \in RequestIds, FlowInvOf(r), Saved(r)
    PROVE  FlowInvOf(r)'
<1>1. req[r].state \in Active /\ IsFlow(r) /\ req'[r] = req[r]
  BY Zenon DEF Saved
<1>2. PICK s \in FlowSteps :
        /\ ~(req[r].state = "cancellation_requested" /\ s[2] = "effect_started")
        /\ TerminalAllowed(r, s[2], s[3])
        /\ ckpt[r].phase = s[1]
        /\ ckpt'[r] = [phase |-> s[3], override |-> TerminalOverride(r, s[2], s[3])]
        /\ events'[r] = IF s[2] = "create" THEN events[r] ELSE Append(events[r], FlowEvent(s[2]))
  BY Zenon DEF Saved
<1>3. /\ ckpt'[r].phase = s[3] /\ ckpt'[r].override = TerminalOverride(r, s[2], s[3])
      /\ ckpt[r].phase \notin Outcomes
  <2>1. ckpt'[r] = [phase |-> s[3], override |-> TerminalOverride(r, s[2], s[3])]
    BY <1>2, Zenon
  <2>2. ckpt'[r].phase = s[3] /\ ckpt'[r].override = TerminalOverride(r, s[2], s[3])
    BY <2>1, CheckpointFields
  <2>3. s[1] \notin Outcomes
    BY <1>2, FlowStepValues, Zenon
  <2>4. ckpt[r].phase = s[1]
    BY <1>2, Zenon
  <2> QED BY <2>2, <2>3, <2>4, Zenon
<1>4. req[r].state \notin Terminal /\ req[r].state # "queued"
  BY <1>1, Zenon DEF Active, Terminal
<1>5. IsFlow(r)'
  BY <1>1 DEF IsFlow
<1>6. ckpt'[r].override => s[3] = "blocked" /\ s[2] = "reconciliation_unknown"
                           /\ req[r].state = "cancellation_requested"
  BY <1>3, Zenon DEF TerminalOverride
<1>7. HasTerminalFlow(r)' /\ req'[r].state = "cancellation_requested" =>
        MayOverrideCancellation(r)'
  BY <1>1, <1>2, <1>3, Zenon DEF HasTerminalFlow, TerminalAllowed, TerminalOverride, MayOverrideCancellation
<1>8. events[r] \in Seq(EventKinds) /\ FlowEvent(s[2]) \in EventKinds
  BY EventKindMembers, Zenon DEF IInv, QueueInv, TypeOK
<1>9. /\ FlowEvent(s[2]) \notin TerminalEvents /\ FlowEvent(s[2]) # "cancellation_requested"
      /\ s[2] = "reconciliation_unknown" => FlowEvent(s[2]) = "flow_reconciliation_unknown"
      /\ FlowEvent(s[2]) = "flow_effect_started" => s[2] = "effect_started"
  BY Zenon DEF FlowEvent, TerminalEvents
<1>10. CASE s[2] = "create"
  <2>1. events'[r] = events[r] /\ ~ckpt'[r].override
    BY <1>2, <1>6, <1>10, Zenon
  <2> QED BY <1>1, <1>3, <1>4, <1>5, <1>7, <2>1, Zenon DEF FlowInvOf
<1>11. CASE s[2] # "create"
  <2>1. /\ Len(events[r]) \in Nat /\ Len(events'[r]) = Len(events[r]) + 1
        /\ \A i \in 1 .. Len(events[r]) : events'[r][i] = events[r][i]
        /\ events'[r][Len(events[r]) + 1] = FlowEvent(s[2])
        /\ \A i \in 1 .. Len(events'[r]) :
             \/ i \in 1 .. Len(events[r]) /\ events'[r][i] = events[r][i]
             \/ i = Len(events[r]) + 1 /\ events'[r][i] = FlowEvent(s[2])
    BY <1>2, <1>8, <1>11, AppendFacts
  <2>2. ckpt'[r].override =>
          Len(events'[r]) > 0 /\ events'[r][Len(events'[r])] = "flow_reconciliation_unknown"
    <3>1. Len(events'[r]) > 0 /\ events'[r][Len(events'[r])] = FlowEvent(s[2])
      <4>1. Len(events'[r]) = Len(events[r]) + 1 /\ Len(events[r]) \in Nat
        BY <2>1, Zenon
      <4>2. events'[r][Len(events[r]) + 1] = FlowEvent(s[2])
        BY <2>1, Zenon
      <4>3. Len(events'[r]) > 0
        BY <4>1
      <4> QED BY <4>1, <4>2, <4>3, Zenon
    <3>2. ckpt'[r].override => FlowEvent(s[2]) = "flow_reconciliation_unknown"
      BY <1>6, <1>9, Zenon
    <3> QED BY <3>1, <3>2, Zenon
  <2>3. \A i \in 1 .. Len(events'[r]) : events'[r][i] \notin TerminalEvents
    <3>1. \A i \in 1 .. Len(events[r]) : events[r][i] \notin TerminalEvents
      BY <1>4, OpenHistory, Zenon
    <3> QED BY <1>9, <2>1, <3>1, Zenon
  <2>4. \A i \in 1 .. Len(events'[r]) : events'[r][i] = "cancellation_requested" =>
          i \in 1 .. Len(events[r]) /\ req[r].state = "cancellation_requested"
    <3>1. \A i \in 1 .. Len(events[r]) :
            events[r][i] = "cancellation_requested" => req[r].state = "cancellation_requested"
      BY <1>4, OpenHistory, Zenon
    <3> QED BY <1>9, <2>1, <3>1, Zenon
  <2>5. ASSUME NEW i \in 1 .. Len(events'[r]), NEW j \in 1 .. Len(events'[r]),
               events'[r][i] = "cancellation_requested", events'[r][j] = "flow_effect_started"
        PROVE  j < i
    <3>1. i \in 1 .. Len(events[r]) /\ req[r].state = "cancellation_requested"
      BY <2>4, <2>5, Zenon
    <3>2. j \in 1 .. Len(events[r])
      <4>1. FlowEvent(s[2]) # "flow_effect_started"
        BY <1>2, <1>9, <3>1, Zenon
      <4> QED BY <2>1, <2>5, <4>1, Zenon
    <3> QED BY <2>1, <2>5, <3>1, <3>2, Zenon DEF FlowInvOf
  <2> QED BY <1>1, <1>3, <1>4, <1>5, <1>6, <1>7, <2>2, <2>3, <2>4, <2>5, Zenon DEF FlowInvOf
<1> QED BY <1>10, <1>11

-----------------------------------------------------------------------------
\* The invariant holds initially and every transaction of the store keeps it.
LEMMA InitIInv == Init => IInv
<1> SUFFICES ASSUME Init PROVE IInv
  OBVIOUS
<1>1. NoRow \in Row /\ NoCheckpoint \in Checkpoint /\ <<>> \in Seq(EventKinds)
  BY DEF NoRow, Row, States, Results, NoCheckpoint, Checkpoint, Phases
<1>2. TypeOK
  BY <1>1 DEF Init, TypeOK
<1>3. \A r \in RequestIds : /\ req[r] = NoRow /\ events[r] = <<>> /\ ckpt[r] = NoCheckpoint
                            /\ req[r].state = "absent" /\ ckpt[r].phase = "none"
                            /\ ckpt[r].override = FALSE /\ Len(events[r]) = 0
  BY Zenon DEF Init, NoRow, NoCheckpoint
<1>4. QueueInv
  BY <1>2, <1>3, Zenon DEF QueueInv, RowShape, RowShapeOf, IdempotentAcceptance, OneActiveLeasePerProject,
                    StartedInOrder, ActiveLeases, Active, SameProject
<1>5. \A r \in RequestIds : FlowInvOf(r)
  <2> SUFFICES ASSUME NEW r \in RequestIds PROVE FlowInvOf(r)
    OBVIOUS
  <2>1. 1 .. Len(events[r]) = {}
    BY <1>3
  <2>2. ~HasTerminalFlow(r) /\ ~ckpt[r].override /\ req[r].state # "cancellation_requested"
        /\ req[r].state \notin Terminal
    BY <1>3, Zenon DEF HasTerminalFlow, Outcomes, Terminal
  <2> QED BY <2>1, <2>2, Zenon DEF FlowInvOf
<1> QED BY <1>4, <1>5, FlowInvPerRequest, Zenon DEF IInv

\* Every transaction of the store keeps the inductive invariant.
LEMMA NextIInv == IInv /\ [Next]_vars => IInv'
<1> SUFFICES ASSUME IInv, [Next]_vars PROVE IInv'
  OBVIOUS
<1>1. /\ TypeOK' /\ \A q \in RequestIds : RowStep(q)
      /\ \/ nextSeq' = nextSeq /\ \A q \in RequestIds : LaterStep(q)
         \/ \E r \in RequestIds : Claim(r)
         \/ \E r \in RequestIds, p \in Projects, k \in Keys, o \in Ops : Accept(r, p, k, o)
  BY StepShape
<1>2. QueueInv'
  BY <1>1, LaterKeepsQueue, ClaimKeepsQueue, AcceptKeepsQueue, Zenon
<1>3. \A r \in RequestIds : FlowInvOf(r)
  BY FlowInvPerRequest, Zenon DEF IInv
<1>4. \A r \in RequestIds : FlowInvOf(r)'
  BY <1>1, <1>3, QuietKeepsFlow, StartedOrReleasedKeepsFlow, MarkedKeepsFlow, EndedKeepsFlow,
     SavedKeepsFlow, Zenon DEF RowStep, LaterStep
<1>5. FlowInv'
  <2>1. (\A r \in RequestIds : FlowInvOf(r))'
    BY <1>4
  <2> QED BY <2>1, FlowInvPerRequest, PTL
<1> QED BY <1>2, <1>5, Zenon DEF IInv

\* Every reachable state of the store satisfies the inductive invariant.
THEOREM StoreInvariant == Spec => []IInv
BY InitIInv, NextIInv, PTL DEF Spec

\* The tables of store.rs keep their types through every transaction.
THEOREM TypeCorrect == Spec => []TypeOK
<1>1. IInv => TypeOK
  BY DEF IInv, QueueInv
<1> QED BY <1>1, StoreInvariant, PTL

\* claim, recovery and restart never leave a project with two active leases.
THEOREM OneLease == Spec => []OneActiveLeasePerProject
<1>1. IInv => OneActiveLeasePerProject
  BY DEF IInv, QueueInv
<1> QED BY <1>1, StoreInvariant, PTL

\* The queue of a project is served first in, first out.
THEOREM Fifo == Spec => []StartedInOrder
<1>1. IInv => StartedInOrder
  BY DEF IInv, QueueInv
<1> QED BY <1>1, StoreInvariant, PTL

\* accept never creates a second request for an idempotency key.
THEOREM Idempotence == Spec => []IdempotentAcceptance
<1>1. IInv => IdempotentAcceptance
  BY DEF IInv, QueueInv
<1> QED BY <1>1, StoreInvariant, PTL

\* The event history of a request ends with its only terminal event.
THEOREM TerminalEventOnce == Spec => []OneTerminalEvent
<1>1. IInv => OneTerminalEvent
  BY Zenon DEF IInv, FlowInv
<1> QED BY <1>1, StoreInvariant, PTL

\* A cancellation that cancel acknowledged is not undone by finish, by recovery
\* or by the end of the flow.
THEOREM CancellationStands == Spec => []AcknowledgedCancellationStands
<1>1. IInv => AcknowledgedCancellationStands
  BY DEF IInv, FlowInv
<1> QED BY <1>1, StoreInvariant, PTL

\* save_flow_checkpoint admits no effect start after an acknowledged cancellation.
THEOREM NoLateEffect == Spec => []NoEffectAfterCancellation
<1>1. IInv => NoEffectAfterCancellation
  BY DEF IInv, FlowInv
<1> QED BY <1>1, StoreInvariant, PTL

\* The terminal checkpoint of a flow decides how its request ends.
THEOREM OutcomeDecides == Spec => []FlowOutcomeDecides
<1>1. IInv => FlowOutcomeDecides
  BY DEF IInv, FlowInv
<1> QED BY <1>1, StoreInvariant, PTL

\* No transaction changes the row or the events of a finished request.
THEOREM FinishedStays == Spec => FinishedIsFinal
<1> DEFINE Kept == \A r \in RequestIds :
                     req[r].state \in Terminal => req'[r] = req[r] /\ events'[r] = events[r]
<1>1. IInv /\ [Next]_vars => Kept
  <2> SUFFICES ASSUME IInv, [Next]_vars, NEW r \in RequestIds, req[r].state \in Terminal
               PROVE  req'[r] = req[r] /\ events'[r] = events[r]
    BY Zenon
  <2>1. RowStep(r)
    BY StepShape
  <2>2. req[r].state \notin Unfinished /\ req[r].state \notin Active
        /\ req[r].state # "absent" /\ req[r].state # "queued" /\ req[r].state # "leased"
    BY Zenon DEF Terminal, Unfinished, Active
  <2>3. Quiet(r)
    BY <2>1, <2>2, Zenon DEF RowStep, LaterStep, Created, Started, Released, Marked, Ended, Saved
  <2> QED BY <2>2, <2>3, Zenon DEF Quiet
<1> HIDE DEF Kept
<1>2. IInv /\ [Next]_vars => [Kept]_vars
  BY <1>1
<1>3. Spec => [][Kept]_vars
  BY <1>2, StoreInvariant, PTL DEF Spec
<1> QED BY <1>3 DEF FinishedIsFinal, Kept

=============================================================================
