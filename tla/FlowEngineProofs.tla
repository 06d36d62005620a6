-------------------------- MODULE FlowEngineProofs --------------------------
(*****************************************************************************)
(* Proofs about the flow engine. EffectInv is the inductive invariant of     *)
(* what it does to the world; it relates the snapshot in the store, the      *)
(* worker that lives beside it and the effects the world has seen. Every     *)
(* action of the engine writes through Save, so the proof has one lemma for  *)
(* a write that is refused, one for a write that moves one step (MoveKeeps), *)
(* and one lemma per action that shows its move to be a good one. The second *)
(* half is about what the engine writes: WriteInv, inductive together with   *)
(* EffectInv, says how each step of a stored snapshot looks and why it was   *)
(* decided on; from it follows that the store's checks of a snapshot and of  *)
(* the transition to it (validate_standalone_snapshot,                       *)
(* validate_transition_successor) take every write of the engine but one     *)
(* kind, and that a stored snapshot can always be resumed                    *)
(* (validate_snapshot).                                                      *)
(*****************************************************************************)
EXTENDS FlowEngine, TLAPS

\* The types of the engine's state: the stored snapshot, the worker's memory of the
\* effect it issued, and the world's count of applications.
TypeOK ==
    /\ def \in Definitions
    /\ snap \in Snapshot
    /\ issued \in Steps \cup {0}
    /\ performed \in BOOLEAN
    /\ applied \in [Steps -> [Attempts -> Nat]]
    /\ rejected \in Transition
    /\ crashes \in Nat

\* A step is approved by the definition exactly where the snapshot says so.
ApprovalMatches ==
    \A i \in Steps : def[i].approval = "none" <=> snap.steps[i].approval = "not_required"

\* A step that has an attempt under way or an approval awaited: what occupies the
\* run.
Busy(st) == st.state \in ActiveStates \/ st.approval = "pending"

\* A run that ended is doing nothing, and it is blocked exactly if a step is.
EndIsQuiet ==
    /\ snap.status = "blocked" <=> InState(snap, "blocked")
    /\ Ended(snap) => \A i \in Steps : ~Busy(snap.steps[i])

\* What the world knows of a step: an application has its result recorded, or its
\* step is blocked, or it is that of the attempt in flight, whose worker knows it;
\* a stateful step that succeeded was applied by its last attempt.
Traced(i) ==
    LET st == snap.steps[i] IN
    /\ \A a \in Attempts :
         /\ applied[i][a] <= 1
         /\ applied[i][a] > 0 =>
              /\ def[i].effect = "stateful" /\ st.approval = "granted"
              /\ \/ a <= Len(st.results)
                 \/ st.state = "blocked"
                 \/ st.state = "in_flight" /\ a = st.attempt /\ (issued = i => performed)
    /\ st.state = "succeeded" /\ def[i].effect = "stateful" =>
         \E a \in Attempts : a = st.attempt /\ applied[i][a] > 0
    /\ issued = i =>
         /\ st.state \in {"in_flight", "blocked"}
         /\ st.state = "in_flight" /\ def[i].effect = "stateful" /\ performed =>
              applied[i][st.attempt] > 0

\* The inductive invariant of the effects. Standalone is what the store's own
\* validator (validate_standalone_snapshot) demands of every write.
EffectInv ==
    /\ TypeOK
    /\ Standalone(snap)
    /\ ApprovalMatches
    /\ EndIsQuiet
    /\ \A i \in Steps : Traced(i)
    /\ performed => issued # 0

-----------------------------------------------------------------------------
\* A definition that FlowDefinition's validation lets through: its attempts,
\* approval, effect and references are in range, and a stateful step needs an
\* approval.
LEMMA DefinitionFacts ==
    ASSUME def \in Definitions, NEW i \in Steps
    PROVE  /\ def[i].max \in Attempts
           /\ def[i].approval \in {"none", "required"}
           /\ def[i].effect \in {"read_only", "stateful"}
           /\ def[i].effect = "stateful" => def[i].approval = "required"
           /\ Refs(def, i) \subseteq Steps
<1>1. def[i] \in StepDefinition /\ ValidDefinition(def)
  BY DEF Definitions
<1>2. def[i].deps \subseteq Steps /\ def[i].cond \in Conditions
  BY <1>1 DEF StepDefinition
<1>3. def[i].cond[2] \in Steps \cup {0}
  BY <1>2 DEF Conditions
<1> QED
  BY <1>1, <1>2, <1>3 DEF StepDefinition, ValidDefinition, Refs

\* The snapshot in which one step and the status are replaced, as every single-step
\* save writes it.
LEMMA WithFacts ==
    ASSUME NEW s \in Snapshot, NEW i \in Steps, NEW step \in StepSnapshot, NEW status \in Statuses
    PROVE  LET c == With(s, i, step, status) IN
           /\ c \in Snapshot
           /\ c.status = status
           /\ c.cancel = s.cancel
           /\ c.steps[i] = step
           /\ \A j \in Steps : j # i => c.steps[j] = s.steps[j]
BY Zenon DEF With, Snapshot

\* Appending one result to a history that is not full yet.
LEMMA AppendFacts ==
    ASSUME NEW r, r \in UNION {[1 .. n -> ResultKinds] : n \in 0 .. MaxAttempts},
           NEW kind \in ResultKinds
    PROVE  /\ Len(r) \in 0 .. MaxAttempts
           /\ \A k \in 1 .. Len(r) : r[k] \in ResultKinds
           /\ r = <<>> <=> Len(r) = 0
           /\ Len(Append(r, kind)) = Len(r) + 1
           /\ Append(r, kind)[Len(r) + 1] = kind
           /\ \A k \in 1 .. Len(r) : Append(r, kind)[k] = r[k]
           /\ Len(r) < MaxAttempts =>
                Append(r, kind) \in UNION {[1 .. n -> ResultKinds] : n \in 0 .. MaxAttempts}
<1>1. PICK n \in 0 .. MaxAttempts : r \in [1 .. n -> ResultKinds]
  OBVIOUS
<1>2. r \in Seq(ResultKinds) /\ Len(r) = n
  BY <1>1, EngineAssumption
<1>3. /\ Append(r, kind) \in Seq(ResultKinds) /\ Len(Append(r, kind)) = n + 1
      /\ Append(r, kind)[n + 1] = kind
      /\ \A k \in 1 .. n : Append(r, kind)[k] = r[k]
  BY <1>2
<1>5. Append(r, kind) \in [1 .. (n + 1) -> ResultKinds]
  <2>1. PICK a : a = Append(r, kind)
    BY Zenon
  <2>2. a \in Seq(ResultKinds) /\ Len(a) = n + 1
    BY <1>3, <2>1, Zenon
  <2>3. a \in [1 .. Len(a) -> ResultKinds]
    BY <2>2
  <2> QED
    BY <2>1, <2>2, <2>3, Zenon
<1>4. n < MaxAttempts => n + 1 \in 0 .. MaxAttempts
  BY EngineAssumption
<1> QED
  BY <1>1, <1>2, <1>3, <1>4, <1>5

\* The fields of a step of a snapshot and their ranges.
LEMMA StepFacts ==
    ASSUME NEW st \in StepSnapshot
    PROVE  /\ st.approval \in Approvals /\ st.state \in StepStates
           /\ st.attempt \in 0 .. MaxAttempts /\ st.report \in BOOLEAN
           /\ Len(st.results) \in 0 .. MaxAttempts
           /\ st.results = <<>> <=> Len(st.results) = 0
           /\ \A k \in 1 .. Len(st.results) : st.results[k] \in ResultKinds
<1>1. st.results \in UNION {[1 .. n -> ResultKinds] : n \in 0 .. MaxAttempts}
  BY DEF StepSnapshot
<1>2. "failed" \in ResultKinds
  BY DEF ResultKinds
<1> QED
  BY <1>1, <1>2, AppendFacts DEF StepSnapshot

\* Attempts are counted from one, by the results so far.
LEMMA AttemptRange ==
    ASSUME NEW n \in 0 .. MaxAttempts, NEW a
    PROVE  /\ a = n + 1 /\ a <= MaxAttempts => n < MaxAttempts /\ a \in Attempts
           /\ a = n /\ n > 0 => a \in Attempts
BY EngineAssumption DEF Attempts

\* One more result covers one more attempt.
LEMMA CountUp == ~(0 > 0) /\ \A n, m \in Nat : (n < m => n + 1 <= m) /\ (m = n => n <= m)
OBVIOUS

\* A step moved to a state and an attempt: everything else in it stays.
LEMMA ToStateFacts ==
    ASSUME NEW st \in StepSnapshot, NEW state \in StepStates, NEW a \in 0 .. MaxAttempts
    PROVE  /\ ToState(st, state, a) \in StepSnapshot
           /\ ToState(st, state, a).approval = st.approval
           /\ ToState(st, state, a).state = state
           /\ ToState(st, state, a).attempt = a
           /\ ToState(st, state, a).results = st.results
           /\ ToState(st, state, a).report = st.report
BY Zenon DEF ToState, StepSnapshot

\* A step whose approval alone changes (a pause for approval, resolve_approval).
LEMMA ApprovalFacts ==
    ASSUME NEW st \in StepSnapshot, NEW approval \in Approvals
    PROVE  LET new == [st EXCEPT !.approval = approval] IN
           /\ new \in StepSnapshot
           /\ new.approval = approval
           /\ new.state = st.state
           /\ new.attempt = st.attempt
           /\ new.results = st.results
           /\ new.report = st.report
BY DEF StepSnapshot

\* A step that the engine blocks: its state changes, its results stay.
LEMMA BlockFacts ==
    ASSUME NEW st \in StepSnapshot
    PROVE  /\ Block(st) \in StepSnapshot
           /\ Block(st).approval = st.approval
           /\ Block(st).state = "blocked"
           /\ Block(st).attempt = 0
           /\ Block(st).results = st.results
           /\ Block(st).report = TRUE
<1>1. "blocked" \in StepStates
  BY DEF StepStates, EndStates
<1>2. 0 \in 0 .. MaxAttempts
  BY EngineAssumption
<1> QED
  BY <1>1, <1>2, Zenon DEF Block, StepSnapshot

\* A step that records a result: the history grows by one, and the state and the
\* attempt are the given ones.
LEMMA WithResultFacts ==
    ASSUME NEW st \in StepSnapshot, NEW state \in StepStates, NEW a \in 0 .. MaxAttempts,
           NEW kind \in ResultKinds, Len(st.results) < MaxAttempts
    PROVE  LET new == WithResult(st, state, a, kind) IN
           /\ new \in StepSnapshot
           /\ new.approval = st.approval
           /\ new.state = state
           /\ new.attempt = a
           /\ new.results = Append(st.results, kind)
           /\ new.report = st.report
           /\ Len(new.results) = Len(st.results) + 1
           /\ new.results[Len(st.results) + 1] = kind
           /\ \A k \in 1 .. Len(st.results) : new.results[k] = st.results[k]
<1>1. st.results \in UNION {[1 .. n -> ResultKinds] : n \in 0 .. MaxAttempts}
  BY DEF StepSnapshot
<1>2. /\ Append(st.results, kind) \in UNION {[1 .. n -> ResultKinds] : n \in 0 .. MaxAttempts}
      /\ Len(Append(st.results, kind)) = Len(st.results) + 1
      /\ Append(st.results, kind)[Len(st.results) + 1] = kind
      /\ \A k \in 1 .. Len(st.results) : Append(st.results, kind)[k] = st.results[k]
  BY <1>1, AppendFacts, Zenon
<1> DEFINE new == WithResult(st, state, a, kind)
<1>3. /\ new \in StepSnapshot
      /\ new.approval = st.approval
      /\ new.state = state
      /\ new.attempt = a
      /\ new.results = Append(st.results, kind)
      /\ new.report = st.report
  BY <1>2, Zenon DEF WithResult, StepSnapshot
<1> QED
  BY <1>2, <1>3

\* A step as finish_cancelled leaves it: one that has ended stays, any other is
\* cancelled and loses a pending approval.
LEMMA CancelledFacts ==
    ASSUME NEW s \in Snapshot
    PROVE  LET c == AllCancelled(s) IN
           /\ c \in Snapshot
           /\ c.status = "cancelled"
           /\ c.cancel = TRUE
           /\ \A i \in Steps :
                /\ c.steps[i].state = IF StepEnded(s, i) THEN s.steps[i].state ELSE "cancelled"
                /\ c.steps[i].attempt = IF StepEnded(s, i) THEN s.steps[i].attempt ELSE 0
                /\ c.steps[i].approval = IF s.steps[i].approval = "pending"
                                         THEN "not_requested" ELSE s.steps[i].approval
                /\ c.steps[i].results = s.steps[i].results
                /\ c.steps[i].report = s.steps[i].report
<1> DEFINE Each(i) == LET st == s.steps[i] IN
             [st EXCEPT !.state = IF StepEnded(s, i) THEN @ ELSE "cancelled",
                        !.attempt = IF StepEnded(s, i) THEN @ ELSE 0,
                        !.approval = IF @ = "pending" THEN "not_requested" ELSE @]
<1>1. ASSUME NEW i \in Steps
      PROVE  /\ Each(i) \in StepSnapshot
             /\ Each(i).state = IF StepEnded(s, i) THEN s.steps[i].state ELSE "cancelled"
             /\ Each(i).attempt = IF StepEnded(s, i) THEN s.steps[i].attempt ELSE 0
             /\ Each(i).approval = IF s.steps[i].approval = "pending"
                                   THEN "not_requested" ELSE s.steps[i].approval
             /\ Each(i).results = s.steps[i].results
             /\ Each(i).report = s.steps[i].report
  <2>1. s.steps[i] \in StepSnapshot
    BY DEF Snapshot
  <2>2. "cancelled" \in StepStates /\ "not_requested" \in Approvals /\ 0 \in 0 .. MaxAttempts
    BY EngineAssumption DEF StepStates, EndStates, Approvals
  <2> QED
    BY <2>1, <2>2, Zenon DEF StepSnapshot
<1>2. AllCancelled(s) = [s EXCEPT !.status = "cancelled", !.cancel = TRUE,
                                  !.steps = [i \in Steps |-> Each(i)]]
  BY DEF AllCancelled
<1> HIDE DEF Each
<1>3. "cancelled" \in Statuses
  BY DEF Statuses, EndStatuses
<1>4. [i \in Steps |-> Each(i)] \in [Steps -> StepSnapshot]
  BY <1>1
<1>5. /\ AllCancelled(s) \in Snapshot
      /\ AllCancelled(s).status = "cancelled"
      /\ AllCancelled(s).cancel = TRUE
      /\ AllCancelled(s).steps = [i \in Steps |-> Each(i)]
  BY <1>2, <1>3, <1>4, Zenon DEF Snapshot
<1> QED
  BY <1>1, <1>5

-----------------------------------------------------------------------------
\* The transition record that accompanies a save.
LEMMA TransitionFacts ==
    ASSUME NEW kind \in TransitionKinds, NEW i \in Steps \cup {0}, NEW a \in 0 .. MaxAttempts
    PROVE  T(kind, i, a) \in Transition
BY DEF T, Transition

\* The shape the store's validator gives to a step.
LEMMA ShapeFacts ==
    ASSUME snap \in Snapshot, Standalone(snap), NEW i \in Steps
    PROVE  LET st == snap.steps[i]
               n == Len(st.results)
           IN
           /\ st \in StepSnapshot
           /\ st.approval \in {"not_requested", "pending"} =>
                /\ st.state \in {"pending", "cancelled"}
                /\ st.approval = "pending" => st.state = "pending"
                /\ n = 0 /\ ~st.report
           /\ st.approval = "denied" => st.state = "blocked"
           /\ st.state \in {"pending", "skipped"} => n = 0 /\ ~st.report
           /\ st.state \in ActiveStates =>
                /\ st.attempt = n + 1 /\ st.attempt \in Attempts /\ n < MaxAttempts /\ ~st.report
                /\ st.approval \in {"granted", "not_required"}
           /\ st.state \in {"succeeded", "failed"} => st.attempt = n /\ n > 0 /\ st.attempt \in Attempts
<1> DEFINE st == snap.steps[i]
           n == Len(st.results)
<1>1. st \in StepSnapshot
  BY DEF Snapshot
<1>2. /\ st.approval \in Approvals /\ st.attempt \in 0 .. MaxAttempts /\ n \in 0 .. MaxAttempts
      /\ st.results = <<>> <=> n = 0
  BY <1>1, StepFacts
<1>3. ApprovalShape(st) /\ StepShape(st, MaxAttempts, {"succeeded", "failed"}, TRUE)
  BY Zenon DEF Standalone
<1>4. st.state \in ActiveStates => ~st.report
  BY Zenon DEF Standalone
<1>5. /\ st.state \in {"pending", "skipped"} => n = 0 /\ ~st.report
      /\ st.state \in ActiveStates => st.attempt = n + 1 /\ st.attempt <= MaxAttempts
      /\ st.state \in {"succeeded", "failed"} => st.attempt = n /\ n > 0
  BY <1>3, Zenon DEF StepShape
<1>6. /\ st.approval \in {"not_requested", "pending"} =>
           /\ st.state = "pending" \/ (st.state = "cancelled" /\ st.approval = "not_requested")
           /\ st.results = <<>> /\ ~st.report
      /\ st.approval = "denied" => st.state = "blocked" /\ st.report
  BY <1>3 DEF ApprovalShape
<1>7. st.state \in ActiveStates => st.state \notin {"pending", "cancelled", "blocked"}
  BY DEF ActiveStates
<1>8. st.state \in ActiveStates => st.approval \in {"granted", "not_required"}
  BY <1>2, <1>6, <1>7 DEF Approvals
<1>9. st.state \in ActiveStates => n < MaxAttempts /\ st.attempt \in Attempts
  BY <1>2, <1>5, AttemptRange, Zenon
<1>10. st.state \in {"succeeded", "failed"} => st.attempt \in Attempts
  BY <1>2, <1>5, AttemptRange, Zenon
<1> QED
  BY <1>1, <1>2, <1>4, <1>5, <1>6, <1>8, <1>9, <1>10, Zenon

\* What a save comes to: the store takes it, or the worker drops the run.
Accepted(c, j) ==
    /\ snap' = c /\ Standalone(c) /\ issued' = j
    /\ performed' = (performed /\ issued' = issued)
    /\ UNCHANGED <<def, applied, rejected, crashes>>

\* A save the store refuses: the snapshot stays and the worker gives up.
Refused(t) ==
    /\ UNCHANGED <<def, snap, applied, crashes>>
    /\ issued' = 0 /\ performed' = FALSE
    /\ rejected' = IF rejected = NoTransition THEN t ELSE rejected

\* Every save is taken or refused; a taken one passed the store's validator.
LEMMA SaveCases ==
    ASSUME EffectInv, NEW c, NEW t, NEW j, Save(c, t, j)
    PROVE  \/ Accepted(c, j)
           \/ Refused(t) /\ ~(Standalone(c) /\ Successor(snap, c, t))
<1>1. CASE Standalone(c) /\ Successor(snap, c, t)
  BY <1>1 DEF Save, Accepted
<1>2. CASE ~(Standalone(c) /\ Successor(snap, c, t))
  <2>1. /\ issued' = 0 /\ snap' = snap /\ performed' = (performed /\ issued' = issued)
        /\ rejected' = IF rejected = NoTransition THEN t ELSE rejected
        /\ UNCHANGED <<def, applied, crashes>>
    BY <1>2 DEF Save
  <2>2. performed \in BOOLEAN /\ (performed => issued # 0)
    BY DEF EffectInv, TypeOK
  <2>3. performed' = FALSE
    BY <2>1, <2>2, Zenon
  <2> QED
    BY <1>2, <2>1, <2>3 DEF Refused
<1> QED
  BY <1>1, <1>2

\* A refused save keeps the invariant: the engine returns the error and nothing
\* changed.
LEMMA RefusedKeeps ==
    ASSUME EffectInv, NEW t \in Transition, Refused(t)
    PROVE  EffectInv'
<1>1. /\ def' = def /\ snap' = snap /\ applied' = applied /\ crashes' = crashes
      /\ issued' = 0 /\ performed' = FALSE
      /\ rejected' = t \/ rejected' = rejected
  BY DEF Refused
<1>2. TypeOK'
  BY <1>1, Zenon DEF EffectInv, TypeOK
<1>3. Standalone(snap)' /\ ApprovalMatches' /\ EndIsQuiet'
  BY <1>1, Zenon DEF EffectInv, Standalone, ApprovalMatches, EndIsQuiet, StatusShape, ComputedStatus,
              OneActive, InState, StepEnded, PendingApproval, Ended
<1>4. ASSUME NEW i \in Steps PROVE Traced(i)'
  <2>1. Traced(i) /\ i # 0
    BY DEF EffectInv, Steps
  <2> QED
    BY <1>1, <2>1, Zenon DEF Traced
<1> QED
  BY <1>1, <1>2, <1>3, <1>4 DEF EffectInv

\* What one step may become without leaving an effect behind: its approval is not
\* taken back, the run is blocked by it or goes on, the results of its attempts
\* are kept, and an application in flight gets its result or blocks the step.
GoodMove(i, step, status, j) ==
    LET st == snap.steps[i] IN
    /\ step.approval = "not_required" <=> st.approval = "not_required"
    /\ st.approval = "granted" => step.approval = "granted"
    /\ status = "blocked" <=> step.state = "blocked"
    /\ status \in EndStatuses => status = "blocked" /\ Busy(st)
    /\ Len(st.results) <= Len(step.results)
    /\ st.state = "in_flight" /\ def[i].effect = "stateful" /\ step.state # "blocked" =>
         Len(st.results) < Len(step.results) \/ applied[i][st.attempt] = 0
    /\ step.state = "succeeded" /\ def[i].effect = "stateful" =>
         \E a \in Attempts : a = step.attempt /\ applied[i][a] > 0
    /\ j = i =>
         /\ step.state \in {"in_flight", "blocked"}
         /\ step.state = "in_flight" /\ def[i].effect = "stateful" => issued # i

\* Saving a good move of one step keeps the invariant, taken or refused.
LEMMA MoveKeeps ==
    ASSUME EffectInv, NEW i \in Steps, NEW step \in StepSnapshot, NEW status \in Statuses,
           NEW t \in Transition, NEW j \in {0, i, issued}, ~Ended(snap),
           GoodMove(i, step, status, j), Save(With(snap, i, step, status), t, j)
    PROVE  EffectInv'
<1> DEFINE st == snap.steps[i]
           c == With(snap, i, step, status)
<1>1. CASE Refused(t)
  BY <1>1, RefusedKeeps
<1>2. CASE Accepted(c, j)
  <2>1. snap \in Snapshot /\ def \in Definitions /\ Standalone(snap)
    BY DEF EffectInv, TypeOK
  <2>2. /\ snap' \in Snapshot /\ snap'.status = status /\ snap'.steps[i] = step
        /\ \A k \in Steps : k # i => snap'.steps[k] = snap.steps[k]
    BY <1>2, <2>1, WithFacts DEF Accepted
  <2>3. /\ def' = def /\ applied' = applied /\ rejected' = rejected /\ crashes' = crashes
        /\ issued' = j /\ performed' = (performed /\ j = issued) /\ Standalone(snap)'
    <3>1. Standalone(snap)' <=> Standalone(snap')
      BY Zenon DEF Standalone, StatusShape, OneActive, ComputedStatus, InState, StepEnded, PendingApproval
    <3> QED
      BY <1>2, <3>1 DEF Accepted
  <2>4. TypeOK'
    BY <2>2, <2>3, Zenon DEF EffectInv, TypeOK
  <2>5. ApprovalMatches'
    <3>1. ASSUME NEW k \in Steps
          PROVE  def[k].approval = "none" <=> snap'.steps[k].approval = "not_required"
      <4>1. def[k].approval = "none" <=> snap.steps[k].approval = "not_required"
        BY DEF EffectInv, ApprovalMatches
      <4>2. CASE k = i
        BY <2>2, <4>1, <4>2, Zenon DEF GoodMove
      <4>3. CASE k # i
        BY <2>2, <4>1, <4>3, Zenon
      <4> QED
        BY <4>2, <4>3
    <3> QED
      BY <2>3, <3>1, Zenon DEF ApprovalMatches
  <2>6. EndIsQuiet'
    <3>1. snap.status # "blocked" /\ \A k \in Steps : snap.steps[k].state # "blocked"
      BY DEF EffectInv, EndIsQuiet, Ended, EndStatuses, InState
    <3>2. (snap.status = "blocked" <=> InState(snap, "blocked"))'
      BY <2>2, <3>1, Zenon DEF GoodMove, InState
    <3>3. ASSUME Ended(snap)', NEW k \in Steps PROVE ~Busy(snap.steps[k])'
      <4>1. status = "blocked" /\ step.state = "blocked" /\ Busy(st)
        BY <2>2, <3>3, Zenon DEF GoodMove, Ended
      <4>2. CASE k = i
        <5>1. ApprovalShape(snap'.steps[i])
          BY <1>2, Zenon DEF Accepted, Standalone
        <5>2. step.approval # "pending"
          BY <2>2, <4>1, <5>1 DEF ApprovalShape
        <5> QED
          BY <2>2, <4>1, <4>2, <5>2, Zenon DEF Busy, ActiveStates
      <4>3. CASE k # i
        BY <2>1, <2>2, <4>1, <4>3, Zenon DEF Standalone, StatusShape, OneActive, Busy
      <4> QED
        BY <4>2, <4>3
    <3> QED
      BY <3>2, <3>3 DEF EndIsQuiet
  <2>7. ASSUME NEW k \in Steps, k # i PROVE Traced(k)'
    <3>1. Traced(k) /\ k # 0 /\ performed \in BOOLEAN
      BY DEF EffectInv, TypeOK, Steps
    <3>2. issued' = k => issued = k /\ performed' = performed
      BY <2>3, <2>7, <3>1
    <3>3. snap'.steps[k] = snap.steps[k] /\ def' = def /\ applied' = applied
      BY <2>2, <2>3, <2>7
    <3> QED
      BY <3>1, <3>2, <3>3 DEF Traced
  <2>8. Traced(i)'
    <3>1. Traced(i) /\ st.state # "blocked" /\ i # 0
      BY DEF EffectInv, EndIsQuiet, Ended, EndStatuses, InState, Steps
    <3>2. Len(st.results) \in Nat /\ Len(step.results) \in Nat /\ st \in StepSnapshot
      BY <2>1, StepFacts DEF Snapshot
    <3>3. st.state = "in_flight" => st.attempt = Len(st.results) + 1
      BY <2>1, ShapeFacts, Zenon DEF ActiveStates
    <3>4. ASSUME NEW a \in Attempts, applied[i][a] > 0
          PROVE  /\ def[i].effect = "stateful" /\ step.approval = "granted"
                 /\ a <= Len(step.results) \/ step.state = "blocked"
      <4>1. /\ def[i].effect = "stateful" /\ st.approval = "granted"
            /\ a <= Len(st.results) \/ (st.state = "in_flight" /\ a = st.attempt)
        BY <3>1, <3>4, Zenon DEF Traced
      <4>2. a \in Nat /\ applied[i][a] \in Nat
        BY EngineAssumption DEF Attempts, EffectInv, TypeOK
      <4>3. /\ Len(st.results) <= Len(step.results)
            /\ st.approval = "granted" => step.approval = "granted"
            /\ st.state = "in_flight" /\ def[i].effect = "stateful" /\ step.state # "blocked" =>
                 Len(st.results) < Len(step.results) \/ applied[i][st.attempt] = 0
        BY Zenon DEF GoodMove
      <4>4. CASE a <= Len(st.results)
        BY <3>2, <4>1, <4>2, <4>3, <4>4
      <4>5. CASE st.state = "in_flight" /\ a = st.attempt
        BY <3>2, <3>3, <3>4, <4>1, <4>3, <4>5, CountUp, Zenon
      <4> QED
        BY <4>1, <4>4, <4>5, Zenon
    <3>5. \A a \in Attempts : applied[i][a] <= 1
      BY <3>1, Zenon DEF Traced
    <3> QED
      BY <2>2, <2>3, <3>4, <3>5, Zenon DEF Traced, GoodMove
  <2>9. (performed => issued # 0)'
    BY <2>3, Zenon DEF EffectInv
  <2> QED
    BY <2>3, <2>4, <2>5, <2>6, <2>7, <2>8, <2>9 DEF EffectInv
<1> QED
  BY <1>1, <1>2, SaveCases

\* What every action below needs of its step.
LEMMA StepInv ==
    ASSUME EffectInv, NEW i \in Steps
    PROVE  LET st == snap.steps[i] IN
           /\ st \in StepSnapshot /\ Len(st.results) \in Nat
           /\ st.state \in ActiveStates =>
                /\ st.attempt = Len(st.results) + 1 /\ st.attempt \in Attempts
                /\ Len(st.results) < MaxAttempts
           /\ Busy(st) => ~Ended(snap)
           /\ issued = i => st.state \in {"in_flight", "blocked"}
           /\ st.state = "blocked" => Ended(snap)
           /\ def[i].max \in Attempts
           /\ issued \in Steps \cup {0} /\ i # 0
<1>1. snap \in Snapshot /\ Standalone(snap) /\ def \in Definitions /\ issued \in Steps \cup {0}
  BY DEF EffectInv, TypeOK
<1>2. snap.steps[i] \in StepSnapshot
  BY <1>1 DEF Snapshot
<1>3. Busy(snap.steps[i]) => ~Ended(snap)
  BY DEF EffectInv, EndIsQuiet
<1>4. snap.steps[i].state = "blocked" => Ended(snap)
  BY DEF EffectInv, EndIsQuiet, InState, Ended, EndStatuses
<1>5. issued = i => snap.steps[i].state \in {"in_flight", "blocked"}
  BY Zenon DEF EffectInv, Traced
<1>6. Len(snap.steps[i].results) \in Nat
  BY <1>2, StepFacts
<1>7. i # 0
  BY DEF Steps
<1> QED
  BY <1>1, <1>2, <1>3, <1>4, <1>5, <1>6, <1>7, ShapeFacts, DefinitionFacts, Zenon

\* Skipping a step whose condition is false applies nothing.
LEMMA SkipStepKeeps ==
    ASSUME EffectInv, NEW i \in Steps, SkipStep(i)
    PROVE  EffectInv'
<1> DEFINE st == snap.steps[i]
           step == ToState(st, "skipped", 0)
           t == T("step_skipped", i, 0)
<1>1. ~Ended(snap) /\ st.state = "pending" /\ Save(With(snap, i, step, snap.status), t, issued)
  BY Zenon DEF SkipStep, NextStep, Idle, Ready
<1>2. /\ st \in StepSnapshot /\ Len(st.results) \in Nat /\ issued # i /\ snap.status \in Statuses
  BY <1>1, StepInv, Zenon DEF EffectInv, TypeOK, Snapshot
<1>3. /\ step \in StepSnapshot /\ step.approval = st.approval /\ step.state = "skipped"
      /\ step.results = st.results
  <2>1. "skipped" \in StepStates /\ 0 \in 0 .. MaxAttempts
    BY EngineAssumption DEF StepStates, EndStates
  <2>2. st \in StepSnapshot
    BY <1>2, Zenon
  <2> HIDE DEF st
  <2> QED
    BY <2>1, <2>2, ToStateFacts
<1>4. t \in Transition
  BY TransitionFacts, EngineAssumption DEF TransitionKinds
<1>5. GoodMove(i, step, snap.status, issued)
  BY <1>1, <1>2, <1>3 DEF GoodMove, Ended, EndStatuses
<1> QED
  BY <1>1, <1>2, <1>3, <1>4, <1>5, MoveKeeps, Zenon

\* Asking for an approval applies nothing and issues nothing.
LEMMA RequestApprovalKeeps ==
    ASSUME EffectInv, NEW i \in Steps, RequestApproval(i)
    PROVE  EffectInv'
<1> DEFINE st == snap.steps[i]
           step == [st EXCEPT !.approval = "pending"]
           t == T("approval_requested", i, 0)
<1>1. /\ ~Ended(snap) /\ st.state = "pending" /\ st.approval = "not_requested"
      /\ Save(With(snap, i, step, "waiting_approval"), t, issued)
  BY DEF RequestApproval, NextStep, Idle, Ready
<1>2. st \in StepSnapshot /\ Len(st.results) \in Nat /\ issued # i
  BY <1>1, StepInv
<1>3. /\ step \in StepSnapshot /\ step.approval = "pending" /\ step.state = "pending"
      /\ step.results = st.results
  BY <1>1, <1>2, ApprovalFacts, Zenon DEF Approvals
<1>4. t \in Transition
  BY TransitionFacts, EngineAssumption DEF TransitionKinds
<1>5. GoodMove(i, step, "waiting_approval", issued)
  BY <1>1, <1>2, <1>3 DEF GoodMove, EndStatuses
<1>6. "waiting_approval" \in Statuses
  BY DEF Statuses
<1> HIDE DEF step, t
<1> QED
  BY <1>1, <1>3, <1>4, <1>5, <1>6, MoveKeeps, Zenon

\* Scheduling a step and retrying one: both evaluate the effect of an attempt.
LEMMA EvaluateEffectKeeps ==
    ASSUME EffectInv, NEW i \in Steps, NEW a \in Attempts, ~Ended(snap),
           snap.steps[i].state \in {"pending", "waiting_retry"}, EvaluateEffect(i, a)
    PROVE  EffectInv'
<1> DEFINE st == snap.steps[i]
           step == ToState(st, "awaiting_effect", a)
           t == T("effect_evaluation_required", i, a)
<1>1. Save(With(snap, i, step, "awaiting_effect_evaluation"), t, issued)
  BY Zenon DEF EvaluateEffect
<1>2. st \in StepSnapshot /\ Len(st.results) \in Nat /\ issued # i /\ a \in 0 .. MaxAttempts
  BY StepInv, EngineAssumption DEF Attempts
<1>3. /\ step \in StepSnapshot /\ step.approval = st.approval /\ step.state = "awaiting_effect"
      /\ step.results = st.results
  BY <1>2, ToStateFacts DEF StepStates, ActiveStates
<1>4. t \in Transition
  BY <1>2, TransitionFacts DEF TransitionKinds
<1>5. GoodMove(i, step, "awaiting_effect_evaluation", issued)
  BY <1>2, <1>3 DEF GoodMove, EndStatuses
<1>6. "awaiting_effect_evaluation" \in Statuses
  BY DEF Statuses
<1> HIDE DEF step, t
<1> QED
  BY <1>1, <1>3, <1>4, <1>5, <1>6, MoveKeeps, Zenon

\* Scheduling the next ready step, and scheduling a retry that is due.
LEMMA ScheduleKeeps ==
    ASSUME EffectInv, NEW i \in Steps, ScheduleStep(i) \/ RetryDue(i)
    PROVE  EffectInv'
<1>1. CASE ScheduleStep(i)
  <2>1. ~Ended(snap) /\ snap.steps[i].state = "pending" /\ EvaluateEffect(i, 1)
    BY <1>1, Zenon DEF ScheduleStep, NextStep, Idle, Ready
  <2>2. 1 \in Attempts
    BY EngineAssumption DEF Attempts
  <2> QED
    BY <2>1, <2>2, EvaluateEffectKeeps
<1>2. CASE RetryDue(i)
  <2>1. /\ ~Ended(snap) /\ snap.steps[i].state = "waiting_retry"
        /\ EvaluateEffect(i, snap.steps[i].attempt)
    BY <1>2, Zenon DEF RetryDue
  <2>2. snap.steps[i].attempt \in Attempts
    BY <2>1, StepInv, Zenon DEF ActiveStates
  <2> QED
    BY <2>1, <2>2, EvaluateEffectKeeps, Zenon
<1> QED
  BY <1>1, <1>2

\* An answer to an approval: granting enables the step, denying blocks it.
LEMMA ResolveApprovalKeeps ==
    ASSUME EffectInv, NEW i \in Steps, NEW granted \in BOOLEAN, ResolveApproval(i, granted)
    PROVE  EffectInv'
<1> DEFINE st == snap.steps[i]
<1>1. st.approval = "pending" /\ Busy(st) /\ ~Ended(snap)
  BY StepInv DEF ResolveApproval, Busy
<1>2. snap \in Snapshot /\ Standalone(snap)
  BY DEF EffectInv, TypeOK
<1>3. st \in StepSnapshot /\ Len(st.results) \in Nat /\ st.state = "pending" /\ issued # i
  BY <1>1, <1>2, StepInv, ShapeFacts, Zenon
<1>4. CASE granted
  <2> DEFINE step == [st EXCEPT !.approval = "granted"]
             t == T("approval_granted", i, 0)
  <2>1. Save(With(snap, i, step, "running"), t, issued)
    BY <1>4 DEF ResolveApproval
  <2>2. /\ step \in StepSnapshot /\ step.approval = "granted" /\ step.state = "pending"
        /\ step.results = st.results
    BY <1>3, ApprovalFacts, Zenon DEF Approvals
  <2>3. t \in Transition
    BY TransitionFacts, EngineAssumption DEF TransitionKinds
  <2>4. GoodMove(i, step, "running", issued)
    BY <1>1, <1>3, <2>2 DEF GoodMove, EndStatuses
  <2>5. "running" \in Statuses
    BY DEF Statuses
  <2> HIDE DEF step, t
  <2> QED
    BY <1>1, <2>1, <2>2, <2>3, <2>4, <2>5, MoveKeeps, Zenon
<1>5. CASE ~granted
  <2> DEFINE step == [Block(st) EXCEPT !.approval = "denied"]
             t == T("approval_denied", i, 0)
  <2>1. Save(With(snap, i, step, "blocked"), t, issued)
    BY <1>5 DEF ResolveApproval
  <2>2. /\ step \in StepSnapshot /\ step.approval = "denied" /\ step.state = "blocked"
        /\ step.results = st.results
    <3>1. /\ Block(st) \in StepSnapshot /\ Block(st).state = "blocked"
          /\ Block(st).results = st.results
      BY <1>3, BlockFacts, Zenon
    <3>2. "denied" \in Approvals
      BY DEF Approvals
    <3> QED
      BY <3>1, <3>2, ApprovalFacts
  <2>3. t \in Transition
    BY TransitionFacts, EngineAssumption DEF TransitionKinds
  <2>4. GoodMove(i, step, "blocked", issued)
    BY <1>1, <1>3, <2>2 DEF GoodMove
  <2>5. "blocked" \in Statuses
    BY DEF Statuses, EndStatuses
  <2> HIDE DEF step, t
  <2> QED
    BY <1>1, <2>1, <2>2, <2>3, <2>4, <2>5, MoveKeeps, Zenon
<1> QED
  BY <1>4, <1>5

\* Marking the effect in flight before it is issued (the write-ahead of an effect):
\* from here on an application is that of the current attempt.
LEMMA PrepareEffectKeeps ==
    ASSUME EffectInv, NEW i \in Steps, PrepareEffect(i)
    PROVE  EffectInv'
<1> DEFINE st == snap.steps[i]
           step == ToState(st, "in_flight", st.attempt)
           t == T("effect_started", i, st.attempt)
<1>1. /\ \/ st.state = "awaiting_effect"
         \/ st.state = "in_flight" /\ def[i].effect = "read_only" /\ issued # i
      /\ Save(With(snap, i, step, "effect_in_flight"), t, i)
  BY Zenon DEF PrepareEffect, Evaluable
<1>2. /\ st \in StepSnapshot /\ Len(st.results) \in Nat /\ ~Ended(snap) /\ issued # i
      /\ st.attempt \in 0 .. MaxAttempts
  BY <1>1, StepInv, EngineAssumption DEF Busy, ActiveStates, Attempts
<1>3. /\ step \in StepSnapshot /\ step.approval = st.approval /\ step.state = "in_flight"
      /\ step.results = st.results
  <2>1. "in_flight" \in StepStates
    BY DEF StepStates, ActiveStates
  <2> QED
    BY <1>2, <2>1, ToStateFacts
<1>4. t \in Transition
  BY <1>2, TransitionFacts, Zenon DEF TransitionKinds
<1>5. GoodMove(i, step, "effect_in_flight", i)
  BY <1>1, <1>2, <1>3, CountUp, Zenon DEF GoodMove, EndStatuses
<1>6. "effect_in_flight" \in Statuses
  BY DEF Statuses
<1> HIDE DEF step, t
<1> QED
  BY <1>1, <1>2, <1>3, <1>4, <1>5, <1>6, MoveKeeps, Zenon

\* Blocking a step: its authorization is denied, or nobody knows what became of
\* its effect.
LEMMA BlockKeeps ==
    ASSUME EffectInv, NEW i \in Steps, DenyEffectAuthorization(i) \/ ReconcileUnknown(i)
    PROVE  EffectInv'
<1> DEFINE st == snap.steps[i]
<1>1. PICK kind \in {"effect_authorization_denied", "reconciliation_unknown"}, j \in {0, issued} :
         /\ st.state \in {"awaiting_effect", "in_flight"}
         /\ Save(With(snap, i, Block(st), "blocked"), T(kind, i, st.attempt), j)
  BY Zenon DEF DenyEffectAuthorization, ReconcileUnknown, Evaluable
<1>2. /\ st \in StepSnapshot /\ Len(st.results) \in Nat /\ ~Ended(snap) /\ Busy(st)
      /\ st.attempt \in 0 .. MaxAttempts
  BY <1>1, StepInv, EngineAssumption DEF Busy, ActiveStates, Attempts
<1>3. /\ Block(st) \in StepSnapshot /\ Block(st).approval = st.approval
      /\ Block(st).state = "blocked" /\ Block(st).results = st.results
  BY <1>2, BlockFacts, Zenon
<1>4. T(kind, i, st.attempt) \in Transition
  BY <1>2, TransitionFacts, Zenon DEF TransitionKinds
<1>5. GoodMove(i, Block(st), "blocked", j)
  BY <1>1, <1>2, <1>3 DEF GoodMove
<1>6. "blocked" \in Statuses
  BY DEF Statuses, EndStatuses
<1> QED
  BY <1>1, <1>2, <1>3, <1>4, <1>5, <1>6, MoveKeeps, Zenon

\* A result ends the effect in flight; what is claimed as a success was applied.
LEMMA RecordEffectResultKeeps ==
    ASSUME EffectInv, NEW i \in Steps, NEW kind \in ResultKinds, RecordEffectResult(i, kind),
           kind = "succeeded" /\ def[i].effect = "stateful" => applied[i][snap.steps[i].attempt] > 0
    PROVE  EffectInv'
<1> DEFINE st == snap.steps[i]
<1>1. PICK state \in {"succeeded", "waiting_retry", "failed"}, a \in Nat,
           status \in {"running", "cancelling", "waiting_retry"}, tk \in TransitionKinds :
         /\ a \in 0 .. MaxAttempts
         /\ state = "succeeded" => kind = "succeeded" /\ a = st.attempt
         /\ Save(With(snap, i, WithResult(st, state, a, kind), status), T(tk, i, a), 0)
  <2>1. st.state = "in_flight"
    BY Zenon DEF RecordEffectResult
  <2>2. st.attempt \in 1 .. MaxAttempts /\ def[i].max \in 1 .. MaxAttempts
    BY <2>1, StepInv, Zenon DEF ActiveStates, Attempts
  <2>3. AfterResult(snap) \in {"running", "cancelling", "waiting_retry"}
    BY DEF AfterResult
  <2>4. CASE kind = "succeeded"
    <3>1. Save(With(snap, i, WithResult(st, "succeeded", st.attempt, kind), AfterResult(snap)),
               T("effect_succeeded", i, st.attempt), 0)
      BY <2>4, Zenon DEF RecordEffectResult
    <3>2. "effect_succeeded" \in TransitionKinds
      BY DEF TransitionKinds
    <3> QED
      BY <2>2, <2>3, <2>4, <3>1, <3>2, EngineAssumption
  <2>5. CASE kind # "succeeded" /\ RetrySchedule(i, kind)
    <3>1. Save(With(snap, i, WithResult(st, "waiting_retry", st.attempt + 1, kind), "waiting_retry"),
               T("retry_scheduled", i, st.attempt + 1), 0)
      BY <2>5, Zenon DEF RecordEffectResult
    <3>2. "retry_scheduled" \in TransitionKinds
      BY Zenon DEF TransitionKinds
    <3>3. st.attempt + 1 \in 0 .. MaxAttempts
      BY <2>2, <2>5, EngineAssumption DEF RetrySchedule
    <3> QED
      BY <3>1, <3>2, <3>3
  <2>6. CASE kind # "succeeded" /\ ~RetrySchedule(i, kind)
    <3>1. PICK tk \in {"retry_exhausted", "effect_failed"} :
             Save(With(snap, i, WithResult(st, "failed", st.attempt, kind), AfterResult(snap)),
                  T(tk, i, st.attempt), 0)
      BY <2>6, Zenon DEF RecordEffectResult
    <3>2. tk \in TransitionKinds
      BY DEF TransitionKinds
    <3> QED
      BY <2>2, <2>3, <3>1, <3>2, EngineAssumption
  <2> QED
    BY <2>4, <2>5, <2>6, Zenon
<1> DEFINE step == WithResult(st, state, a, kind)
           t == T(tk, i, a)
<1>2. st.state = "in_flight"
  BY Zenon DEF RecordEffectResult
<1>3. /\ st \in StepSnapshot /\ Len(st.results) \in Nat /\ Len(st.results) < MaxAttempts
      /\ ~Ended(snap) /\ st.attempt \in Attempts /\ i # 0
  BY <1>2, StepInv, Zenon DEF Busy, ActiveStates
<1>4. state \in StepStates
  BY Zenon DEF StepStates, ActiveStates, EndStates
<1>5. /\ step \in StepSnapshot /\ step.approval = st.approval /\ step.state = state
      /\ step.attempt = a /\ Len(step.results) = Len(st.results) + 1
  BY <1>1, <1>3, <1>4, WithResultFacts
<1>6. t \in Transition
  BY <1>1, TransitionFacts, Zenon
<1>7. status \in Statuses /\ status \notin EndStatuses
  BY DEF Statuses, EndStatuses
<1>8. GoodMove(i, step, status, 0)
  <2> HIDE DEF step
  <2>1. status # "blocked" /\ step.state # "blocked"
    BY <1>1, <1>5, Zenon
  <2>3. Len(st.results) < Len(step.results) /\ Len(st.results) <= Len(step.results)
    <3>1. ASSUME NEW n \in Nat, NEW m, m = n + 1 PROVE n < m /\ n <= m
      BY <3>1
    <3> QED
      BY <1>3, <1>5, <3>1, Zenon
  <2>2. step.state = "succeeded" /\ def[i].effect = "stateful" =>
          \E b \in Attempts : b = step.attempt /\ applied[i][b] > 0
    BY <1>1, <1>3, <1>5, Zenon
  <2> QED
    BY <1>3, <1>5, <1>7, <2>1, <2>2, <2>3, Zenon DEF GoodMove
<1>9. Save(With(snap, i, step, status), t, 0)
  BY <1>1, Zenon
<1> HIDE DEF step, t
<1> QED
  BY <1>3, <1>5, <1>6, <1>7, <1>8, <1>9, MoveKeeps, Zenon

\* After a restart, an effect the outside says was not applied goes back to be
\* issued again.
LEMMA ReconcileNotAppliedMoves ==
    ASSUME EffectInv, NEW i \in Steps, ReconcileNotApplied(i), ~snap.cancel
    PROVE  EffectInv'
<1> DEFINE st == snap.steps[i]
           step == ToState(st, "awaiting_effect", st.attempt)
           t == T("reconciled_not_applied", i, st.attempt)
<1>1. /\ st.state = "in_flight" /\ issued # i /\ applied[i][st.attempt] = 0
      /\ Save(With(snap, i, step, "awaiting_effect_evaluation"), t, issued)
  BY Zenon DEF ReconcileNotApplied, Uncertain
<1>2. /\ st \in StepSnapshot /\ Len(st.results) \in Nat /\ ~Ended(snap)
      /\ st.attempt \in 0 .. MaxAttempts
  BY <1>1, StepInv, EngineAssumption DEF Busy, ActiveStates, Attempts
<1>3. /\ step \in StepSnapshot /\ step.approval = st.approval /\ step.state = "awaiting_effect"
      /\ step.results = st.results
  BY <1>2, ToStateFacts DEF StepStates, ActiveStates
<1>4. t \in Transition
  BY <1>2, TransitionFacts, Zenon DEF TransitionKinds
<1>5. GoodMove(i, step, "awaiting_effect_evaluation", issued)
  BY <1>1, <1>2, <1>3 DEF GoodMove, EndStatuses
<1>6. "awaiting_effect_evaluation" \in Statuses
  BY DEF Statuses
<1> HIDE DEF step, t
<1> QED
  BY <1>1, <1>2, <1>3, <1>4, <1>5, <1>6, MoveKeeps, Zenon

\* Updates of the run as a whole that leave its steps as they are.
LEMMA StatusKeeps ==
    ASSUME EffectInv, NEW c \in Snapshot, NEW t \in Transition, c.steps = snap.steps,
           ~Ended(snap), c.status # "blocked",
           c.status \in EndStatuses => \A i \in Steps : StepEnded(snap, i), Save(c, t, issued)
    PROVE  EffectInv'
<1>1. CASE Refused(t)
  BY <1>1, RefusedKeeps, Zenon
<1>2. CASE Accepted(c, issued)
  <2>1. /\ snap' = c /\ def' = def /\ applied' = applied /\ rejected' = rejected
        /\ crashes' = crashes /\ issued' = issued /\ performed' = performed
    BY <1>2 DEF Accepted, EffectInv, TypeOK
  <2>2. Standalone(snap)'
    <3>1. Standalone(snap)' <=> Standalone(snap')
      BY Zenon DEF Standalone, StatusShape, OneActive, ComputedStatus, InState, StepEnded, PendingApproval
    <3> QED
      BY <1>2, <3>1, Zenon DEF Accepted
  <2>3. TypeOK' /\ ApprovalMatches'
    BY <2>1, Zenon DEF EffectInv, TypeOK, ApprovalMatches
  <2>4. EndIsQuiet'
    <3>1. ~InState(snap, "blocked")
      BY Zenon DEF EffectInv, EndIsQuiet, Ended, EndStatuses
    <3>2. ASSUME Ended(snap)', NEW i \in Steps PROVE ~Busy(snap.steps[i])'
      <4>1. snap.steps[i].state \in EndStates
        BY <2>1, <3>2, Zenon DEF Ended, StepEnded
      <4>2. snap.steps[i].approval = "pending" => snap.steps[i].state = "pending"
        BY ShapeFacts, Zenon DEF EffectInv, TypeOK
      <4> QED
        BY <2>1, <4>1, <4>2, Zenon DEF Busy, ActiveStates, EndStates
    <3> QED
      BY <2>1, <3>1, <3>2, Zenon DEF EndIsQuiet, InState
  <2>5. \A i \in Steps : Traced(i)'
    BY <2>1 DEF EffectInv, Traced
  <2> QED
    BY <2>1, <2>2, <2>3, <2>4, <2>5 DEF EffectInv
<1> QED
  BY <1>1, <1>2, SaveCases, Zenon

\* Completing the run once every step has ended.
LEMMA CompleteRunKeeps ==
    ASSUME EffectInv, CompleteRun
    PROVE  EffectInv'
<1> DEFINE status == IF InState(snap, "failed") THEN "unresolved" ELSE "succeeded"
           c == [snap EXCEPT !.status = status]
<1>1. /\ ~Ended(snap) /\ \A i \in Steps : StepEnded(snap, i)
      /\ Save(c, T("run_completed", 0, 0), issued)
  BY DEF CompleteRun, Idle
<1>2. status \in Statuses /\ status # "blocked"
  BY DEF Statuses, EndStatuses
<1>3. c \in Snapshot /\ c.steps = snap.steps /\ c.status = status
  BY <1>2 DEF EffectInv, TypeOK, Snapshot
<1>4. T("run_completed", 0, 0) \in Transition
  BY TransitionFacts, EngineAssumption DEF TransitionKinds
<1> HIDE DEF c, status
<1> QED
  BY <1>1, <1>2, <1>3, <1>4, StatusKeeps, Zenon

\* Cancelling the whole run: no stateful effect may be in flight with an
\* application nobody has recorded.
LEMMA FinishCancelledKeeps ==
    ASSUME EffectInv, ~Ended(snap), FinishCancelled,
           \A i \in Steps : snap.steps[i].state = "in_flight" /\ def[i].effect = "stateful" =>
               applied[i][snap.steps[i].attempt] = 0
    PROVE  EffectInv'
<1> DEFINE c == AllCancelled(snap)
           t == T("run_completed", 0, 0)
<1>1. t \in Transition
  BY TransitionFacts, EngineAssumption DEF TransitionKinds
<1>2. CASE Refused(t)
  BY <1>1, <1>2, RefusedKeeps
<1>3. CASE Accepted(c, 0)
  <2>1. snap \in Snapshot /\ Standalone(snap)
    BY Zenon DEF EffectInv, TypeOK
  <2>2. /\ snap' \in Snapshot /\ snap'.status = "cancelled"
        /\ \A i \in Steps :
             /\ snap'.steps[i].state = IF StepEnded(snap, i) THEN snap.steps[i].state ELSE "cancelled"
             /\ snap'.steps[i].attempt = IF StepEnded(snap, i) THEN snap.steps[i].attempt ELSE 0
             /\ snap'.steps[i].approval = IF snap.steps[i].approval = "pending"
                                          THEN "not_requested" ELSE snap.steps[i].approval
             /\ snap'.steps[i].results = snap.steps[i].results
    BY <1>3, <2>1, CancelledFacts, Zenon DEF Accepted
  <2>3. /\ def' = def /\ applied' = applied /\ rejected' = rejected /\ crashes' = crashes
        /\ issued' = 0 /\ performed' = (performed /\ 0 = issued) /\ Standalone(snap)'
    <3>1. Standalone(snap)' <=> Standalone(snap')
      BY Zenon DEF Standalone, StatusShape, OneActive, ComputedStatus, InState, StepEnded, PendingApproval
    <3> QED
      BY <1>3, <3>1, Zenon DEF Accepted
  <2>4. performed' = FALSE
    BY <2>3, Zenon DEF EffectInv
  <2>5. TypeOK'
    BY <2>2, <2>3, <2>4, Zenon DEF EffectInv, TypeOK
  <2>6. ApprovalMatches'
    BY <2>2, <2>3, Zenon DEF EffectInv, ApprovalMatches
  <2>7. EndIsQuiet'
    <3>1. \A i \in Steps : snap.steps[i].state # "blocked"
      BY Zenon DEF EffectInv, EndIsQuiet, Ended, EndStatuses, InState
    <3>2. \A i \in Steps : ~Busy(snap'.steps[i]) /\ snap'.steps[i].state # "blocked"
      BY <2>2, <3>1, Zenon DEF Busy, StepEnded, EndStates, ActiveStates
    <3> QED
      BY <2>2, <3>2, Zenon DEF EndIsQuiet, InState
  <2>8. ASSUME NEW i \in Steps PROVE Traced(i)'
    <3>1. Traced(i) /\ i # 0
      BY DEF EffectInv, Steps
    <3>2. ASSUME NEW a \in Attempts, applied[i][a] > 0
          PROVE  ~(snap.steps[i].state = "in_flight" /\ a = snap.steps[i].attempt)
      <4>1. def[i].effect = "stateful" /\ applied[i][a] \in Nat
        BY <3>1, <3>2, Zenon DEF Traced, EffectInv, TypeOK
      <4> QED
        BY <3>2, <4>1
    <3>3. \A a \in Attempts :
            /\ applied[i][a] <= 1
            /\ applied[i][a] > 0 =>
                 /\ def[i].effect = "stateful" /\ snap.steps[i].approval = "granted"
                 /\ a <= Len(snap.steps[i].results) \/ snap.steps[i].state = "blocked"
      BY <3>1, <3>2, Zenon DEF Traced
    <3>4. snap'.steps[i].state = "succeeded" /\ def[i].effect = "stateful" =>
            \E a \in Attempts : a = snap'.steps[i].attempt /\ applied[i][a] > 0
      BY <2>2, <3>1, Zenon DEF Traced, StepEnded, EndStates
    <3>5. snap.steps[i].state = "blocked" => snap'.steps[i].state = "blocked"
      BY <2>2, Zenon DEF StepEnded, EndStates
    <3> QED
      BY <2>2, <2>3, <3>1, <3>3, <3>4, <3>5, Zenon DEF Traced
  <2> QED
    BY <2>3, <2>4, <2>5, <2>6, <2>7, <2>8, Zenon DEF EffectInv
<1> QED
  BY <1>2, <1>3, SaveCases, Zenon DEF FinishCancelled

\* Every path that cancels: the request while an effect is in flight, the
\* cancellation at once, and the one after the effect is known.
LEMMA CancellationKeeps ==
    ASSUME EffectInv,
           Cancel \/ FinishCancelling \/ \E i \in Steps : snap.cancel /\ ReconcileNotApplied(i)
    PROVE  EffectInv'
<1>1. CASE FinishCancelling
  BY <1>1, FinishCancelledKeeps, Zenon DEF FinishCancelling, InState
<1>2. CASE Cancel
  <2>1. CASE \E i \in Steps : snap.steps[i].state = "in_flight" /\ def[i].effect = "stateful"
    <3> DEFINE c == [snap EXCEPT !.cancel = TRUE, !.status = "cancelling"]
    <3>1. ~Ended(snap) /\ Save(c, T("cancellation_requested", 0, 0), issued)
      BY <1>2, <2>1 DEF Cancel
    <3>2. "cancelling" \in Statuses /\ "cancelling" \notin EndStatuses
      BY DEF Statuses, EndStatuses
    <3>3. c \in Snapshot /\ c.steps = snap.steps /\ c.status = "cancelling"
      BY <3>2, Zenon DEF EffectInv, TypeOK, Snapshot
    <3>4. T("cancellation_requested", 0, 0) \in Transition
      BY TransitionFacts, EngineAssumption DEF TransitionKinds
    <3> HIDE DEF c
    <3> QED
      BY <3>1, <3>2, <3>3, <3>4, StatusKeeps, Zenon
  <2>2. CASE ~\E i \in Steps : snap.steps[i].state = "in_flight" /\ def[i].effect = "stateful"
    BY <1>2, <2>2, FinishCancelledKeeps DEF Cancel
  <2> QED
    BY <2>1, <2>2
<1>3. CASE \E i \in Steps : snap.cancel /\ ReconcileNotApplied(i)
  <2>1. PICK i \in Steps : snap.cancel /\ ReconcileNotApplied(i)
    BY <1>3
  <2>2. /\ snap.steps[i].state = "in_flight" /\ applied[i][snap.steps[i].attempt] = 0
        /\ FinishCancelled
    BY <2>1, Zenon DEF ReconcileNotApplied, Uncertain
  <2>3. ~Ended(snap)
    BY <2>2, StepInv, Zenon DEF Busy, ActiveStates
  <2>4. \A k \in Steps : snap.steps[k].state = "in_flight" => k = i
    BY <2>2, Zenon DEF EffectInv, Standalone, StatusShape, OneActive, ActiveStates
  <2> QED
    BY <2>2, <2>3, <2>4, FinishCancelledKeeps, Zenon
<1> QED
  BY <1>1, <1>2, <1>3

\* The outside performs the issued effect once: the count of the attempt in flight
\* goes from zero to one, because the worker performs what it issued at most once.
LEMMA PerformKeeps ==
    ASSUME EffectInv, NEW i \in Steps, Perform(i)
    PROVE  EffectInv'
<1> DEFINE a == snap.steps[i].attempt
<1>1. /\ issued = i /\ snap.steps[i].state = "in_flight" /\ performed = FALSE
      /\ performed' = TRUE
      /\ def' = def /\ snap' = snap /\ issued' = issued /\ rejected' = rejected /\ crashes' = crashes
      /\ applied' = IF def[i].effect = "stateful"
                    THEN [applied EXCEPT ![i][a] = @ + 1] ELSE applied
  BY Zenon DEF Perform, EffectInv, TypeOK
<1>2. a \in Attempts /\ i # 0 /\ a = Len(snap.steps[i].results) + 1 /\ Len(snap.steps[i].results) \in Nat
  BY <1>1, StepInv, Zenon DEF ActiveStates
<1>3. applied \in [Steps -> [Attempts -> Nat]] /\ def \in Definitions
  BY DEF EffectInv, TypeOK
<1>4. Standalone(snap)' /\ ApprovalMatches' /\ EndIsQuiet'
  BY <1>1, ZenonT(40) DEF EffectInv, Standalone, ApprovalMatches, EndIsQuiet, StatusShape, ComputedStatus,
              OneActive, InState, StepEnded, PendingApproval, Ended
<1>5. CASE def[i].effect # "stateful"
  <2>1. applied' = applied
    BY <1>1, <1>5, Zenon
  <2>2. TypeOK'
    BY <1>1, <2>1, Zenon DEF EffectInv, TypeOK
  <2>3. ASSUME NEW k \in Steps PROVE Traced(k)'
    <3>1. Traced(k)
      BY DEF EffectInv
    <3> QED
      BY <1>1, <1>5, <2>1, <3>1, Zenon DEF Traced
  <2> QED
    BY <1>1, <1>2, <1>4, <2>2, <2>3, Zenon DEF EffectInv
<1>6. CASE def[i].effect = "stateful"
  <2>1. applied[i][a] = 0
    <3>1. Traced(i) /\ applied[i][a] \in Nat
      BY <1>2, <1>3, Zenon DEF EffectInv
    <3>2. ~(applied[i][a] > 0)
      BY <1>1, <1>2, <3>1 DEF Traced
    <3> QED
      BY <3>1, <3>2
  <2>2. /\ applied' \in [Steps -> [Attempts -> Nat]]
        /\ applied'[i][a] = 1
        /\ \A k \in Steps, b \in Attempts : k # i \/ b # a => applied'[k][b] = applied[k][b]
    BY <1>1, <1>2, <1>3, <1>6, <2>1
  <2>3. TypeOK'
    BY <1>1, <2>2, Zenon DEF EffectInv, TypeOK
  <2>4. snap.steps[i].approval = "granted"
    <3>1. snap.steps[i].approval \in {"granted", "not_required"}
      BY <1>1, ShapeFacts, Zenon DEF EffectInv, TypeOK, ActiveStates
    <3>2. def[i].approval = "required"
      BY <1>3, <1>6, DefinitionFacts, Zenon
    <3> QED
      BY <3>1, <3>2, Zenon DEF EffectInv, ApprovalMatches
  <2>5. ASSUME NEW k \in Steps PROVE Traced(k)'
    <3>1. Traced(k)
      BY DEF EffectInv
    <3>2. CASE k # i
      BY <1>1, <2>2, <3>1, <3>2, Zenon DEF Traced
    <3>3. CASE k = i
      <4> DEFINE st == snap.steps[i]
      <4>1. \A b \in Attempts \ {a} : /\ applied'[i][b] = applied[i][b] /\ applied[i][b] <= 1
                                      /\ applied[i][b] > 0 => b <= Len(st.results)
        BY <1>1, <2>2, <3>1, <3>3, ZenonT(40) DEF Traced
      <4>2. ASSUME NEW b \in Attempts
            PROVE  applied'[i][b] <= 1 /\ (applied'[i][b] > 0 => b <= Len(st.results) \/ b = a)
        <5>1. CASE b = a
          BY <2>2, <5>1
        <5>2. CASE b # a
          BY <4>1, <5>2, Zenon
        <5> QED
          BY <5>1, <5>2, Zenon
      <4>3. applied'[i][a] > 0
        BY <2>2
      <4> QED
        BY <1>1, <1>2, <1>6, <2>4, <3>3, <4>2, <4>3, Zenon DEF Traced
    <3> QED
      BY <3>2, <3>3
  <2> QED
    BY <1>1, <1>2, <1>4, <2>3, <2>5 DEF EffectInv
<1> QED
  BY <1>5, <1>6

\* A crash forgets the worker's memory; the snapshot and the world stay.
LEMMA CrashKeeps ==
    ASSUME EffectInv, Crash
    PROVE  EffectInv'
<1>1. /\ def' = def /\ snap' = snap /\ applied' = applied /\ rejected' = rejected
      /\ crashes' = crashes + 1 /\ issued' = 0 /\ performed' = FALSE
  BY DEF Crash
<1>2. TypeOK'
  <2>1. crashes + 1 \in Nat
    BY DEF EffectInv, TypeOK
  <2> QED
    BY <1>1, <2>1, Zenon DEF EffectInv, TypeOK
<1>3. Standalone(snap)' /\ ApprovalMatches' /\ EndIsQuiet'
  BY <1>1, ZenonT(40) DEF EffectInv, Standalone, ApprovalMatches, EndIsQuiet, StatusShape, ComputedStatus,
              OneActive, InState, StepEnded, PendingApproval, Ended
<1>4. ASSUME NEW i \in Steps PROVE Traced(i)'
  <2>1. Traced(i) /\ i # 0
    BY DEF EffectInv, Steps
  <2> QED
    BY <1>1, <2>1, Zenon DEF Traced
<1> QED
  BY <1>1, <1>2, <1>3, <1>4 DEF EffectInv

\* A result, reported by the worker or found at reconciliation.
LEMMA ResultKeeps ==
    ASSUME EffectInv, NEW i \in Steps, NEW kind \in ResultKinds,
           ReportResult(i, kind) \/ ReconcileCompleted(i, kind)
    PROVE  EffectInv'
<1>1. RecordEffectResult(i, kind) /\ snap.steps[i].state = "in_flight"
  BY Zenon DEF ReportResult, ReconcileCompleted, RecordEffectResult
<1>2. kind = "succeeded" /\ def[i].effect = "stateful" => applied[i][snap.steps[i].attempt] > 0
  <2>1. CASE ReconcileCompleted(i, kind)
    BY <2>1, Zenon DEF ReconcileCompleted
  <2>2. CASE ReportResult(i, kind)
    <3>1. Traced(i)
      BY DEF EffectInv
    <3>2. issued = i /\ (kind = "succeeded" => performed)
      BY <2>2 DEF ReportResult
    <3> QED
      BY <1>1, <3>1, <3>2, Zenon DEF Traced
  <2> QED
    BY <2>1, <2>2, Zenon
<1> QED
  BY <1>1, <1>2, RecordEffectResultKeeps, Zenon

-----------------------------------------------------------------------------
\* A new run: nothing done, nothing applied.
LEMMA InitEffectInv ==
    ASSUME Init
    PROVE  EffectInv
<1> DEFINE First(i) ==
             [approval |-> IF def[i].approval = "none" THEN "not_required" ELSE "not_requested",
              state |-> "pending", attempt |-> 0, results |-> <<>>, report |-> FALSE]
<1>1. /\ def \in Definitions /\ issued = 0 /\ performed = FALSE /\ rejected = NoTransition
      /\ applied = [i \in Steps |-> [a \in Attempts |-> 0]] /\ crashes = 0
      /\ snap = [status |-> "running", cancel |-> FALSE, steps |-> [i \in Steps |-> First(i)]]
  BY Zenon DEF Init
<1>2. <<>> \in UNION {[1 .. n -> ResultKinds] : n \in 0 .. MaxAttempts} /\ Len(<<>>) = 0
  <2>1. <<>> \in [1 .. 0 -> ResultKinds] /\ 0 \in 0 .. MaxAttempts
    BY EngineAssumption
  <2> QED
    BY <2>1
<1>3. ASSUME NEW i \in Steps
      PROVE  /\ First(i) \in StepSnapshot
             /\ First(i).state = "pending" /\ First(i).results = <<>> /\ First(i).report = FALSE
             /\ First(i).approval \in {"not_required", "not_requested"}
             /\ First(i).approval = "not_required" <=> def[i].approval = "none"
  BY <1>2, EngineAssumption DEF StepSnapshot, Approvals, StepStates
<1> HIDE DEF First
<1>4. /\ snap \in Snapshot /\ snap.status = "running" /\ snap.cancel = FALSE
      /\ \A i \in Steps : snap.steps[i] = First(i)
  BY <1>1, <1>3, Zenon DEF Snapshot, Statuses
<1>5. TypeOK
  <2>1. rejected \in Transition
    BY <1>1, EngineAssumption DEF NoTransition, T, Transition, TransitionKinds
  <2> QED
    BY <1>1, <1>4, <2>1, Zenon DEF TypeOK
<1>6. Standalone(snap)
  <2>1. ASSUME NEW i \in Steps
        PROVE  /\ ApprovalShape(snap.steps[i])
               /\ StepShape(snap.steps[i], MaxAttempts, {"succeeded", "failed"}, TRUE)
               /\ snap.steps[i].state \notin ActiveStates
               /\ snap.steps[i].state = "pending"
               /\ snap.steps[i].approval # "pending"
    <3> DEFINE st == snap.steps[i]
    <3>1. /\ st.state = "pending" /\ st.results = <<>> /\ st.report = FALSE /\ Len(st.results) = 0
          /\ st.approval \in {"not_required", "not_requested"}
      BY <1>2, <1>3, <1>4, Zenon
    <3> HIDE DEF st
    <3>2. ApprovalShape(st)
      BY <3>1, Zenon DEF ApprovalShape
    <3>3. RetryHistory(st, st.state \in {"succeeded", "failed"})
      BY <3>1 DEF RetryHistory
    <3>4. StepShape(st, MaxAttempts, {"succeeded", "failed"}, TRUE) /\ st.state \notin ActiveStates
      BY <3>1, <3>3, Zenon DEF StepShape, ActiveStates
    <3> QED
      BY <3>1, <3>2, <3>4, Zenon DEF st
  <2>2. StatusShape(snap)
    BY <1>4, <2>1, Zenon DEF StatusShape, OneActive, ComputedStatus, InState, PendingApproval
  <2> QED
    BY <2>1, <2>2, Zenon DEF Standalone
<1>7. ApprovalMatches
  BY <1>3, <1>4, Zenon DEF ApprovalMatches
<1>8. EndIsQuiet
  BY <1>3, <1>4, Zenon DEF EndIsQuiet, InState, Ended, EndStatuses
<1>9. ASSUME NEW i \in Steps PROVE Traced(i)
  <2>1. snap.steps[i].state = "pending" /\ issued # i
    <3>1. snap.steps[i].state = "pending"
      BY <1>3, <1>4, Zenon
    <3>2. i # 0
      BY DEF Steps
    <3> QED
      BY <1>1, <3>1, <3>2, Zenon
  <2>2. \A a \in Attempts : applied[i][a] = 0
    BY <1>1, Zenon
  <2>3. \A a \in Attempts : applied[i][a] <= 1 /\ ~(applied[i][a] > 0)
    BY <2>2
  <2> QED
    BY <2>1, <2>3, Zenon DEF Traced
<1> QED
  BY <1>1, <1>5, <1>6, <1>7, <1>8, <1>9 DEF EffectInv

\* Every action of the engine, the world and the crash keeps EffectInv.
LEMMA NextEffectInv ==
    ASSUME EffectInv, [Next]_vars
    PROVE  EffectInv'
<1>1. CASE CompleteRun
  BY <1>1, CompleteRunKeeps
<1>2. CASE FinishCancelling \/ Cancel
  BY <1>2, CancellationKeeps
<1>3. ASSUME NEW i \in Steps, SkipStep(i) PROVE EffectInv'
  BY <1>3, SkipStepKeeps
<1>4. ASSUME NEW i \in Steps, RequestApproval(i) PROVE EffectInv'
  BY <1>4, RequestApprovalKeeps
<1>5. ASSUME NEW i \in Steps, ScheduleStep(i) \/ RetryDue(i) PROVE EffectInv'
  BY <1>5, ScheduleKeeps
<1>6. ASSUME NEW i \in Steps, PrepareEffect(i) PROVE EffectInv'
  BY <1>6, PrepareEffectKeeps
<1>7. ASSUME NEW i \in Steps, DenyEffectAuthorization(i) \/ ReconcileUnknown(i) PROVE EffectInv'
  BY <1>7, BlockKeeps
<1>8. ASSUME NEW i \in Steps, ReconcileNotApplied(i) PROVE EffectInv'
  <2>1. CASE snap.cancel
    BY <1>8, <2>1, CancellationKeeps
  <2>2. CASE ~snap.cancel
    BY <1>8, <2>2, ReconcileNotAppliedMoves
  <2> QED
    BY <2>1, <2>2
<1>9. ASSUME NEW i \in Steps, NEW kind \in ResultKinds,
             ReportResult(i, kind) \/ ReconcileCompleted(i, kind)
      PROVE  EffectInv'
  BY <1>9, ResultKeeps
<1>10. ASSUME NEW i \in Steps, Perform(i) PROVE EffectInv'
  BY <1>10, PerformKeeps
<1>11. ASSUME NEW i \in Steps, NEW granted \in BOOLEAN, ResolveApproval(i, granted) PROVE EffectInv'
  BY <1>11, ResolveApprovalKeeps
<1>12. CASE Crash
  BY <1>12, CrashKeeps
<1>13. CASE UNCHANGED vars
  <2>1. /\ def' = def /\ snap' = snap /\ applied' = applied /\ rejected' = rejected
        /\ crashes' = crashes /\ issued' = issued /\ performed' = performed
    BY <1>13 DEF vars
  <2>2. Standalone(snap)' /\ ApprovalMatches' /\ EndIsQuiet'
    BY <2>1, Zenon DEF EffectInv, Standalone, ApprovalMatches, EndIsQuiet, StatusShape, ComputedStatus,
                OneActive, InState, StepEnded, PendingApproval, Ended
  <2>3. TypeOK' /\ \A i \in Steps : Traced(i)'
    BY <2>1, ZenonT(40) DEF EffectInv, TypeOK, Traced
  <2> QED
    BY <2>1, <2>2, <2>3, Zenon DEF EffectInv
<1> QED
  BY <1>1, <1>2, <1>3, <1>4, <1>5, <1>6, <1>7, <1>8, <1>9, <1>10, <1>11, <1>12, <1>13, Zenon
     DEF Next, Work

\* EffectInv holds in every reachable state, for every number of steps and attempts
\* and every definition the engine accepts.
THEOREM EffectInvariant == Spec => []EffectInv
<1>1. Init => EffectInv
  BY InitEffectInv
<1>2. EffectInv /\ [Next]_vars => EffectInv'
  BY NextEffectInv
<1> QED
  BY <1>1, <1>2, PTL DEF Spec

\* EffectsAreAccountedFor: whatever crashes, is retried or cancelled, an attempt of
\* a stateful step is applied at most once, and a run that ended has a result or a
\* blocked step for all it applied.
THEOREM EffectsAccounted == Spec => []EffectsAreAccountedFor
<1>1. EffectInv => EffectsAreAccountedFor
  <2> SUFFICES ASSUME EffectInv PROVE EffectsAreAccountedFor
    OBVIOUS
  <2>1. AppliedOncePerAttempt
    BY Zenon DEF EffectInv, Traced, AppliedOncePerAttempt
  <2>2. NoUnrecordedEffect
    <3>1. Ended(snap) => \A i \in Steps : snap.steps[i].state # "in_flight"
      BY Zenon DEF EffectInv, EndIsQuiet, Busy, ActiveStates
    <3> QED
      BY <3>1, Zenon DEF EffectInv, Traced, NoUnrecordedEffect
  <2> QED
    BY <2>1, <2>2 DEF EffectsAreAccountedFor
<1> QED
  BY <1>1, EffectInvariant, PTL

\* NoEffectWithoutApproval: no definition, interleaving or crash lets a stateful
\* effect reach the world before the approval of its step was granted.
THEOREM EffectsApproved == Spec => []NoEffectWithoutApproval
<1>1. EffectInv => NoEffectWithoutApproval
  BY Zenon DEF EffectInv, Traced, NoEffectWithoutApproval
<1> QED
  BY <1>1, EffectInvariant, PTL

\* ReportIsTrue: what the outcome report of an ended run says of its steps is what
\* happened in the world.
THEOREM ReportTrue == Spec => []ReportIsTrue
<1>1. EffectInv => ReportIsTrue
  <2> SUFFICES ASSUME EffectInv, Ended(snap),
                      NEW verify \in SUBSET {i \in Steps : def[i].effect = "read_only"}
               PROVE  LET r == OutcomeReport(snap, verify)
                          named == r.changed.steps \cup r.unresolved.steps \cup r.blocked.steps
                      IN  /\ \A i \in r.changed.steps : \E a \in Attempts :
                               a = snap.steps[i].attempt /\ applied[i][a] > 0
                          /\ r.solved.satisfied => r.unresolved.steps \cup r.blocked.steps = {}
                          /\ r.unresolved.satisfied => r.unresolved.steps # {}
                          /\ r.blocked.satisfied <=> r.blocked.steps # {}
                          /\ \A i \in Steps : (\E a \in Attempts : applied[i][a] > 0) =>
                                i \in named \/ snap.steps[i].state = "cancelled"
    BY Zenon DEF ReportIsTrue
  <2> DEFINE r == OutcomeReport(snap, verify)
             In(state) == {i \in Steps : snap.steps[i].state = state}
  <2>1. /\ r.changed.steps = {i \in In("succeeded") : def[i].effect = "stateful"}
        /\ r.solved.satisfied <=> snap.status = "succeeded"
        /\ r.unresolved.satisfied <=> snap.status = "unresolved"
        /\ r.unresolved.steps = In("failed")
        /\ r.blocked.satisfied <=> snap.status = "blocked"
        /\ r.blocked.steps = In("blocked")
    BY Zenon DEF OutcomeReport, OutcomeSection
  <2> HIDE DEF r
  <2>2. snap \in Snapshot /\ Standalone(snap) /\ ComputedStatus(snap) = snap.status
    BY Zenon DEF EffectInv, TypeOK, Standalone, StatusShape
  <2>3. \A i \in r.changed.steps : \E a \in Attempts : a = snap.steps[i].attempt /\ applied[i][a] > 0
    BY <2>1, Zenon DEF EffectInv, Traced
  <2>4. snap.status = "succeeded" => ~InState(snap, "failed") /\ ~InState(snap, "blocked")
    BY <2>2, Zenon DEF ComputedStatus
  <2>5. snap.status = "unresolved" => InState(snap, "failed")
    BY <2>2, Zenon DEF ComputedStatus
  <2>6. snap.status = "blocked" <=> InState(snap, "blocked")
    BY Zenon DEF EffectInv, EndIsQuiet
  <2>7. ASSUME NEW i \in Steps, NEW a \in Attempts, applied[i][a] > 0
        PROVE  /\ def[i].effect = "stateful"
               /\ snap.steps[i].state \in {"succeeded", "failed", "blocked", "cancelled"}
    <3> DEFINE st == snap.steps[i]
    <3>1. Traced(i) /\ ~Busy(st)
      BY Zenon DEF EffectInv, EndIsQuiet
    <3>2. def[i].effect = "stateful" /\ (a <= Len(st.results) \/ st.state \in {"blocked", "in_flight"})
      BY <2>7, <3>1, Zenon DEF Traced
    <3>3. st.state \in StepStates /\ (st.state \in {"pending", "skipped"} => Len(st.results) = 0)
      BY <2>2, ShapeFacts, StepFacts, Zenon
    <3>4. ~(a <= 0)
      BY DEF Attempts
    <3> QED
      BY <3>1, <3>2, <3>3, <3>4, Zenon DEF StepStates, EndStates, Busy
  <2>8. r.solved.satisfied => r.unresolved.steps \cup r.blocked.steps = {}
    BY <2>1, <2>4, ZenonT(40) DEF InState
  <2>9. /\ r.unresolved.satisfied => r.unresolved.steps # {}
        /\ r.blocked.satisfied <=> r.blocked.steps # {}
    BY <2>1, <2>5, <2>6, Zenon DEF InState
  <2>10. \A i \in Steps : (\E a \in Attempts : applied[i][a] > 0) =>
           \/ i \in r.changed.steps \cup r.unresolved.steps \cup r.blocked.steps
           \/ snap.steps[i].state = "cancelled"
    BY <2>1, <2>7, Zenon
  <2> QED
    BY <2>3, <2>8, <2>9, <2>10, Zenon DEF r
<1> QED
  BY <1>1, EffectInvariant, PTL

-----------------------------------------------------------------------------
(* What the engine writes *)

\* What a step of a stored snapshot looks like; both validators follow from it.
FitStep(i, st, cancel) ==
    /\ Len(st.results) <= def[i].max
    /\ def[i].approval = "none" <=> st.approval = "not_required"
    /\ ApprovalShape(st)
    /\ StepShape(st, def[i].max, {"succeeded", "failed"}, cancel)
    /\ st.state \in ActiveStates \cup {"succeeded", "failed"} => ~st.report
    /\ st.state = "cancelled" => cancel

\* A step is decided on once its prerequisites have ended, and skipped exactly if
\* its condition is false.
Decided(st) == st.state # "cancelled" /\ (st.state # "pending" \/ st.approval \in {"pending", "granted"})

Settled(s, i) ==
    Decided(s.steps[i]) =>
        PrerequisitesComplete(s, i) /\ (s.steps[i].state = "skipped" <=> ~ConditionTrue(s, i))

\* The step whose approval is awaited is the first that is ready.
FirstAwaited ==
    \A i \in Steps : snap.steps[i].approval = "pending" => \A k \in Steps : k < i => ~Ready(k)

\* The transition the store refused is a skip, which stays the right decision.
RefusedSkip ==
    rejected # NoTransition =>
        /\ rejected.kind = "step_skipped" /\ rejected.step \in Steps
        /\ snap.steps[rejected.step].approval = "not_requested"
        /\ PrerequisitesComplete(snap, rejected.step) /\ ~ConditionTrue(snap, rejected.step)

\* A run that is being cancelled awaits no approval.
CancelAwaitsNothing == snap.cancel => \A i \in Steps : snap.steps[i].approval # "pending"

\* The inductive invariant of the writes.
WriteInv ==
    /\ \A i \in Steps : FitStep(i, snap.steps[i], snap.cancel) /\ Settled(snap, i)
    /\ FirstAwaited
    /\ CancelAwaitsNothing
    /\ RefusedSkip

\* Counting attempts: one more than the results so far, and never past the step's
\* maximum (RetryPolicy).
LEMMA AttemptCounts ==
    /\ Attempts \subseteq 0 .. MaxAttempts
    /\ \A n \in Nat : n + 1 > 0 /\ (n + 1) + 1 = n + 2
    /\ \A n \in Nat, k \in Nat : k \in 1 .. (n + 1) /\ k # n + 1 => k \in 1 .. n
BY EngineAssumption DEF Attempts

\* The attempt after one that is below the maximum.
LEMMA NextAttempt ==
    ASSUME NEW n \in Nat, NEW t, t = n + 1, NEW m \in 1 .. MaxAttempts, t < m, NEW a, a = t + 1
    PROVE  a = n + 2 /\ a <= m /\ a \in 0 .. MaxAttempts
BY EngineAssumption

-----------------------------------------------------------------------------
\* A step that fits is one the store's validator takes.
LEMMA FitIsStandalone ==
    ASSUME def \in Definitions, NEW i \in Steps, NEW st \in StepSnapshot, NEW cancel \in BOOLEAN,
           FitStep(i, st, cancel)
    PROVE  /\ ApprovalShape(st)
           /\ StepShape(st, MaxAttempts, {"succeeded", "failed"}, TRUE)
           /\ StepShape(st, def[i].max, {"succeeded", "failed", "cancelled"}, cancel)
           /\ st.state \in ActiveStates => ~st.report
           /\ st.state \in {"succeeded", "failed"} => ~st.report
<1>1. /\ ApprovalShape(st) /\ StepShape(st, def[i].max, {"succeeded", "failed"}, cancel)
      /\ st.state \in ActiveStates \cup {"succeeded", "failed"} => ~st.report
  BY DEF FitStep
<1>2. st.attempt \in 0 .. MaxAttempts /\ def[i].max \in 1 .. MaxAttempts
  BY StepFacts, DefinitionFacts DEF Attempts
<1>3. st.attempt <= def[i].max => st.attempt <= MaxAttempts
  BY <1>2, EngineAssumption
<1>4. RetryHistory(st, st.state \in {"succeeded", "failed"})
  BY <1>1 DEF StepShape
<1>5. RetryHistory(st, st.state \in {"succeeded", "failed", "cancelled"})
  BY <1>4 DEF RetryHistory
<1>6. StepShape(st, MaxAttempts, {"succeeded", "failed"}, TRUE)
  BY <1>1, <1>3, <1>4 DEF StepShape
<1>7. StepShape(st, def[i].max, {"succeeded", "failed", "cancelled"}, cancel)
  BY <1>1, <1>5 DEF StepShape
<1> QED
  BY <1>1, <1>6, <1>7, Zenon

\* A snapshot whose steps fit passes both validators.
LEMMA FitIsValid ==
    ASSUME def \in Definitions, NEW s \in Snapshot, StatusShape(s),
           \A i \in Steps : FitStep(i, s.steps[i], s.cancel)
    PROVE  /\ Standalone(s)
           /\ (\A i \in Steps : Settled(s, i)) => ResumeValid(s)
<1>1. s.cancel \in BOOLEAN /\ \A i \in Steps : s.steps[i] \in StepSnapshot
  BY DEF Snapshot
<1>2. \A i \in Steps :
        /\ ApprovalShape(s.steps[i])
        /\ StepShape(s.steps[i], MaxAttempts, {"succeeded", "failed"}, TRUE)
        /\ StepShape(s.steps[i], def[i].max, {"succeeded", "failed", "cancelled"}, s.cancel)
        /\ s.steps[i].state \in ActiveStates => ~s.steps[i].report
        /\ s.steps[i].state \in {"succeeded", "failed"} => ~s.steps[i].report
  BY <1>1, FitIsStandalone, Zenon
<1>3. Standalone(s)
  BY <1>2, Zenon DEF Standalone
<1>4. ASSUME \A i \in Steps : Settled(s, i) PROVE ResumeValid(s)
  <2>1. ASSUME NEW i \in Steps
        PROVE  LET st == s.steps[i] IN
               /\ Len(st.results) <= def[i].max
               /\ def[i].approval = "none" <=> st.approval = "not_required"
               /\ ApprovalShape(st)
               /\ StepShape(st, def[i].max, {"succeeded", "failed", "cancelled"}, s.cancel)
               /\ st.state = "cancelled" => s.cancel
               /\ st.state # "cancelled"
                    /\ (st.state # "pending" \/ st.approval \in {"pending", "granted"}) =>
                    /\ PrerequisitesComplete(s, i)
                    /\ st.state = "skipped" <=> ~ConditionTrue(s, i)
    <3>1. FitStep(i, s.steps[i], s.cancel) /\ Settled(s, i)
      BY <1>4
    <3> QED
      BY <1>2, <3>1, Zenon DEF FitStep, Settled, Decided
  <2> QED
    BY <2>1, Zenon DEF ResumeValid
<1> QED
  BY <1>3, <1>4

\* Steps that have ended stay as they are, so what was decided on them stays right.
LEMMA DecisionsStand ==
    ASSUME def \in Definitions, NEW s, NEW c, NEW i \in Steps,
           \A k \in Steps : StepEnded(s, k) => c.steps[k].state = s.steps[k].state,
           PrerequisitesComplete(s, i)
    PROVE  /\ PrerequisitesComplete(c, i)
           /\ ConditionTrue(c, i) <=> ConditionTrue(s, i)
<1>1. Refs(def, i) \subseteq Steps
  BY DefinitionFacts
<1>2. \A k \in Refs(def, i) : StepEnded(s, k) /\ c.steps[k].state = s.steps[k].state
  BY <1>1 DEF PrerequisitesComplete
<1>3. {def[i].cond[2]} \ {0} \subseteq Refs(def, i)
  BY DEF Refs
<1> QED
  BY <1>2, <1>3 DEF PrerequisitesComplete, ConditionTrue, StepEnded

-----------------------------------------------------------------------------
\* The status that one step gives a run whose other steps are quiet.
StepStatus(step) ==
    IF step.state = "blocked" THEN "blocked"
    ELSE IF step.approval = "pending" THEN "waiting_approval"
    ELSE IF step.state = "waiting_retry" THEN "waiting_retry"
    ELSE IF step.state = "awaiting_effect" THEN "awaiting_effect_evaluation"
    ELSE IF step.state = "in_flight" THEN "effect_in_flight"
    ELSE "running"

\* The status a save of one step has to carry.
StatusFits(step, cancel, status) ==
    IF cancel THEN status \in {"blocked", "cancelling"} ELSE status = StepStatus(step)

\* Where nothing else is busy, the status that fits the moved step is the one the
\* validator computes from all the steps.
LEMMA StatusShapeOfMove ==
    ASSUME NEW s \in Snapshot, NEW i \in Steps, NEW step \in StepSnapshot, NEW status \in Statuses,
           \A k \in Steps \ {i} : ~Busy(s.steps[k]) /\ s.steps[k].state # "blocked",
           StatusFits(step, s.cancel, status)
    PROVE  StatusShape(With(s, i, step, status))
<1> DEFINE c == With(s, i, step, status)
<1>1. /\ c.status = status /\ c.cancel = s.cancel /\ c.steps[i] = step
      /\ \A k \in Steps : k # i => c.steps[k] = s.steps[k]
  BY WithFacts
<1> HIDE DEF c
<1>2. \A k \in Steps \ {i} : /\ c.steps[k].state \notin ActiveStates /\ c.steps[k].approval # "pending"
                             /\ c.steps[k].state # "blocked"
  BY <1>1 DEF Busy
<1>3. OneActive(c)
  BY <1>2 DEF OneActive
<1>4. /\ InState(c, "blocked") <=> step.state = "blocked"
      /\ PendingApproval(c) <=> step.approval = "pending"
      /\ InState(c, "waiting_retry") <=> step.state = "waiting_retry"
      /\ InState(c, "awaiting_effect") <=> step.state = "awaiting_effect"
      /\ InState(c, "in_flight") <=> step.state = "in_flight"
  BY <1>1, <1>2 DEF InState, PendingApproval, ActiveStates
<1>5. ComputedStatus(c) = c.status /\ c.status # "cancelled"
  BY <1>1, <1>4 DEF ComputedStatus, StatusFits, StepStatus
<1> QED
  BY <1>3, <1>5 DEF StatusShape, c

\* What one step may become so that both validators take it: the other steps are
\* quiet, the step fits, the run has the status the step gives it, and the step is
\* decided on as its condition says.
FitMove(i, step, status) ==
    LET st == snap.steps[i] IN
    /\ ~StepEnded(snap, i)
    /\ \A k \in Steps \ {i} : ~Busy(snap.steps[k]) /\ snap.steps[k].state # "blocked"
    /\ FitStep(i, step, snap.cancel)
    /\ StatusFits(step, snap.cancel, status)
    /\ Decided(step) =>
         PrerequisitesComplete(snap, i) /\ (step.state = "skipped" <=> ~ConditionTrue(snap, i))
    /\ step.approval = "pending" =>
         step.state = st.state /\ ~snap.cancel /\ \A k \in Steps : k < i => ~Ready(k)
    /\ st.approval = "not_requested" =>
         step.approval = "not_requested" \/ ConditionTrue(snap, i)

\* Saving a fitting move of one step is accepted, or refused and harmless; either
\* way WriteInv stays.
LEMMA MoveWrites ==
    ASSUME EffectInv, WriteInv, NEW i \in Steps, NEW step \in StepSnapshot, NEW status \in Statuses,
           NEW t, NEW j, FitMove(i, step, status),
           Successor(snap, With(snap, i, step, status), t), Save(With(snap, i, step, status), t, j)
    PROVE  WriteInv'
<1> DEFINE c == With(snap, i, step, status)
<1>1. snap \in Snapshot /\ def \in Definitions
  BY DEF EffectInv, TypeOK
<1>2. /\ c \in Snapshot /\ c.status = status /\ c.cancel = snap.cancel /\ c.steps[i] = step
      /\ \A k \in Steps : k # i => c.steps[k] = snap.steps[k]
  BY <1>1, WithFacts
<1>3. StatusShape(c)
  BY <1>1, StatusShapeOfMove DEF FitMove
<1> HIDE DEF c
<1>4. \A k \in Steps : FitStep(k, c.steps[k], c.cancel)
  BY <1>2 DEF WriteInv, FitMove
<1>5. Standalone(c)
  BY <1>1, <1>2, <1>3, <1>4, FitIsValid
<1>6. snap' = c /\ def' = def /\ rejected' = rejected
  BY <1>5 DEF Save, c
<1>7. \A k \in Steps : StepEnded(snap, k) => c.steps[k].state = snap.steps[k].state
  BY <1>2, Zenon DEF FitMove
<1>8. ASSUME NEW k \in Steps PROVE Settled(c, k)
  <2>1. ASSUME Decided(c.steps[k])
        PROVE  /\ PrerequisitesComplete(snap, k)
               /\ c.steps[k].state = "skipped" <=> ~ConditionTrue(snap, k)
    <3>1. CASE k = i
      BY <1>2, <2>1, <3>1, Zenon DEF FitMove
    <3>2. CASE k # i
      <4>1. Settled(snap, k) /\ c.steps[k] = snap.steps[k]
        BY <1>2, <3>2 DEF WriteInv
      <4> QED
        BY <2>1, <4>1 DEF Settled
    <3> QED
      BY <3>1, <3>2
  <2> QED
    BY <1>1, <1>7, <2>1, DecisionsStand DEF Settled
<1>9. FirstAwaited'
  <2> SUFFICES ASSUME NEW k \in Steps, c.steps[k].approval = "pending",
                      NEW l \in Steps, l < k, Ready(l)'
               PROVE  FALSE
    BY <1>6 DEF FirstAwaited
  <2>1. k = i
    BY <1>2, Zenon DEF FitMove, Busy
  <2>2. step.state = snap.steps[i].state /\ ~Ready(l)
    BY <1>2, <2>1, Zenon DEF FitMove
  <2>3. \A m \in Steps : c.steps[m].state = snap.steps[m].state
    BY <1>2, <2>2
  <2>4. Refs(def, l) \subseteq Steps
    BY <1>1, DefinitionFacts
  <2>5. Ready(l)
    BY <1>6, <2>3, <2>4, Zenon DEF Ready, PrerequisitesComplete, StepEnded, Refs
  <2> QED
    BY <2>2, <2>5
<1>10. RefusedSkip'
  <2> SUFFICES ASSUME rejected # NoTransition
               PROVE  /\ rejected.kind = "step_skipped" /\ rejected.step \in Steps
                      /\ c.steps[rejected.step].approval = "not_requested"
                      /\ PrerequisitesComplete(snap, rejected.step)'
                      /\ ~ConditionTrue(snap, rejected.step)'
    BY <1>6 DEF RefusedSkip
  <2> DEFINE k == rejected.step
  <2>1. /\ rejected.kind = "step_skipped" /\ k \in Steps
        /\ snap.steps[k].approval = "not_requested"
        /\ PrerequisitesComplete(snap, k) /\ ~ConditionTrue(snap, k)
    BY DEF WriteInv, RefusedSkip
  <2> HIDE DEF k
  <2>2. PrerequisitesComplete(c, k) /\ ~ConditionTrue(c, k)
    BY <1>1, <1>7, <2>1, DecisionsStand
  <2>3. c.steps[k].approval = "not_requested"
    BY <1>2, <2>1, Zenon DEF FitMove
  <2>4. PrerequisitesComplete(snap, k)' /\ ~ConditionTrue(snap, k)'
    <3>1. k' = k
      BY <1>6 DEF k
    <3> QED
      BY <1>6, <2>2, <3>1, Zenon DEF PrerequisitesComplete, ConditionTrue, StepEnded, Refs
  <2> QED
    BY <1>6, <2>1, <2>3, <2>4 DEF k
<1>11. ASSUME NEW k \in Steps
       PROVE  FitStep(k, snap.steps[k], snap.cancel)' /\ Settled(snap, k)'
  <2>1. FitStep(k, c.steps[k], c.cancel) /\ Settled(c, k)
    BY <1>4, <1>8
  <2> QED
    BY <1>6, <2>1, Zenon DEF FitStep, Settled, PrerequisitesComplete, ConditionTrue, StepEnded, Refs
<1>12. CancelAwaitsNothing'
  BY <1>2, <1>6, Zenon DEF WriteInv, CancelAwaitsNothing, FitMove
<1> QED
  BY <1>9, <1>10, <1>11, <1>12 DEF WriteInv

-----------------------------------------------------------------------------
\* What a step looks like by its state, field by field.
LEMMA FitFacts ==
    ASSUME EffectInv, WriteInv, NEW i \in Steps
    PROVE  LET st == snap.steps[i]
               n == Len(st.results)
           IN
           /\ st \in StepSnapshot /\ n \in Nat /\ n <= def[i].max /\ def[i].max \in Attempts
           /\ (n = 0 <=> st.results = <<>>)
           /\ FitStep(i, st, snap.cancel)
           /\ snap.cancel \in BOOLEAN
           /\ st.state = "pending" => n = 0 /\ ~st.report
           /\ st.state \in ActiveStates =>
                /\ st.attempt = n + 1 /\ st.attempt <= def[i].max /\ ~st.report
                /\ st.approval \in {"granted", "not_required"}
                /\ PrerequisitesComplete(snap, i) /\ ConditionTrue(snap, i)
           /\ ~StepEnded(snap, i) => \A k \in 1 .. n : st.results[k] = "failed_retryable"
<1> DEFINE st == snap.steps[i]
           n == Len(st.results)
<1>1. /\ snap \in Snapshot /\ Standalone(snap) /\ def \in Definitions
  BY DEF EffectInv, TypeOK
<1>2. /\ st \in StepSnapshot /\ n \in Nat /\ snap.cancel \in BOOLEAN /\ def[i].max \in Attempts
      /\ (n = 0 <=> st.results = <<>>)
  BY <1>1, StepFacts, DefinitionFacts DEF Snapshot
<1>3. FitStep(i, st, snap.cancel) /\ Settled(snap, i)
  BY DEF WriteInv
<1>4. n <= def[i].max /\ StepShape(st, def[i].max, {"succeeded", "failed"}, snap.cancel)
  BY <1>3, Zenon DEF FitStep
<1>5. /\ st.state = "pending" => n = 0 /\ ~st.report
      /\ st.state \in ActiveStates => st.attempt = n + 1 /\ st.attempt <= def[i].max
      /\ RetryHistory(st, st.state \in {"succeeded", "failed"})
  BY <1>4, Zenon DEF StepShape
<1>6. st.state \in ActiveStates => ~st.report /\ st.approval \in {"granted", "not_required"}
  BY <1>1, ShapeFacts, Zenon
<1>7. st.state \in ActiveStates => PrerequisitesComplete(snap, i) /\ ConditionTrue(snap, i)
  BY <1>3 DEF Settled, Decided, ActiveStates
<1>8. ~StepEnded(snap, i) => \A k \in 1 .. n : st.results[k] = "failed_retryable"
  BY <1>5, Zenon DEF RetryHistory, StepEnded, EndStates
<1> QED
  BY <1>2, <1>3, <1>4, <1>5, <1>6, <1>7, <1>8, Zenon

\* A busy step is the only one, and nothing is blocked meanwhile.
LEMMA BusyAlone ==
    ASSUME EffectInv, NEW i \in Steps, Busy(snap.steps[i])
    PROVE  /\ ~Ended(snap) /\ ~StepEnded(snap, i)
           /\ \A k \in Steps \ {i} : ~Busy(snap.steps[k]) /\ snap.steps[k].state # "blocked"
           /\ snap.cancel => snap.status = "cancelling"
           /\ ~snap.cancel => snap.status = StepStatus(snap.steps[i])
<1>1. ~Ended(snap)
  BY DEF EffectInv, EndIsQuiet
<1>2. \A k \in Steps : snap.steps[k].state # "blocked"
  BY <1>1 DEF EffectInv, EndIsQuiet, Ended, EndStatuses, InState
<1>3. OneActive(snap) /\ ComputedStatus(snap) = snap.status
  BY Zenon DEF EffectInv, Standalone, StatusShape
<1>4. \A k \in Steps \ {i} : ~Busy(snap.steps[k])
  BY <1>3 DEF OneActive, Busy
<1>5. snap.steps[i].approval = "pending" => snap.steps[i].state = "pending"
  BY ShapeFacts, Zenon DEF EffectInv, TypeOK
<1>6. ~StepEnded(snap, i)
  BY <1>5 DEF Busy, StepEnded, EndStates, ActiveStates
<1>7. snap.cancel => snap.status = "cancelling"
  BY <1>1, <1>3 DEF ComputedStatus, Ended, EndStatuses
<1>8. /\ InState(snap, "blocked") <=> snap.steps[i].state = "blocked"
      /\ PendingApproval(snap) <=> snap.steps[i].approval = "pending"
      /\ InState(snap, "waiting_retry") <=> snap.steps[i].state = "waiting_retry"
      /\ InState(snap, "awaiting_effect") <=> snap.steps[i].state = "awaiting_effect"
      /\ InState(snap, "in_flight") <=> snap.steps[i].state = "in_flight"
  BY <1>2, <1>4, Zenon DEF InState, PendingApproval, Busy, ActiveStates
<1>9. ~snap.cancel => snap.status = StepStatus(snap.steps[i])
  BY <1>3, <1>8, Zenon DEF ComputedStatus, StepStatus, Busy, ActiveStates
<1> QED
  BY <1>1, <1>2, <1>4, <1>6, <1>7, <1>9

\* When the scheduler picks a step, nothing at all is busy.
LEMMA ScheduledAlone ==
    ASSUME EffectInv, WriteInv, NEW i \in Steps, NextStep(i),
           ~(snap.steps[i].approval = "pending" /\ ConditionTrue(snap, i))
    PROVE  /\ ~snap.cancel /\ snap.status = "running" /\ snap.steps[i].state = "pending"
           /\ PrerequisitesComplete(snap, i) /\ ~StepEnded(snap, i)
           /\ \A k \in Steps : k < i => ~Ready(k)
           /\ \A k \in Steps : ~Busy(snap.steps[k]) /\ snap.steps[k].state # "blocked"
           /\ snap.steps[i].approval \in {"not_required", "not_requested", "granted"}
<1>1. /\ ~Ended(snap) /\ ~snap.cancel /\ \A k \in Steps : snap.steps[k].state \notin ActiveStates
      /\ snap.steps[i].state = "pending" /\ PrerequisitesComplete(snap, i) /\ Ready(i)
      /\ \A k \in Steps : k < i => ~Ready(k)
  BY Zenon DEF NextStep, Idle, Ready
<1>2. \A k \in Steps : snap.steps[k].state # "blocked"
  BY <1>1, Zenon DEF EffectInv, EndIsQuiet, Ended, EndStatuses, InState
<1>3. ASSUME NEW k \in Steps, snap.steps[k].approval = "pending" PROVE FALSE
  <2>1. snap.steps[k].state = "pending"
    BY <1>3, ShapeFacts, Zenon DEF EffectInv, TypeOK
  <2>2. Ready(k) /\ ConditionTrue(snap, k)
    BY <1>3, <2>1 DEF WriteInv, Settled, Decided, Ready
  <2>3. ~(k < i) /\ ~(i < k)
    BY <1>1, <1>3, <2>2 DEF WriteInv, FirstAwaited
  <2>4. k = i
    BY <2>3, EngineAssumption DEF Steps
  <2> QED
    BY <1>3, <2>2, <2>4
<1>4. snap.status = "running"
  <2>1. ComputedStatus(snap) = snap.status
    BY DEF EffectInv, Standalone, StatusShape
  <2>2. /\ ~InState(snap, "blocked") /\ ~PendingApproval(snap) /\ ~InState(snap, "waiting_retry")
        /\ ~InState(snap, "awaiting_effect") /\ ~InState(snap, "in_flight")
    BY <1>1, <1>2, <1>3 DEF InState, PendingApproval, ActiveStates
  <2>3. ~StepEnded(snap, i)
    BY <1>1 DEF StepEnded, EndStates
  <2> QED
    BY <1>1, <2>1, <2>2, <2>3, Zenon DEF ComputedStatus
<1>5. snap.steps[i].approval \in {"not_required", "not_requested", "granted"}
  <2>1. snap.steps[i].approval \in Approvals /\ snap.steps[i].approval # "denied"
    <3>1. snap.steps[i] \in StepSnapshot /\ (snap.steps[i].approval = "denied" => snap.steps[i].state = "blocked")
      BY ShapeFacts, Zenon DEF EffectInv, TypeOK
    <3> QED
      BY <1>2, <3>1, StepFacts
  <2> QED
    BY <1>3, <2>1 DEF Approvals
<1> QED
  BY <1>1, <1>2, <1>3, <1>4, <1>5, Zenon DEF Busy, StepEnded, EndStates

\* A step that was never tried has the shape of its state.
LEMMA UntriedShape ==
    ASSUME NEW s, NEW max, NEW fewer, s.results = <<>>,
           \/ (s.state \in {"pending", "skipped"} /\ ~s.report)
           \/ (s.state = "blocked" /\ s.report)
    PROVE  StepShape(s, max, {"succeeded", "failed"}, fewer)
<1>1. Len(s.results) = 0 /\ \A k \in 1 .. Len(s.results) : FALSE
  OBVIOUS
<1>2. \A final : RetryHistory(s, final)
  BY <1>1, Zenon DEF RetryHistory
<1> QED
  BY <1>1, <1>2 DEF StepShape, ActiveStates

\* A save that is refused leaves the snapshot; only a skip may be.
LEMMA SkipStepWrites ==
    ASSUME EffectInv, WriteInv, NEW i \in Steps, SkipStep(i)
    PROVE  WriteInv'
<1> DEFINE st == snap.steps[i]
           step == ToState(st, "skipped", 0)
           c == With(snap, i, step, snap.status)
           t == T("step_skipped", i, 0)
<1>1. NextStep(i) /\ ~ConditionTrue(snap, i) /\ Save(c, t, issued)
  BY DEF SkipStep
<1>2. /\ ~snap.cancel /\ snap.status = "running" /\ st.state = "pending"
      /\ PrerequisitesComplete(snap, i) /\ ~StepEnded(snap, i)
      /\ \A k \in Steps : ~Busy(snap.steps[k]) /\ snap.steps[k].state # "blocked"
      /\ st.approval \in {"not_required", "not_requested", "granted"}
  BY <1>1, ScheduledAlone, Zenon
<1>3. /\ st \in StepSnapshot /\ Len(st.results) = 0 /\ st.results = <<>> /\ ~st.report
      /\ FitStep(i, st, snap.cancel) /\ def[i].max \in Attempts
  BY <1>2, FitFacts, Zenon
<1>4. /\ step \in StepSnapshot /\ step.approval = st.approval /\ step.state = "skipped"
      /\ step.results = st.results /\ step.report = st.report
  BY <1>3, ToStateFacts, EngineAssumption DEF StepStates, EndStates
<1>5. snap \in Snapshot /\ "running" \in Statuses /\ t.kind = "step_skipped" /\ t.step = i /\ i # 0
  BY DEF EffectInv, TypeOK, Statuses, T, Steps
<1>6. CASE st.approval = "not_requested"
  <2>1. c.steps[i] = step
    BY <1>2, <1>4, <1>5, WithFacts
  <2>2. ~ApprovalShape(step)
    BY <1>4, <1>6, Zenon DEF ApprovalShape
  <2> HIDE DEF c, step
  <2>3. ~Standalone(c)
    BY <2>1, <2>2, Zenon DEF Standalone
  <2>4. snap' = snap /\ def' = def /\ (rejected' = t \/ rejected' = rejected)
    BY <1>1, <2>3 DEF Save
  <2>5. RefusedSkip'
    <3>1. CASE rejected' = t
      BY <1>1, <1>2, <1>5, <1>6, <2>4, <3>1, Zenon
         DEF RefusedSkip, PrerequisitesComplete, ConditionTrue, StepEnded, Refs
    <3>2. CASE rejected' = rejected
      BY <2>4, <3>2, Zenon DEF WriteInv, RefusedSkip, PrerequisitesComplete, ConditionTrue, StepEnded, Refs
    <3> QED
      BY <2>4, <3>1, <3>2
  <2>6. FirstAwaited' /\ CancelAwaitsNothing'
    BY <2>4, Zenon DEF WriteInv, FirstAwaited, CancelAwaitsNothing, Ready, PrerequisitesComplete, StepEnded, Refs
  <2>7. \A k \in Steps : FitStep(k, snap.steps[k], snap.cancel)' /\ Settled(snap, k)'
    BY <2>4, ZenonT(40) DEF WriteInv, FitStep, Settled, PrerequisitesComplete, ConditionTrue, StepEnded, Refs
  <2> QED
    BY <2>5, <2>6, <2>7, Zenon DEF WriteInv
<1>7. CASE st.approval # "not_requested"
  <2>1. ApprovalShape(step)
    BY <1>2, <1>4, <1>7, Zenon DEF ApprovalShape
  <2>2. StepShape(step, def[i].max, {"succeeded", "failed"}, snap.cancel)
    BY <1>3, <1>4, UntriedShape, Zenon
  <2>3. FitStep(i, step, snap.cancel)
    BY <1>3, <1>4, <2>1, <2>2, Zenon DEF FitStep
  <2>4. FitMove(i, step, "running")
    BY <1>1, <1>2, <1>4, <1>7, <2>3, Zenon DEF FitMove, StatusFits, StepStatus
  <2>5. Successor(snap, c, t)
    BY <1>2, <1>5, <1>7, Zenon DEF Successor, ApprovalSuccessor, Scheduling, Approvable, To
  <2> HIDE DEF step, t
  <2> QED
    BY <1>1, <1>2, <1>4, <1>5, <2>4, <2>5, MoveWrites, Zenon
<1> QED
  BY <1>6, <1>7

\* Asking for the approval of the first ready step.
LEMMA RequestApprovalWrites ==
    ASSUME EffectInv, WriteInv, NEW i \in Steps, RequestApproval(i)
    PROVE  WriteInv'
<1> DEFINE st == snap.steps[i]
           step == [st EXCEPT !.approval = "pending"]
           c == With(snap, i, step, "waiting_approval")
           t == T("approval_requested", i, 0)
<1>1. NextStep(i) /\ ConditionTrue(snap, i) /\ st.approval = "not_requested" /\ Save(c, t, issued)
  BY DEF RequestApproval
<1>2. /\ ~snap.cancel /\ snap.status = "running" /\ st.state = "pending"
      /\ PrerequisitesComplete(snap, i) /\ ~StepEnded(snap, i)
      /\ \A k \in Steps : k < i => ~Ready(k)
      /\ \A k \in Steps : ~Busy(snap.steps[k]) /\ snap.steps[k].state # "blocked"
  BY <1>1, ScheduledAlone
<1>3. /\ st \in StepSnapshot /\ Len(st.results) = 0 /\ st.results = <<>> /\ ~st.report
      /\ FitStep(i, st, snap.cancel)
  BY <1>2, FitFacts, Zenon
<1>4. /\ step \in StepSnapshot /\ step.approval = "pending" /\ step.state = "pending"
      /\ step.results = st.results /\ step.report = st.report
  BY <1>2, <1>3, ApprovalFacts, Zenon DEF Approvals
<1>5. "waiting_approval" \in Statuses /\ t.kind = "approval_requested" /\ t.step = i /\ i # 0
  BY DEF Statuses, T, Steps
<1>6. ApprovalShape(step)
  BY <1>3, <1>4 DEF ApprovalShape
<1>7. StepShape(step, def[i].max, {"succeeded", "failed"}, snap.cancel)
  BY <1>3, <1>4, UntriedShape, Zenon
<1>8. FitStep(i, step, snap.cancel)
  BY <1>1, <1>3, <1>4, <1>6, <1>7, Zenon DEF FitStep
<1>9. FitMove(i, step, "waiting_approval")
  BY <1>1, <1>2, <1>4, <1>8 DEF FitMove, StatusFits, StepStatus
<1>10. Successor(snap, c, t)
  BY <1>1, <1>2, <1>5, Zenon DEF Successor, ApprovalSuccessor, Scheduling, To
<1> HIDE DEF step, t
<1> QED
  BY <1>1, <1>4, <1>5, <1>9, <1>10, MoveWrites, Zenon

\* Granting an approval leaves the step decided; denying it blocks the step.
LEMMA ResolveApprovalWrites ==
    ASSUME EffectInv, WriteInv, NEW i \in Steps, NEW granted \in BOOLEAN, ResolveApproval(i, granted)
    PROVE  WriteInv'
<1> DEFINE st == snap.steps[i]
<1>1. st.approval = "pending" /\ Busy(st)
  BY DEF ResolveApproval, Busy
<1>2. /\ st \in StepSnapshot /\ Len(st.results) = 0 /\ st.results = <<>> /\ ~st.report
      /\ st.state = "pending" /\ FitStep(i, st, snap.cancel)
  BY <1>1, FitFacts, ShapeFacts, Zenon DEF EffectInv, TypeOK
<1>3. /\ ~StepEnded(snap, i)
      /\ \A k \in Steps \ {i} : ~Busy(snap.steps[k]) /\ snap.steps[k].state # "blocked"
  BY <1>1, BusyAlone, Zenon
<1>4. PrerequisitesComplete(snap, i) /\ ConditionTrue(snap, i)
  BY <1>1, <1>2, Zenon DEF WriteInv, Settled, Decided
<1>5. i # 0 /\ "running" \in Statuses /\ "blocked" \in Statuses
  BY DEF Steps, Statuses, EndStatuses
<1>6. ~snap.cancel /\ snap.status = "waiting_approval"
  BY <1>1, <1>2, BusyAlone, Zenon DEF WriteInv, CancelAwaitsNothing, StepStatus
<1>7. CASE granted
  <2> DEFINE step == [st EXCEPT !.approval = "granted"]
             c == With(snap, i, step, "running")
             t == T("approval_granted", i, 0)
  <2>1. Save(c, t, issued)
    BY <1>7 DEF ResolveApproval
  <2>2. /\ step \in StepSnapshot /\ step.approval = "granted" /\ step.state = "pending"
        /\ step.results = st.results /\ step.report = st.report
    BY <1>2, ApprovalFacts, Zenon DEF Approvals
  <2>3. t.kind = "approval_granted" /\ t.step = i
    BY DEF T
  <2>4. ApprovalShape(step)
    BY <2>2 DEF ApprovalShape
  <2>5. StepShape(step, def[i].max, {"succeeded", "failed"}, snap.cancel)
    BY <1>2, <2>2, UntriedShape, Zenon
  <2>6. FitStep(i, step, snap.cancel)
    BY <1>1, <1>2, <2>2, <2>4, <2>5 DEF FitStep
  <2>7. FitMove(i, step, "running")
    BY <1>1, <1>3, <1>4, <1>6, <2>2, <2>6 DEF FitMove, StatusFits, StepStatus
  <2>8. Successor(snap, c, t)
    BY <1>1, <1>5, <1>6, <2>3, Zenon DEF Successor, ApprovalSuccessor, To
  <2> HIDE DEF step, t
  <2> QED
    BY <1>5, <2>1, <2>2, <2>7, <2>8, MoveWrites, Zenon
<1>8. CASE ~granted
  <2> DEFINE step == [Block(st) EXCEPT !.approval = "denied"]
             c == With(snap, i, step, "blocked")
             t == T("approval_denied", i, 0)
  <2>1. Save(c, t, issued)
    BY <1>8 DEF ResolveApproval
  <2>2. /\ step \in StepSnapshot /\ step.approval = "denied" /\ step.state = "blocked"
        /\ step.results = st.results /\ step.report = TRUE
    <3>1. /\ Block(st) \in StepSnapshot /\ Block(st).state = "blocked"
          /\ Block(st).results = st.results /\ Block(st).report = TRUE
      BY <1>2, BlockFacts, Zenon
    <3>2. "denied" \in Approvals
      BY DEF Approvals
    <3> QED
      BY <3>1, <3>2, ApprovalFacts
  <2>3. t.kind = "approval_denied" /\ t.step = i
    BY DEF T
  <2>4. ApprovalShape(step)
    BY <2>2 DEF ApprovalShape
  <2>5. StepShape(step, def[i].max, {"succeeded", "failed"}, snap.cancel)
    BY <1>2, <2>2, UntriedShape, Zenon
  <2>6. FitStep(i, step, snap.cancel)
    BY <1>1, <1>2, <2>2, <2>4, <2>5, Zenon DEF FitStep, ActiveStates
  <2>7. FitMove(i, step, "blocked")
    BY <1>1, <1>3, <1>4, <1>6, <2>2, <2>6 DEF FitMove, StatusFits, StepStatus
  <2>8. Successor(snap, c, t)
    BY <1>1, <1>5, <1>6, <2>3, Zenon DEF Successor, ApprovalSuccessor, To
  <2> HIDE DEF step, t
  <2> QED
    BY <1>5, <2>1, <2>2, <2>7, <2>8, MoveWrites, Zenon
<1> QED
  BY <1>7, <1>8

\* Evaluating the effect of an attempt, the first or a retry.
LEMMA EvaluateEffectWrites ==
    ASSUME EffectInv, WriteInv, NEW i \in Steps, NEW a \in Attempts, EvaluateEffect(i, a),
           ~snap.cancel, PrerequisitesComplete(snap, i), ConditionTrue(snap, i),
           \A k \in Steps \ {i} : ~Busy(snap.steps[k]) /\ snap.steps[k].state # "blocked",
           snap.steps[i].approval \in {"granted", "not_required"}, a = Len(snap.steps[i].results) + 1,
           \/ snap.steps[i].state = "pending" /\ snap.status = "running" /\ a = 1
           \/ /\ snap.steps[i].state = "waiting_retry" /\ snap.status = "waiting_retry"
              /\ a = snap.steps[i].attempt
    PROVE  WriteInv'
<1> DEFINE st == snap.steps[i]
           step == ToState(st, "awaiting_effect", a)
           c == With(snap, i, step, "awaiting_effect_evaluation")
           t == T("effect_evaluation_required", i, a)
<1>1. Save(c, t, issued)
  BY Zenon DEF EvaluateEffect
<1>2. a \in 0 .. MaxAttempts /\ ~StepEnded(snap, i)
  BY AttemptCounts, Zenon DEF StepEnded, EndStates
<1>3. /\ st \in StepSnapshot /\ ~st.report /\ FitStep(i, st, snap.cancel) /\ a <= def[i].max
      /\ Len(st.results) \in Nat
      /\ \A k \in 1 .. Len(st.results) : st.results[k] = "failed_retryable"
  <2>1. st.state = "waiting_retry" => st.state \in ActiveStates
    BY Zenon DEF ActiveStates
  <2>2. 1 <= def[i].max
    BY FitFacts DEF Attempts
  <2> QED
    BY <1>2, <2>1, <2>2, FitFacts, Zenon
<1>4. /\ step \in StepSnapshot /\ step.approval = st.approval /\ step.state = "awaiting_effect"
      /\ step.results = st.results /\ step.report = st.report /\ step.attempt = a
  <2>1. "awaiting_effect" \in StepStates
    BY Zenon DEF StepStates, ActiveStates
  <2>2. st \in StepSnapshot /\ a \in 0 .. MaxAttempts
    BY <1>2, <1>3, Zenon
  <2> HIDE DEF st
  <2> QED
    BY <2>1, <2>2, ToStateFacts
<1>5. /\ "awaiting_effect_evaluation" \in Statuses /\ i # 0
      /\ t.kind = "effect_evaluation_required" /\ t.step = i /\ t.attempt = a
  BY DEF Statuses, T, Steps
<1>6. ApprovalShape(step)
  BY <1>4, Zenon DEF ApprovalShape
<1>7. StepShape(step, def[i].max, {"succeeded", "failed"}, snap.cancel)
  BY <1>3, <1>4, Zenon DEF StepShape, RetryHistory, ActiveStates
<1>8. FitStep(i, step, snap.cancel)
  BY <1>3, <1>4, <1>6, <1>7, Zenon DEF FitStep
<1>9. FitMove(i, step, "awaiting_effect_evaluation")
  BY <1>2, <1>4, <1>8, Zenon DEF FitMove, StatusFits, StepStatus
<1>10. Successor(snap, c, t)
  BY <1>5, Zenon DEF Successor, EffectSuccessor, Scheduling, Approvable, To
<1> HIDE DEF step, t
<1> QED
  BY <1>1, <1>4, <1>5, <1>9, <1>10, MoveWrites, Zenon

\* Scheduling a ready step and scheduling a retry that is due.
LEMMA ScheduleWrites ==
    ASSUME EffectInv, WriteInv, NEW i \in Steps, ScheduleStep(i) \/ RetryDue(i)
    PROVE  WriteInv'
<1>1. CASE ScheduleStep(i)
  <2>1. /\ NextStep(i) /\ ConditionTrue(snap, i) /\ EvaluateEffect(i, 1)
        /\ snap.steps[i].approval \in {"granted", "not_required"}
    BY <1>1, Zenon DEF ScheduleStep
  <2>2. /\ ~snap.cancel /\ snap.status = "running" /\ snap.steps[i].state = "pending"
        /\ PrerequisitesComplete(snap, i)
        /\ \A k \in Steps : ~Busy(snap.steps[k]) /\ snap.steps[k].state # "blocked"
    BY <2>1, ScheduledAlone, Zenon
  <2>3. 1 \in Attempts /\ 1 = Len(snap.steps[i].results) + 1
    BY <2>2, FitFacts, EngineAssumption DEF Attempts
  <2> QED
    BY <2>1, <2>2, <2>3, EvaluateEffectWrites, Zenon
<1>2. CASE RetryDue(i)
  <2>1. /\ ~snap.cancel /\ snap.steps[i].state = "waiting_retry"
        /\ EvaluateEffect(i, snap.steps[i].attempt)
    BY <1>2, Zenon DEF RetryDue
  <2>2. Busy(snap.steps[i]) /\ snap.steps[i].state \in ActiveStates
    BY <2>1 DEF Busy, ActiveStates
  <2>3. /\ snap.steps[i].attempt \in Attempts
        /\ snap.steps[i].attempt = Len(snap.steps[i].results) + 1
        /\ snap.steps[i].approval \in {"granted", "not_required"}
        /\ PrerequisitesComplete(snap, i) /\ ConditionTrue(snap, i)
    BY <2>2, FitFacts, StepInv, Zenon
  <2>4. snap.status = "waiting_retry"
    BY <2>1, <2>2, <2>3, BusyAlone, Zenon DEF StepStatus
  <2>5. \A k \in Steps \ {i} : ~Busy(snap.steps[k]) /\ snap.steps[k].state # "blocked"
    BY <2>2, BusyAlone, Zenon
  <2> QED
    BY <2>1, <2>3, <2>4, <2>5, EvaluateEffectWrites, Zenon
<1> QED
  BY <1>1, <1>2

\* What holds of a step whose effect is awaited or in flight.
LEMMA EffectAlone ==
    ASSUME EffectInv, WriteInv, NEW i \in Steps,
           snap.steps[i].state \in {"awaiting_effect", "in_flight"}
    PROVE  LET st == snap.steps[i] IN
           /\ st \in StepSnapshot /\ ~st.report /\ FitStep(i, st, snap.cancel)
           /\ st.approval \in {"granted", "not_required"}
           /\ Len(st.results) \in Nat /\ Len(st.results) < MaxAttempts
           /\ st.attempt = Len(st.results) + 1 /\ st.attempt <= def[i].max
           /\ st.attempt \in 0 .. MaxAttempts /\ def[i].max \in 1 .. MaxAttempts
           /\ \A k \in 1 .. Len(st.results) : st.results[k] = "failed_retryable"
           /\ PrerequisitesComplete(snap, i) /\ ConditionTrue(snap, i)
           /\ ~Ended(snap) /\ ~StepEnded(snap, i)
           /\ \A k \in Steps \ {i} : ~Busy(snap.steps[k]) /\ snap.steps[k].state # "blocked"
           /\ snap.cancel \in BOOLEAN /\ i # 0
           /\ snap.cancel => snap.status = "cancelling"
           /\ ~snap.cancel => snap.status = IF st.state = "in_flight" THEN "effect_in_flight"
                                            ELSE "awaiting_effect_evaluation"
<1> DEFINE st == snap.steps[i]
<1>1. st.state \in ActiveStates /\ Busy(st)
  BY Zenon DEF ActiveStates, Busy
<1>2. /\ st \in StepSnapshot /\ ~st.report /\ FitStep(i, st, snap.cancel)
      /\ st.approval \in {"granted", "not_required"} /\ snap.cancel \in BOOLEAN
      /\ Len(st.results) \in Nat
      /\ st.attempt = Len(st.results) + 1 /\ st.attempt <= def[i].max
      /\ PrerequisitesComplete(snap, i) /\ ConditionTrue(snap, i)
      /\ ~StepEnded(snap, i) => \A k \in 1 .. Len(st.results) : st.results[k] = "failed_retryable"
  BY <1>1, FitFacts, Zenon
<1>3. /\ st.attempt \in Attempts /\ def[i].max \in Attempts /\ Len(st.results) < MaxAttempts /\ i # 0
  BY <1>1, StepInv, Zenon
<1>4. st.attempt \in 0 .. MaxAttempts /\ def[i].max \in 1 .. MaxAttempts
  BY <1>3, EngineAssumption DEF Attempts
<1>5. /\ ~Ended(snap) /\ ~StepEnded(snap, i)
      /\ \A k \in Steps \ {i} : ~Busy(snap.steps[k]) /\ snap.steps[k].state # "blocked"
      /\ snap.cancel => snap.status = "cancelling"
      /\ ~snap.cancel => snap.status = StepStatus(st)
  BY <1>1, BusyAlone, Zenon
<1>6. StepStatus(st) = IF st.state = "in_flight" THEN "effect_in_flight"
                       ELSE "awaiting_effect_evaluation"
  BY <1>2, Zenon DEF StepStatus
<1> QED
  BY <1>2, <1>3, <1>4, <1>5, <1>6, Zenon

\* Starting an effect, and learning that it was not applied.
LEMMA EffectMoveWrites ==
    ASSUME EffectInv, WriteInv, NEW i \in Steps, PrepareEffect(i) \/ ReconcileNotApplied(i), ~snap.cancel
    PROVE  WriteInv'
<1> DEFINE st == snap.steps[i]
           Step(state) == ToState(st, state, st.attempt)
<1>1. st.state \in {"awaiting_effect", "in_flight"}
  BY Zenon DEF PrepareEffect, Evaluable, ReconcileNotApplied, Uncertain
<1>2. /\ st \in StepSnapshot /\ ~st.report /\ FitStep(i, st, snap.cancel)
      /\ st.approval \in {"granted", "not_required"} /\ Len(st.results) \in Nat
      /\ st.attempt = Len(st.results) + 1 /\ st.attempt <= def[i].max
      /\ st.attempt \in 0 .. MaxAttempts
      /\ \A k \in 1 .. Len(st.results) : st.results[k] = "failed_retryable"
      /\ PrerequisitesComplete(snap, i) /\ ConditionTrue(snap, i) /\ ~StepEnded(snap, i) /\ i # 0
      /\ \A k \in Steps \ {i} : ~Busy(snap.steps[k]) /\ snap.steps[k].state # "blocked"
      /\ snap.status = IF st.state = "in_flight" THEN "effect_in_flight"
                       ELSE "awaiting_effect_evaluation"
  BY <1>1, EffectAlone, Zenon
<1>3. ASSUME NEW state \in {"awaiting_effect", "in_flight"}
      PROVE  /\ Step(state) \in StepSnapshot
             /\ FitMove(i, Step(state), IF state = "in_flight" THEN "effect_in_flight"
                                        ELSE "awaiting_effect_evaluation")
  <2> DEFINE step == Step(state)
  <2>1. /\ step \in StepSnapshot /\ step.approval = st.approval /\ step.state = state
        /\ step.results = st.results /\ step.report = st.report /\ step.attempt = st.attempt
    <3>1. state \in StepStates
      BY DEF StepStates, ActiveStates
    <3>2. st \in StepSnapshot /\ st.attempt \in 0 .. MaxAttempts
      BY <1>2, Zenon
    <3> HIDE DEF st
    <3> QED
      BY <3>1, <3>2, ToStateFacts
  <2> HIDE DEF Step
  <2>2. ApprovalShape(step)
    BY <1>2, <2>1, Zenon DEF ApprovalShape
  <2>3. StepShape(step, def[i].max, {"succeeded", "failed"}, snap.cancel)
    BY <1>2, <2>1, Zenon DEF StepShape, RetryHistory, ActiveStates
  <2>4. FitStep(i, step, snap.cancel)
    BY <1>2, <2>1, <2>2, <2>3, Zenon DEF FitStep
  <2> QED
    BY <1>2, <2>1, <2>4, Zenon DEF FitMove, StatusFits, StepStatus
<1>4. "effect_in_flight" \in Statuses /\ "awaiting_effect_evaluation" \in Statuses
  BY DEF Statuses
<1>5. CASE PrepareEffect(i)
  <2> DEFINE t == T("effect_started", i, st.attempt)
             c == With(snap, i, Step("in_flight"), "effect_in_flight")
  <2>1. Save(c, t, i)
    BY <1>5 DEF PrepareEffect
  <2>2. t.kind = "effect_started" /\ t.step = i /\ t.attempt = st.attempt
    BY DEF T
  <2>3. Evaluating(snap, t) \/ Flying(snap, t)
    BY <1>1, <1>2, <2>2, Zenon DEF Evaluating, Flying
  <2>4. EffectSuccessor(snap, c, t)
    BY <2>2, <2>3, Zenon DEF EffectSuccessor, To
  <2>5. Successor(snap, c, t)
    BY <1>2, <2>2, <2>4, Zenon DEF Successor
  <2> HIDE DEF t, Step
  <2> QED
    BY <1>3, <1>4, <2>1, <2>5, MoveWrites
<1>6. CASE ReconcileNotApplied(i)
  <2> DEFINE t == T("reconciled_not_applied", i, st.attempt)
             c == With(snap, i, Step("awaiting_effect"), "awaiting_effect_evaluation")
  <2>1. Save(c, t, issued) /\ st.state = "in_flight"
    BY <1>6, Zenon DEF ReconcileNotApplied, Uncertain
  <2>2. t.kind = "reconciled_not_applied" /\ t.step = i /\ t.attempt = st.attempt
    BY DEF T
  <2>3. Successor(snap, c, t)
    BY <1>2, <2>1, <2>2, Zenon DEF Successor, ResultSuccessor, Flying, To
  <2> HIDE DEF t, Step
  <2> QED
    BY <1>3, <1>4, <2>1, <2>3, MoveWrites, Zenon
<1> QED
  BY <1>5, <1>6

\* Blocking a step: its authorization is denied, or its effect stays unknown.
LEMMA BlockWrites ==
    ASSUME EffectInv, WriteInv, NEW i \in Steps, DenyEffectAuthorization(i) \/ ReconcileUnknown(i)
    PROVE  WriteInv'
<1> DEFINE st == snap.steps[i]
           step == Block(st)
           c == With(snap, i, step, "blocked")
<1>1. st.state \in {"awaiting_effect", "in_flight"}
  BY Zenon DEF DenyEffectAuthorization, ReconcileUnknown, Evaluable
<1>2. /\ st \in StepSnapshot /\ FitStep(i, st, snap.cancel)
      /\ st.approval \in {"granted", "not_required"} /\ snap.cancel \in BOOLEAN
      /\ \A k \in 1 .. Len(st.results) : st.results[k] = "failed_retryable"
      /\ PrerequisitesComplete(snap, i) /\ ConditionTrue(snap, i) /\ ~StepEnded(snap, i) /\ i # 0
      /\ \A k \in Steps \ {i} : ~Busy(snap.steps[k]) /\ snap.steps[k].state # "blocked"
      /\ snap.cancel => snap.status = "cancelling"
      /\ ~snap.cancel => snap.status = IF st.state = "in_flight" THEN "effect_in_flight"
                                       ELSE "awaiting_effect_evaluation"
  BY <1>1, EffectAlone, Zenon
<1>3. /\ step \in StepSnapshot /\ step.approval = st.approval
      /\ step.state = "blocked" /\ step.results = st.results /\ step.report = TRUE
  BY <1>2, BlockFacts, Zenon
<1>4. ApprovalShape(step)
  BY <1>2, <1>3, Zenon DEF ApprovalShape
<1>5. StepShape(step, def[i].max, {"succeeded", "failed"}, snap.cancel)
  BY <1>2, <1>3, Zenon DEF StepShape, RetryHistory, ActiveStates
<1>6. FitStep(i, step, snap.cancel)
  BY <1>2, <1>3, <1>4, <1>5, Zenon DEF FitStep, ActiveStates
<1>7. FitMove(i, step, "blocked") /\ "blocked" \in Statuses
  BY <1>2, <1>3, <1>6, Zenon DEF FitMove, StatusFits, StepStatus, Statuses, EndStatuses
<1>8. CASE DenyEffectAuthorization(i)
  <2> DEFINE t == T("effect_authorization_denied", i, st.attempt)
  <2>1. Save(c, t, 0) /\ ~snap.cancel
    BY <1>8, Zenon DEF DenyEffectAuthorization, Evaluable
  <2>2. t.kind = "effect_authorization_denied" /\ t.step = i /\ t.attempt = st.attempt
    BY DEF T
  <2>3. Successor(snap, c, t)
    BY <1>1, <1>2, <2>1, <2>2, Zenon DEF Successor, EffectSuccessor, Evaluating, Flying, To
  <2> HIDE DEF t, step
  <2> QED
    BY <1>3, <1>7, <2>1, <2>3, MoveWrites, Zenon
<1>9. CASE ReconcileUnknown(i)
  <2> DEFINE t == T("reconciliation_unknown", i, st.attempt)
  <2>1. Save(c, t, issued) /\ st.state = "in_flight"
    BY <1>9, Zenon DEF ReconcileUnknown
  <2>2. t.kind = "reconciliation_unknown" /\ t.step = i /\ t.attempt = st.attempt
    BY Zenon DEF T
  <2>3. Successor(snap, c, t)
    BY <1>2, <2>1, <2>2, Zenon DEF Successor, ResultSuccessor, FromFlight, To
  <2> HIDE DEF t, step
  <2> QED
    BY <1>3, <1>7, <2>1, <2>3, MoveWrites, Zenon
<1> QED
  BY <1>8, <1>9

\* What RecordEffectResult makes of a step fits, whatever the result.
LEMMA ResultFits ==
    ASSUME EffectInv, WriteInv, NEW i \in Steps, snap.steps[i].state = "in_flight",
           NEW kind \in ResultKinds, NEW state, NEW a,
           LET st == snap.steps[i] IN
           \/ state = "succeeded" /\ a = st.attempt /\ kind = "succeeded"
           \/ state = "waiting_retry" /\ a = st.attempt + 1 /\ RetrySchedule(i, kind)
           \/ state = "failed" /\ a = st.attempt /\ kind # "succeeded" /\ ~RetrySchedule(i, kind)
    PROVE  /\ WithResult(snap.steps[i], state, a, kind) \in StepSnapshot
           /\ FitMove(i, WithResult(snap.steps[i], state, a, kind),
                      IF state = "waiting_retry" THEN "waiting_retry" ELSE AfterResult(snap))
<1> DEFINE st == snap.steps[i]
           n == Len(st.results)
           step == WithResult(st, state, a, kind)
<1>1. /\ st \in StepSnapshot /\ ~st.report /\ FitStep(i, st, snap.cancel)
      /\ st.approval \in {"granted", "not_required"}
      /\ n \in Nat /\ n < MaxAttempts /\ st.attempt = n + 1 /\ st.attempt <= def[i].max
      /\ st.attempt \in 0 .. MaxAttempts /\ def[i].max \in 1 .. MaxAttempts
      /\ \A k \in 1 .. n : st.results[k] = "failed_retryable"
      /\ PrerequisitesComplete(snap, i) /\ ConditionTrue(snap, i) /\ ~StepEnded(snap, i)
      /\ \A k \in Steps \ {i} : ~Busy(snap.steps[k]) /\ snap.steps[k].state # "blocked"
      /\ snap.cancel \in BOOLEAN
  BY EffectAlone, Zenon
<1>2. state \in StepStates /\ state \in {"succeeded", "waiting_retry", "failed"}
  BY Zenon DEF StepStates, ActiveStates, EndStates
<1>3. /\ a \in 0 .. MaxAttempts
      /\ state = "waiting_retry" => a = n + 2 /\ a <= def[i].max /\ ~snap.cancel
                                    /\ kind = "failed_retryable"
      /\ state # "waiting_retry" => a = n + 1
  <2>1. CASE state = "waiting_retry"
    <3>1. a = st.attempt + 1 /\ kind = "failed_retryable" /\ ~snap.cancel /\ st.attempt < def[i].max
      BY <2>1, Zenon DEF RetrySchedule
    <3> QED
      BY <1>1, <2>1, <3>1, NextAttempt, Zenon
  <2>2. CASE state # "waiting_retry"
    BY <1>1, <2>2, Zenon
  <2> QED
    BY <2>1, <2>2, Zenon
<1>4. /\ step \in StepSnapshot /\ step.approval = st.approval /\ step.state = state
      /\ step.attempt = a /\ step.report = st.report
      /\ Len(step.results) = n + 1 /\ step.results[n + 1] = kind
      /\ \A k \in 1 .. n : step.results[k] = st.results[k]
  <2>1. st \in StepSnapshot /\ state \in StepStates /\ a \in 0 .. MaxAttempts
        /\ Len(st.results) < MaxAttempts
    BY <1>1, <1>2, <1>3, Zenon
  <2> HIDE DEF st
  <2> QED
    BY <2>1, WithResultFacts
<1> HIDE DEF step
<1>5. LastResult(step) = kind
  <2>1. step.results # <<>>
    BY <1>1, <1>4, StepFacts
  <2> QED
    BY <1>4, <2>1, Zenon DEF LastResult
<1>6. state = "failed" => kind = "failed" \/ (kind = "failed_retryable" /\ (snap.cancel \/ n + 1 = def[i].max))
  BY <1>1 DEF RetrySchedule, ResultKinds
<1>7. RetryHistory(step, step.state \in {"succeeded", "failed"})
  <2> SUFFICES ASSUME NEW k \in 1 .. (n + 1), ~(state \in {"succeeded", "failed"} /\ k = n + 1)
               PROVE  step.results[k] = "failed_retryable"
    BY <1>4, Zenon DEF RetryHistory
  <2>1. CASE k = n + 1
    BY <1>2, <1>3, <1>4, <2>1, Zenon
  <2>2. CASE k # n + 1
    <3>1. k \in 1 .. n
      BY <1>1, <2>2, AttemptCounts
    <3> QED
      BY <1>1, <1>4, <3>1, Zenon
  <2> QED
    BY <2>1, <2>2, Zenon
<1>8. ApprovalShape(step)
  BY <1>1, <1>4, Zenon DEF ApprovalShape
<1>9. StepShape(step, def[i].max, {"succeeded", "failed"}, snap.cancel)
  <2>1. /\ step.state \in ActiveStates => step.attempt = Len(step.results) + 1 /\ step.attempt <= def[i].max
        /\ Len(step.results) > 0
        /\ step.state \in {"succeeded", "failed"} => step.attempt = Len(step.results)
    BY <1>1, <1>2, <1>3, <1>4, AttemptCounts, Zenon DEF ActiveStates
  <2>2. step.state = "succeeded" => LastResult(step) = "succeeded"
    BY <1>4, <1>5, Zenon
  <2>3. step.state = "failed" =>
          \/ LastResult(step) = "failed"
          \/ LastResult(step) = "failed_retryable" /\ (snap.cancel \/ Len(step.results) = def[i].max)
    BY <1>4, <1>5, <1>6, Zenon
  <2> QED
    BY <1>2, <1>4, <1>7, <2>1, <2>2, <2>3, Zenon DEF StepShape
<1>10. FitStep(i, step, snap.cancel)
  <2>1. Len(step.results) <= def[i].max
    BY <1>1, <1>4, Zenon
  <2> QED
    BY <1>1, <1>2, <1>4, <1>8, <1>9, <2>1, Zenon DEF FitStep
<1>11. FitMove(i, step, IF state = "waiting_retry" THEN "waiting_retry" ELSE AfterResult(snap))
  BY <1>1, <1>2, <1>3, <1>4, <1>10, Zenon DEF FitMove, StatusFits, StepStatus, AfterResult
<1> QED
  BY <1>4, <1>11, Zenon DEF step

\* Recording a result: success, failure, a retry that waits, and the result that
\* arrives while the run is being cancelled.
LEMMA RecordEffectResultWrites ==
    ASSUME EffectInv, WriteInv, NEW i \in Steps, NEW kind \in ResultKinds, RecordEffectResult(i, kind)
    PROVE  WriteInv'
<1> DEFINE st == snap.steps[i]
           a == st.attempt
<1>1. st.state = "in_flight"
  BY Zenon DEF RecordEffectResult
<1>2. /\ snap.cancel \in BOOLEAN /\ i # 0 /\ a \in Nat
      /\ snap.cancel => snap.status = "cancelling"
      /\ ~snap.cancel => snap.status = "effect_in_flight"
  <2>1. st.state \in {"awaiting_effect", "in_flight"}
    BY <1>1
  <2>2. /\ snap.cancel \in BOOLEAN /\ i # 0 /\ a \in 0 .. MaxAttempts
        /\ snap.cancel => snap.status = "cancelling"
        /\ ~snap.cancel => snap.status = IF st.state = "in_flight" THEN "effect_in_flight"
                                         ELSE "awaiting_effect_evaluation"
    BY <2>1, EffectAlone, Zenon
  <2> QED
    BY <1>1, <2>2
<1>3. AfterResult(snap) \in Statuses /\ "waiting_retry" \in Statuses
  BY DEF AfterResult, Statuses
<1>4. CASE kind = "succeeded"
  <2> DEFINE step == WithResult(st, "succeeded", a, kind)
             c == With(snap, i, step, AfterResult(snap))
             t == T("effect_succeeded", i, a)
  <2>1. Save(c, t, 0)
    BY <1>4, Zenon DEF RecordEffectResult
  <2>2. step \in StepSnapshot /\ FitMove(i, step, AfterResult(snap))
    BY <1>1, <1>4, ResultFits, Zenon
  <2>3. t.kind = "effect_succeeded" /\ t.step = i /\ t.attempt = a
    BY Zenon DEF T
  <2>4. FromFlight(snap, t)
    BY <1>1, <1>2, <2>3, Zenon DEF FromFlight
  <2>5. ResultSuccessor(snap, c, t)
    BY <1>4, <2>3, <2>4, Zenon DEF ResultSuccessor, To
  <2>6. Successor(snap, c, t)
    BY <1>2, <2>3, <2>5, Zenon DEF Successor
  <2> HIDE DEF step, t
  <2> QED
    BY <1>3, <2>1, <2>2, <2>6, MoveWrites, Zenon
<1>5. CASE kind # "succeeded" /\ RetrySchedule(i, kind)
  <2> DEFINE step == WithResult(st, "waiting_retry", a + 1, kind)
             c == With(snap, i, step, "waiting_retry")
             t == T("retry_scheduled", i, a + 1)
  <2>1. Save(c, t, 0) /\ ~snap.cancel /\ kind = "failed_retryable"
    BY <1>5, Zenon DEF RecordEffectResult, RetrySchedule
  <2>2. step \in StepSnapshot /\ FitMove(i, step, "waiting_retry")
    BY <1>1, <1>5, ResultFits, Zenon
  <2>3. t.kind = "retry_scheduled" /\ t.step = i /\ t.attempt = a + 1
    BY Zenon DEF T
  <2>4. FromFlight(snap, [t EXCEPT !.attempt = @ - 1])
    <3>1. [t EXCEPT !.attempt = @ - 1] = T("retry_scheduled", i, a)
      BY <1>2 DEF T
    <3> QED
      BY <1>1, <1>2, <2>1, <3>1 DEF FromFlight, T
  <2>5. ResultSuccessor(snap, c, t)
    BY <2>1, <2>3, <2>4, Zenon DEF ResultSuccessor, To
  <2>6. Successor(snap, c, t)
    BY <1>2, <2>3, <2>5, Zenon DEF Successor
  <2> HIDE DEF step, t
  <2> QED
    BY <1>3, <2>1, <2>2, <2>6, MoveWrites, Zenon
<1>6. CASE kind # "succeeded" /\ ~RetrySchedule(i, kind)
  <2> DEFINE step == WithResult(st, "failed", a, kind)
             c == With(snap, i, step, AfterResult(snap))
             exhausted == kind = "failed_retryable" /\ ~snap.cancel
             t == T(IF exhausted THEN "retry_exhausted" ELSE "effect_failed", i, a)
  <2>1. Save(c, t, 0)
    BY <1>6, Zenon DEF RecordEffectResult
  <2>2. step \in StepSnapshot /\ FitMove(i, step, AfterResult(snap))
    BY <1>1, <1>6, ResultFits, Zenon
  <2>3. /\ t.kind = IF exhausted THEN "retry_exhausted" ELSE "effect_failed"
        /\ t.step = i /\ t.attempt = a
    BY Zenon DEF T
  <2>4. FromFlight(snap, t)
    BY <1>1, <1>2, <2>3, Zenon DEF FromFlight
  <2>5. ResultSuccessor(snap, c, t)
    <3>1. CASE exhausted
      BY <2>3, <2>4, <3>1, Zenon DEF ResultSuccessor, To, AfterResult
    <3>2. CASE ~exhausted
      <4>1. kind \in {"failed"} \cup (IF snap.cancel THEN {"failed_retryable"} ELSE {})
        BY <1>6, <3>2 DEF ResultKinds
      <4> QED
        BY <2>3, <2>4, <3>2, <4>1, Zenon DEF ResultSuccessor, To
    <3> QED
      BY <3>1, <3>2, Zenon
  <2>6. Successor(snap, c, t)
    BY <1>2, <2>3, <2>5, Zenon DEF Successor
  <2> HIDE DEF step, t
  <2> QED
    BY <1>3, <2>1, <2>2, <2>6, MoveWrites
<1> QED
  BY <1>4, <1>5, <1>6

-----------------------------------------------------------------------------
\* Updates of the run as a whole that keep every step's state and results.
LEMMA WholeWrites ==
    ASSUME EffectInv, WriteInv, NEW c \in Snapshot, NEW t, NEW j,
           StatusShape(c), Successor(snap, c, t), Save(c, t, j),
           \A i \in Steps : FitStep(i, c.steps[i], c.cancel),
           \A i \in Steps :
             /\ c.steps[i].approval # "pending"
             /\ snap.steps[i].approval = "not_requested" => c.steps[i].approval = "not_requested"
             /\ StepEnded(snap, i) => c.steps[i].state = snap.steps[i].state
             /\ Decided(c.steps[i]) => Decided(snap.steps[i])
             /\ c.steps[i].state \in {snap.steps[i].state, "cancelled"}
    PROVE  WriteInv'
<1>1. snap \in Snapshot /\ def \in Definitions
  BY Zenon DEF EffectInv, TypeOK
<1>2. Standalone(c)
  BY <1>1, FitIsValid, Zenon
<1>3. snap' = c /\ def' = def /\ rejected' = rejected
  BY <1>2, Zenon DEF Save
<1>4. ASSUME NEW i \in Steps PROVE Settled(c, i)
  <2> SUFFICES ASSUME Decided(c.steps[i])
               PROVE  /\ PrerequisitesComplete(c, i)
                      /\ c.steps[i].state = "skipped" <=> ~ConditionTrue(c, i)
    BY Zenon DEF Settled
  <2>1. /\ PrerequisitesComplete(snap, i)
        /\ snap.steps[i].state = "skipped" <=> ~ConditionTrue(snap, i)
    BY Zenon DEF WriteInv, Settled
  <2>2. c.steps[i].state = snap.steps[i].state
    BY Zenon DEF Decided
  <2> QED
    BY <1>1, <2>1, <2>2, DecisionsStand, Zenon
<1>5. \A i \in Steps : FitStep(i, snap.steps[i], snap.cancel)' /\ Settled(snap, i)'
  BY <1>3, <1>4, ZenonT(40) DEF FitStep, Settled, PrerequisitesComplete, ConditionTrue, StepEnded, Refs
<1>6. FirstAwaited' /\ CancelAwaitsNothing'
  BY <1>3, Zenon DEF FirstAwaited, CancelAwaitsNothing
<1>7. RefusedSkip'
  <2> SUFFICES ASSUME rejected # NoTransition
               PROVE  /\ rejected.kind = "step_skipped" /\ rejected.step \in Steps
                      /\ c.steps[rejected.step].approval = "not_requested"
                      /\ PrerequisitesComplete(c, rejected.step)
                      /\ ~ConditionTrue(c, rejected.step)
    BY <1>3, Zenon DEF RefusedSkip, PrerequisitesComplete, ConditionTrue, StepEnded, Refs
  <2>1. /\ rejected.kind = "step_skipped" /\ rejected.step \in Steps
        /\ snap.steps[rejected.step].approval = "not_requested"
        /\ PrerequisitesComplete(snap, rejected.step) /\ ~ConditionTrue(snap, rejected.step)
    BY Zenon DEF WriteInv, RefusedSkip
  <2> QED
    BY <1>1, <2>1, DecisionsStand, Zenon
<1> QED
  BY <1>5, <1>6, <1>7, Zenon DEF WriteInv

\* Being cancelled only loosens what a step has to look like.
LEMMA FitWhenCancelled ==
    ASSUME NEW i \in Steps, NEW st, NEW cancel \in BOOLEAN, FitStep(i, st, cancel)
    PROVE  FitStep(i, st, TRUE)
<1>1. StepShape(st, def[i].max, {"succeeded", "failed"}, TRUE)
  BY Zenon DEF FitStep, StepShape
<1> QED
  BY <1>1, Zenon DEF FitStep

\* Cancelling the run as a whole: its steps end together in one save.
LEMMA FinishCancelledWrites ==
    ASSUME EffectInv, WriteInv, ~Ended(snap), FinishCancelled
    PROVE  WriteInv'
<1> DEFINE c == AllCancelled(snap)
           t == T("run_completed", 0, 0)
<1>1. snap \in Snapshot /\ Save(c, t, 0)
  BY Zenon DEF EffectInv, TypeOK, FinishCancelled
<1>2. /\ c \in Snapshot /\ c.status = "cancelled" /\ c.cancel = TRUE
      /\ \A i \in Steps :
           /\ c.steps[i].state = IF StepEnded(snap, i) THEN snap.steps[i].state ELSE "cancelled"
           /\ c.steps[i].attempt = IF StepEnded(snap, i) THEN snap.steps[i].attempt ELSE 0
           /\ c.steps[i].approval = IF snap.steps[i].approval = "pending"
                                    THEN "not_requested" ELSE snap.steps[i].approval
           /\ c.steps[i].results = snap.steps[i].results
           /\ c.steps[i].report = snap.steps[i].report
  BY <1>1, CancelledFacts, Zenon
<1>3. Successor(snap, c, t)
  <2>1. t.kind = "run_completed" /\ t.step = 0
    BY Zenon DEF T
  <2>2. RunSuccessor(snap, c, t)
    BY <2>1 DEF RunSuccessor
  <2> QED
    BY <2>1, <2>2, Zenon DEF Successor
<1> HIDE DEF c, t
<1>4. \A i \in Steps : /\ c.steps[i].state \in EndStates
                       /\ c.steps[i].state \notin ActiveStates
                       /\ c.steps[i].approval # "pending"
  BY <1>2, Zenon DEF StepEnded, EndStates, ActiveStates
<1>5. StatusShape(c)
  BY <1>2, <1>4, Zenon DEF StatusShape, OneActive, ComputedStatus, StepEnded
<1>6. ASSUME NEW i \in Steps PROVE FitStep(i, c.steps[i], c.cancel)
  <2> DEFINE st == snap.steps[i]
             new == c.steps[i]
  <2>1. /\ new.state = IF StepEnded(snap, i) THEN st.state ELSE "cancelled"
        /\ new.attempt = IF StepEnded(snap, i) THEN st.attempt ELSE 0
        /\ new.approval = IF st.approval = "pending" THEN "not_requested" ELSE st.approval
        /\ new.results = st.results /\ new.report = st.report /\ new \in StepSnapshot
    BY <1>2, Zenon DEF Snapshot
  <2>2. /\ st \in StepSnapshot /\ FitStep(i, st, snap.cancel) /\ snap.cancel \in BOOLEAN
        /\ st.state = "pending" => ~st.report
        /\ st.state \in ActiveStates => ~st.report
        /\ ~StepEnded(snap, i) => \A k \in 1 .. Len(st.results) : st.results[k] = "failed_retryable"
    BY FitFacts, Zenon
  <2>3. FitStep(i, st, TRUE)
    BY <2>2, FitWhenCancelled, Zenon
  <2>4. st.approval = "pending" => st.state = "pending"
    BY ShapeFacts, Zenon DEF EffectInv, TypeOK
  <2> HIDE DEF st, new
  <2>5. CASE StepEnded(snap, i)
    <3>1. st.approval # "pending"
      BY <2>4, <2>5, Zenon DEF StepEnded, EndStates, st
    <3>2. new.state = st.state /\ new.attempt = st.attempt /\ new.approval = st.approval
      BY <2>1, <2>5, <3>1, Zenon
    <3>3. new = st
      BY <2>1, <2>2, <3>2 DEF StepSnapshot
    <3> QED
      BY <1>2, <2>3, <3>3, Zenon DEF new
  <2>6. CASE ~StepEnded(snap, i)
    <3>1. new.state = "cancelled" /\ ~new.report
      BY <2>1, <2>2, <2>6, StepFacts, Zenon DEF StepEnded, StepStates, st
    <3>2. ApprovalShape(new)
      <4>1. ApprovalShape(st)
        BY <2>3, Zenon DEF FitStep
      <4>2. st.approval # "denied"
        BY <2>6, <4>1, Zenon DEF ApprovalShape, StepEnded, EndStates, st
      <4> QED
        BY <2>1, <3>1, <4>1, <4>2, Zenon DEF ApprovalShape
    <3>3. RetryHistory(new, new.state \in {"succeeded", "failed"})
      BY <2>1, <2>2, <2>6, Zenon DEF RetryHistory
    <3>4. StepShape(new, def[i].max, {"succeeded", "failed"}, TRUE)
      BY <3>1, <3>3, Zenon DEF StepShape, ActiveStates
    <3>5. FitStep(i, new, TRUE)
      BY <2>1, <2>3, <3>1, <3>2, <3>4, Zenon DEF FitStep, ActiveStates
    <3> QED
      BY <1>2, <3>5, Zenon DEF new
  <2> QED
    BY <2>5, <2>6
<1>7. \A i \in Steps :
        /\ c.steps[i].approval # "pending"
        /\ snap.steps[i].approval = "not_requested" => c.steps[i].approval = "not_requested"
        /\ StepEnded(snap, i) => c.steps[i].state = snap.steps[i].state
        /\ Decided(c.steps[i]) => Decided(snap.steps[i])
        /\ c.steps[i].state \in {snap.steps[i].state, "cancelled"}
  BY <1>2, Zenon DEF Decided, StepEnded, EndStates
<1> QED
  BY <1>1, <1>2, <1>3, <1>5, <1>6, <1>7, WholeWrites, Zenon

\* Completing the run: with every step ended and none blocked or cancelled, the
\* status is the one the successor rule demands.
LEMMA CompleteRunWrites ==
    ASSUME EffectInv, WriteInv, CompleteRun
    PROVE  WriteInv'
<1> DEFINE status == IF InState(snap, "failed") THEN "unresolved" ELSE "succeeded"
           c == [snap EXCEPT !.status = status]
           t == T("run_completed", 0, 0)
<1>1. /\ ~Ended(snap) /\ ~snap.cancel /\ \A i \in Steps : StepEnded(snap, i)
      /\ snap \in Snapshot /\ Save(c, t, issued)
  BY DEF CompleteRun, Idle, EffectInv, TypeOK
<1>2. /\ c \in Snapshot /\ c.status = status /\ c.cancel = snap.cancel /\ c.steps = snap.steps
  BY <1>1 DEF Snapshot, Statuses, EndStatuses
<1>3. \A i \in Steps : /\ snap.steps[i].state \in EndStates /\ snap.steps[i].state # "cancelled"
                       /\ snap.steps[i].state # "blocked" /\ snap.steps[i].approval # "pending"
  <2>1. \A i \in Steps : snap.steps[i].state # "blocked"
    BY <1>1 DEF EffectInv, EndIsQuiet, Ended, EndStatuses, InState
  <2>2. \A i \in Steps : snap.steps[i].state # "cancelled"
    BY <1>1 DEF WriteInv, FitStep
  <2>3. \A i \in Steps : snap.steps[i].approval = "pending" => snap.steps[i].state = "pending"
    BY ShapeFacts, Zenon DEF EffectInv, TypeOK
  <2> QED
    BY <1>1, <2>1, <2>2, <2>3, Zenon DEF StepEnded, EndStates
<1>4. /\ ~InState(snap, "blocked") /\ ~PendingApproval(snap) /\ ~InState(snap, "waiting_retry")
      /\ ~InState(snap, "awaiting_effect") /\ ~InState(snap, "in_flight")
  BY <1>3, Zenon DEF InState, PendingApproval, EndStates
<1>5. snap.status = "running"
  <2>1. ComputedStatus(snap) = snap.status
    BY Zenon DEF EffectInv, Standalone, StatusShape
  <2> QED
    BY <1>1, <1>4, <2>1 DEF ComputedStatus, Ended, EndStatuses
<1>6. Successor(snap, c, t)
  <2>1. t.kind = "run_completed" /\ t.step = 0
    BY Zenon DEF T
  <2>2. CASE InState(snap, "failed")
    <3>1. c = [snap EXCEPT !.status = "unresolved"]
      BY <2>2
    <3>2. \A k \in Steps : StepEnded(snap, k) /\ snap.steps[k].state \notin {"blocked", "cancelled"}
      BY <1>1, <1>3
    <3> HIDE DEF c, t
    <3> QED
      BY <1>1, <1>5, <2>1, <2>2, <3>1, <3>2 DEF Successor, RunSuccessor
  <2>3. CASE ~InState(snap, "failed")
    <3>1. c = [snap EXCEPT !.status = "succeeded"]
      BY <2>3
    <3>2. \A k \in Steps : /\ StepEnded(snap, k)
                           /\ snap.steps[k].state \notin {"failed", "blocked", "cancelled"}
      BY <1>1, <1>3, <2>3, Zenon DEF InState
    <3> HIDE DEF c, t
    <3> QED
      BY <1>1, <1>5, <2>1, <3>1, <3>2 DEF Successor, RunSuccessor
  <2> QED
    BY <2>2, <2>3
<1>7. status \in {"unresolved", "succeeded"} /\ (status = "unresolved" <=> InState(snap, "failed"))
  OBVIOUS
<1> HIDE DEF c, t, status
<1>8. StatusShape(c)
  <2>1. OneActive(c)
    BY <1>2, Zenon DEF EffectInv, Standalone, StatusShape, OneActive
  <2>2. ComputedStatus(c) = c.status
    BY <1>1, <1>2, <1>4, <1>7, Zenon DEF ComputedStatus, InState, PendingApproval, StepEnded
  <2> QED
    BY <1>2, <1>7, <2>1, <2>2, Zenon DEF StatusShape
<1>9. \A i \in Steps : FitStep(i, c.steps[i], c.cancel)
  BY <1>2, Zenon DEF WriteInv
<1> QED
  BY <1>1, <1>2, <1>3, <1>6, <1>8, <1>9, WholeWrites, Zenon

\* A request to cancel, while an effect is in flight or not.
LEMMA CancelWrites ==
    ASSUME EffectInv, WriteInv, Cancel
    PROVE  WriteInv'
<1>1. CASE ~\E i \in Steps : snap.steps[i].state = "in_flight" /\ def[i].effect = "stateful"
  BY <1>1, FinishCancelledWrites DEF Cancel
<1>2. CASE \E i \in Steps : snap.steps[i].state = "in_flight" /\ def[i].effect = "stateful"
  <2> DEFINE c == [snap EXCEPT !.cancel = TRUE, !.status = "cancelling"]
             t == T("cancellation_requested", 0, 0)
  <2>1. /\ ~snap.cancel /\ ~Ended(snap) /\ snap \in Snapshot /\ Save(c, t, issued)
    BY <1>2 DEF Cancel, EffectInv, TypeOK
  <2>2. PICK i \in Steps : snap.steps[i].state = "in_flight"
    BY <1>2
  <2>3. /\ c \in Snapshot /\ c.status = "cancelling" /\ c.cancel = TRUE /\ c.steps = snap.steps
    BY <2>1, Zenon DEF Snapshot, Statuses
  <2>4. /\ snap.status = "effect_in_flight"
        /\ \A k \in Steps : snap.steps[k].approval # "pending"
    BY <2>1, <2>2, EffectAlone, Zenon DEF Busy
  <2>5. Successor(snap, c, t)
    <3>1. t.kind = "cancellation_requested" /\ t.step = 0
      BY Zenon DEF T
    <3> QED
      BY <2>1, <2>2, <2>4, <3>1 DEF Successor, RunSuccessor, InState
  <2> HIDE DEF c, t
  <2>6. StatusShape(c)
    <3>1. OneActive(c)
      BY <2>3, ZenonT(40) DEF EffectInv, Standalone, StatusShape, OneActive
    <3> QED
      BY <2>3, <3>1, Zenon DEF StatusShape, ComputedStatus
  <2>7. \A k \in Steps : FitStep(k, c.steps[k], c.cancel)
    BY <2>1, <2>3, FitWhenCancelled, Zenon DEF WriteInv, Snapshot
  <2> QED
    BY <2>1, <2>3, <2>4, <2>5, <2>6, <2>7, WholeWrites, Zenon
<1> QED
  BY <1>1, <1>2, Zenon

\* Steps that leave the snapshot and the refused transition alone.
LEMMA WorldKeepsWrites ==
    ASSUME WriteInv, UNCHANGED <<def, snap, rejected>>
    PROVE  WriteInv'
<1>1. \A k \in Steps : FitStep(k, snap.steps[k], snap.cancel)' /\ Settled(snap, k)'
  BY ZenonT(40) DEF WriteInv, FitStep, Settled, PrerequisitesComplete, ConditionTrue, StepEnded, Refs
<1>2. FirstAwaited' /\ CancelAwaitsNothing' /\ RefusedSkip'
  BY Zenon DEF WriteInv, FirstAwaited, CancelAwaitsNothing, RefusedSkip, Ready, PrerequisitesComplete,
         ConditionTrue, StepEnded, Refs
<1> QED
  BY <1>1, <1>2, Zenon DEF WriteInv

\* A new run fits: every step is pending and undecided.
LEMMA InitWriteInv ==
    ASSUME Init
    PROVE  WriteInv
<1>1. /\ rejected = NoTransition /\ snap.cancel = FALSE /\ EffectInv
      /\ \A i \in Steps :
           /\ snap.steps[i].state = "pending" /\ snap.steps[i].results = <<>>
           /\ snap.steps[i].report = FALSE
           /\ snap.steps[i].approval = IF def[i].approval = "none" THEN "not_required" ELSE "not_requested"
  BY InitEffectInv, Zenon DEF Init
<1>2. ASSUME NEW i \in Steps PROVE FitStep(i, snap.steps[i], snap.cancel) /\ Settled(snap, i)
  <2> DEFINE st == snap.steps[i]
  <2>1. /\ st.state = "pending" /\ st.results = <<>> /\ st.report = FALSE /\ Len(st.results) = 0
        /\ st.approval = IF def[i].approval = "none" THEN "not_required" ELSE "not_requested"
    BY <1>1
  <2>2. def[i].max \in 1 .. MaxAttempts
    BY <1>1, DefinitionFacts, Zenon DEF EffectInv, TypeOK, Attempts
  <2> HIDE DEF st
  <2>3. ApprovalShape(st)
    BY <2>1, Zenon DEF ApprovalShape
  <2>4. StepShape(st, def[i].max, {"succeeded", "failed"}, snap.cancel)
    BY <2>1, UntriedShape, Zenon
  <2>5. FitStep(i, st, snap.cancel)
    BY <2>1, <2>2, <2>3, <2>4 DEF FitStep, ActiveStates
  <2>6. ~Decided(st)
    BY <2>1, Zenon DEF Decided
  <2> QED
    BY <2>5, <2>6, Zenon DEF Settled, st
<1>3. FirstAwaited /\ CancelAwaitsNothing /\ RefusedSkip
  BY <1>1, Zenon DEF FirstAwaited, CancelAwaitsNothing, RefusedSkip
<1> QED
  BY <1>2, <1>3, Zenon DEF WriteInv

\* Every action keeps WriteInv, given EffectInv.
LEMMA NextWriteInv ==
    ASSUME EffectInv, WriteInv, [Next]_vars
    PROVE  WriteInv'
<1>1. CASE CompleteRun
  BY <1>1, CompleteRunWrites
<1>2. CASE FinishCancelling
  BY <1>2, FinishCancelledWrites DEF FinishCancelling
<1>3. CASE Cancel
  BY <1>3, CancelWrites
<1>4. ASSUME NEW i \in Steps, SkipStep(i) PROVE WriteInv'
  BY <1>4, SkipStepWrites
<1>5. ASSUME NEW i \in Steps, RequestApproval(i) PROVE WriteInv'
  BY <1>5, RequestApprovalWrites
<1>6. ASSUME NEW i \in Steps, ScheduleStep(i) \/ RetryDue(i) PROVE WriteInv'
  BY <1>6, ScheduleWrites
<1>7. ASSUME NEW i \in Steps, PrepareEffect(i) PROVE WriteInv'
  BY <1>7, EffectMoveWrites, Zenon DEF PrepareEffect, Evaluable
<1>8. ASSUME NEW i \in Steps, DenyEffectAuthorization(i) \/ ReconcileUnknown(i) PROVE WriteInv'
  BY <1>8, BlockWrites
<1>9. ASSUME NEW i \in Steps, ReconcileNotApplied(i) PROVE WriteInv'
  <2>1. CASE snap.cancel
    <3>1. FinishCancelled /\ snap.steps[i].state = "in_flight"
      BY <1>9, <2>1, Zenon DEF ReconcileNotApplied, Uncertain
    <3>2. ~Ended(snap)
      BY <3>1, EffectAlone, Zenon
    <3> QED
      BY <3>1, <3>2, FinishCancelledWrites, Zenon
  <2>2. CASE ~snap.cancel
    BY <1>9, <2>2, EffectMoveWrites
  <2> QED
    BY <2>1, <2>2
<1>10. ASSUME NEW i \in Steps, NEW kind \in ResultKinds,
              ReportResult(i, kind) \/ ReconcileCompleted(i, kind)
       PROVE  WriteInv'
  BY <1>10, RecordEffectResultWrites, Zenon DEF ReportResult, ReconcileCompleted
<1>11. ASSUME NEW i \in Steps, Perform(i) PROVE WriteInv'
  BY <1>11, WorldKeepsWrites, Zenon DEF Perform
<1>12. ASSUME NEW i \in Steps, NEW granted \in BOOLEAN, ResolveApproval(i, granted) PROVE WriteInv'
  BY <1>12, ResolveApprovalWrites
<1>13. CASE Crash
  BY <1>13, WorldKeepsWrites DEF Crash
<1>14. CASE UNCHANGED vars
  BY <1>14, WorldKeepsWrites DEF vars
<1> QED
  BY <1>1, <1>2, <1>3, <1>4, <1>5, <1>6, <1>7, <1>8, <1>9, <1>10, <1>11, <1>12, <1>13, <1>14, Zenon
     DEF Next, Work

\* WritesAreAccepted: for every definition and every interleaving, what the engine
\* writes is well formed, the store refuses nothing but the skip of a step whose
\* approval was not requested, and every stored snapshot can be resumed.
THEOREM WritesAccepted == Spec => []WritesAreAccepted
<1>1. Init => EffectInv /\ WriteInv
  BY InitEffectInv, InitWriteInv
<1>2. EffectInv /\ WriteInv /\ [Next]_vars => (EffectInv /\ WriteInv)'
  BY NextEffectInv, NextWriteInv
<1>3. EffectInv /\ WriteInv => WritesAreAccepted
  <2> SUFFICES ASSUME EffectInv, WriteInv PROVE WritesAreAccepted
    OBVIOUS
  <2>1. /\ snap \in Snapshot /\ rejected \in Transition /\ def \in Definitions /\ StatusShape(snap)
    BY Zenon DEF EffectInv, TypeOK, Standalone
  <2>2. ResumeValid(snap)
    BY <2>1, FitIsValid, Zenon DEF WriteInv
  <2>3. OnlySkipsRefused
    BY Zenon DEF WriteInv, RefusedSkip, OnlySkipsRefused
  <2> QED
    BY <2>1, <2>2, <2>3 DEF WritesAreAccepted, ResumeSucceeds
<1> QED
  BY <1>1, <1>2, <1>3, PTL DEF Spec
=============================================================================
