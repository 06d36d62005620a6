-------------------------- MODULE FlowWorkerProofs --------------------------
(*****************************************************************************)
(* Proofs about the worker that drives a flow against the store              *)
(* (FlowWorker). Between any two of its awaits the request may be cancelled, *)
(* its lease may expire and be recovered and claimed again, its grant may be *)
(* withdrawn and the working tree edited. WorkerInv says what survives of    *)
(* the worker's knowledge: only the holder of the lease saves, so the        *)
(* checkpoint it carries is the stored one, and it believes in a             *)
(* cancellation only when there is one.                                      *)
(*****************************************************************************)
EXTENDS FlowWorker, TLAPS

-----------------------------------------------------------------------------
(* The flow worker *)

\* The phases of a run that goes on.
Active == {"ready", "retry", "awaiting", "inflight"}

\* A run: its step lies in the plan while something is being done about it.
Runs == [phase : {"none"} \cup Active \cup Outcomes, step : Nat, attempt : Nat, failed : BOOLEAN]

\* A checkpoint the engine can have saved.
RunFits(run) ==
    /\ run \in Runs
    /\ run.phase = "none" => run = NoRun
    /\ run.phase \in Active => run.step \in 1 .. Len(Plan) + 1
    /\ run.phase \in {"retry", "awaiting", "inflight"} => run.step \in 1 .. Len(Plan)

\* Where a job that drives nothing any more is.
Ended == {"none", "error", "done", "dead", "stale"}

\* Where a job can be.
JobPcs == {"load", "validate", "create", "loop", "decide", "wait", "evaluate", "deny", "start", "pin",
           "boundary", "running", "recheck", "record", "reconcile", "cancel", "finish", "refuse"} \cup Ended

\* What the effect under way was prepared as.
Prepared == {"none", "git", "connector", "rejected"}

\* How the effect under way ended.
EffectOutcomes == {"none", "due", "ok", "retryable", "failed"}

\* A worker's job.
JobRecord == [pc : JobPcs, run : Runs, prepared : Prepared, outcome : EffectOutcomes, held : BOOLEAN,
              dirty : BOOLEAN]

\* What the place a worker is at says of the run it holds.
RunAtPc(x) ==
    /\ RunFits(x.run)
    /\ x.pc \in {"loop", "decide", "wait", "evaluate", "deny", "start", "pin", "boundary", "running",
                 "recheck", "record"} => x.run.phase \in Active
    /\ x.pc \in {"evaluate", "deny", "start"} => x.run.phase \in {"awaiting", "inflight"}
    /\ x.pc \in {"pin", "boundary", "running", "recheck", "record"} => x.run.phase = "inflight"
    /\ x.pc = "wait" => x.run.phase = "retry"
    /\ x.pc \in {"validate", "create"} => x.run.phase \notin Outcomes
    /\ x.pc = "create" => x.run = NoRun
    /\ x.pc = "finish" => x.run.phase \in Outcomes

\* What the lease promises its worker: nobody else saves, and a cancellation it has
\* seen stays.
LeaseFits(w, x) ==
    HasLease(w) =>
        /\ x.pc \notin Ended
        /\ x.pc # "load" => flow.run = x.run
        /\ x.pc \in {"cancel", "reconcile"} => RequestIsCancelled

\* What the effect under way rests on.
EffectFits(w, x) ==
    /\ x.pc \in {"pin", "boundary"} /\ granted /\ HasLease(w) /\ flow.state = "leased" => x.held
    /\ x.pc = "running" => x.held
    /\ x.dirty => tree = "changed"
    /\ x.pc = "record" /\ x.outcome = "ok" => ~(x.prepared = "git" /\ x.dirty)

\* What a job rests on.
JobFits(w, x) == x \in JobRecord /\ RunAtPc(x) /\ LeaseFits(w, x) /\ EffectFits(w, x)

\* The request's row with its checkpoint.
FlowRow == [state : {"queued", "leased", "cancelling"} \cup Settled, lease : Nat, live : BOOLEAN, run : Runs]

\* The inductive invariant of the worker.
WorkerInv ==
    /\ flow \in FlowRow
    /\ RunFits(flow.run)
    /\ flow.state = "cancelling" /\ flow.run.phase \in Outcomes => flow.run.phase = "cancelled"
    /\ flow.state = "queued" => flow.run.phase \notin Outcomes
    /\ granted \in BOOLEAN /\ tree \in {"accepted", "changed"}
    /\ job \in [Jobs -> JobRecord]
    /\ \A w \in Jobs : JobFits(w, job[w])

-----------------------------------------------------------------------------
(* The flow worker keeps WorkerInv *)

\* A run that is not created yet.
LEMMA NoRunFits == NoRun \in Runs /\ RunFits(NoRun) /\ NoRun.phase = "none"
<1>1. "none" \in {"none"} \cup Active \cup Outcomes /\ "none" \notin Active
  BY Zenon DEF Active
<1>2. NoRun \in Runs /\ NoRun.phase = "none"
  BY <1>1, Zenon DEF NoRun, Runs
<1>3. QED BY <1>1, <1>2, Zenon DEF RunFits

\* A job that has just been claimed or is over.
LEMMA NoJobFits ==
    ASSUME NEW pc \in {"none", "load", "dead"}
    PROVE  /\ [NoJob EXCEPT !.pc = pc] \in JobRecord /\ RunAtPc([NoJob EXCEPT !.pc = pc])
           /\ [NoJob EXCEPT !.pc = pc].pc = pc /\ [NoJob EXCEPT !.pc = pc].dirty = FALSE
<1>1. PICK x : x = [NoJob EXCEPT !.pc = pc]
  BY Zenon
<1>2. pc \in JobPcs /\ "none" \in Prepared /\ "none" \in EffectOutcomes
  BY Zenon DEF JobPcs, Ended, Prepared, EffectOutcomes
<1>3. x \in JobRecord /\ x.pc = pc /\ x.run = NoRun /\ x.dirty = FALSE
  BY <1>1, <1>2, NoRunFits, Zenon DEF NoJob, JobRecord
<1>4. RunAtPc(x)
  BY <1>3, NoRunFits, Zenon DEF RunAtPc
<1>5. QED BY <1>1, <1>3, <1>4

\* No job.
LEMMA IdleJobFits == NoJob \in JobRecord /\ RunAtPc(NoJob) /\ NoJob.pc = "none" /\ NoJob.dirty = FALSE
<1>1. "none" \in JobPcs /\ "none" \in Prepared /\ "none" \in EffectOutcomes
  BY Zenon DEF JobPcs, Ended, Prepared, EffectOutcomes
<1>2. NoJob \in JobRecord /\ NoJob.pc = "none" /\ NoJob.run = NoRun /\ NoJob.dirty = FALSE
  BY <1>1, NoRunFits, Zenon DEF NoJob, JobRecord
<1>3. QED BY <1>2, NoRunFits, Zenon DEF RunAtPc

\* A step of one job that saves nothing keeps the invariant when the job still
\* fits.
LEMMA JobMoves ==
    ASSUME WorkerInv, NEW w \in Jobs, NEW x, job' = [job EXCEPT ![w] = x], JobFits(w, x),
           UNCHANGED <<flow, granted, tree>>
    PROVE  WorkerInv'
<1>1. x \in JobRecord
  BY Zenon DEF JobFits
<1>2. job' \in [Jobs -> JobRecord] /\ job'[w] = x /\ \A v \in Jobs : v # w => job'[v] = job[v]
  BY <1>1, Zenon DEF WorkerInv
<1>3. \A v \in Jobs : JobFits(v, job[v])'
  <2> TAKE v \in Jobs
  <2>1. PICK y : y = job'[v]
    BY Zenon
  <2>2. JobFits(v, y)
    BY <1>2, <2>1, Zenon DEF WorkerInv
  <2>3. QED BY <2>1, <2>2, ZenonT(40) DEF JobFits, RunAtPc, LeaseFits, EffectFits, HasLease, RequestIsCancelled
<1>4. QED BY <1>2, <1>3, Zenon DEF WorkerInv

\* Two states of a worker that differ at most in the place.
SameWork(x, y) ==
    /\ x.run = y.run /\ x.held = y.held /\ x.dirty = y.dirty
    /\ x.outcome = y.outcome /\ x.prepared = y.prepared

\* A job that only goes on keeps the invariant.
LEMMA PcMoves ==
    ASSUME WorkerInv, NEW w \in Jobs, NEW pc \in JobPcs, JobOnly(w, pc),
           \A x \in JobRecord :
               x.pc = pc /\ SameWork(x, job[w]) => RunAtPc(x) /\ LeaseFits(w, x) /\ EffectFits(w, x)
    PROVE  WorkerInv'
<1>1. PICK x : x = [job[w] EXCEPT !.pc = pc]
  BY Zenon
<1>2. job[w] \in JobRecord
  BY Zenon DEF WorkerInv
<1>3. x \in JobRecord /\ x.pc = pc /\ SameWork(x, job[w])
  BY <1>1, <1>2, Zenon DEF JobRecord, SameWork
<1>4. job' = [job EXCEPT ![w] = x] /\ UNCHANGED <<flow, granted, tree>>
  BY <1>1, Zenon DEF JobOnly, JobGoes, WorkerInv
<1>5. JobFits(w, x)
  BY <1>3, Zenon DEF JobFits
<1>6. QED BY <1>4, <1>5, JobMoves, Zenon

\* A job that lost its lease ends.
LEMMA StaleMoves ==
    ASSUME WorkerInv, NEW w \in Jobs, JobOnly(w, "stale"), ~HasLease(w)
    PROVE  WorkerInv'
<1>1. "stale" \in JobPcs
  BY Zenon DEF JobPcs, Ended
<1>2. JobFits(w, job[w])
  BY Zenon DEF WorkerInv
<1>3. ASSUME NEW x \in JobRecord, x.pc = "stale", SameWork(x, job[w])
      PROVE  RunAtPc(x) /\ LeaseFits(w, x) /\ EffectFits(w, x)
  BY <1>2, <1>3, Zenon DEF SameWork, JobFits, RunAtPc, LeaseFits, EffectFits
<1>4. QED BY <1>1, <1>3, PcMoves, Zenon

\* A job that met a cancellation turns to it.
LEMMA CancelMoves ==
    ASSUME WorkerInv, NEW w \in Jobs, JobOnly(w, "cancel"), RequestIsCancelled,
           job[w].pc \notin Ended \cup {"load"}
    PROVE  WorkerInv'
<1>1. "cancel" \in JobPcs /\ "cancel" \notin Ended
  BY Zenon DEF JobPcs, Ended
<1>2. JobFits(w, job[w])
  BY Zenon DEF WorkerInv
<1>3. ASSUME NEW x \in JobRecord, x.pc = "cancel", SameWork(x, job[w])
      PROVE  RunAtPc(x) /\ LeaseFits(w, x) /\ EffectFits(w, x)
  BY <1>1, <1>2, <1>3, Zenon DEF SameWork, JobFits, RunAtPc, LeaseFits, EffectFits
<1>4. QED BY <1>1, <1>3, PcMoves, Zenon

\* Renewing the lease tells a job whether it still has it and whether it is
\* cancelled.
LEMMA RenewMoves ==
    ASSUME WorkerInv, NEW w \in Jobs, NEW pc, RenewAndPoll(w, pc), job[w].pc \notin Ended \cup {"load"},
           HasLease(w) /\ ~RequestIsCancelled /\ JobOnly(w, pc) => WorkerInv'
    PROVE  WorkerInv'
<1>1. CASE ~HasLease(w)
  BY <1>1, StaleMoves, Zenon DEF RenewAndPoll
<1>2. CASE HasLease(w) /\ RequestIsCancelled
  BY <1>2, CancelMoves, Zenon DEF RenewAndPoll
<1>3. CASE HasLease(w) /\ ~RequestIsCancelled
  BY <1>3, Zenon DEF RenewAndPoll
<1>4. QED BY <1>1, <1>2, <1>3, Zenon

\* Saving a checkpoint (persist): only the holder of the lease succeeds, and the
\* row then holds what the job carries.
LEMMA PersistMoves ==
    ASSUME WorkerInv, NEW w \in Jobs, NEW kept, NEW pc \in JobPcs \ (Ended \cup {"cancel", "reconcile"}),
           NEW conflict, PersistAs(w, kept, pc, conflict),
           job[w].pc \notin Ended \cup {"load"},
           NEW y, y = [kept EXCEPT !.pc = pc], y \in JobRecord, y.pc = pc, y.run = kept.run,
           RunAtPc(y), EffectFits(w, y),
           HasLease(w) /\ SaveConflicts(kept.run) => conflict = "reconcile" /\ RequestIsCancelled
    PROVE  WorkerInv'
<1> DEFINE saved == HasLease(w) /\ ~SaveConflicts(kept.run) /\ flow.run = job[w].run
<1>1. JobFits(w, job[w]) /\ UNCHANGED <<granted, tree>>
  BY Zenon DEF WorkerInv, PersistAs
<1>2. HasLease(w) => flow.run = job[w].run
  BY <1>1, Zenon DEF JobFits, LeaseFits
<1>3. CASE saved
  <2>1. flow' = [flow EXCEPT !.run = kept.run] /\ job' = [job EXCEPT ![w] = y]
    BY <1>3, Zenon DEF PersistAs
  <2>2. flow \in FlowRow /\ kept.run \in Runs /\ RunFits(kept.run)
    BY Zenon DEF WorkerInv, RunAtPc, RunFits
  <2>3. /\ flow' \in FlowRow /\ flow'.run = kept.run /\ flow'.state = flow.state
        /\ flow'.lease = flow.lease /\ flow'.live = flow.live
    BY <2>1, <2>2, Zenon DEF FlowRow
  <2>4. HasLease(w) /\ HasLease(w)' /\ \A v \in Jobs : v # w => ~HasLease(v)'
    BY <1>3, <2>3, Zenon DEF HasLease
  <2>5. job' \in [Jobs -> JobRecord] /\ job'[w] = y /\ \A v \in Jobs : v # w => job'[v] = job[v]
    BY <2>1, Zenon DEF WorkerInv
  <2>6. \A v \in Jobs : JobFits(v, job[v])'
    <3> TAKE v \in Jobs
    <3>1. CASE v = w
      <4>1. LeaseFits(w, y)'
        BY <2>3, Zenon DEF LeaseFits
      <4>2. EffectFits(w, y)'
        BY <1>1, <2>3, <2>4, Zenon DEF EffectFits
      <4>3. PICK z : z = job'[v]
        BY Zenon
      <4>4. z = y
        BY <2>5, <3>1, <4>3, Zenon
      <4>5. z \in JobRecord /\ RunAtPc(z) /\ LeaseFits(v, z)' /\ EffectFits(v, z)'
        BY <3>1, <4>1, <4>2, <4>4, Zenon
      <4>6. QED BY <4>3, <4>5 DEF JobFits, LeaseFits, EffectFits, RunAtPc
    <3>2. CASE v # w
      <4>1. PICK z : z = job[v]
        BY Zenon
      <4>2. JobFits(v, z) /\ job'[v] = z
        BY <2>5, <3>2, <4>1, Zenon DEF WorkerInv
      <4>3. LeaseFits(v, z)'
        BY <2>4, <3>2, Zenon DEF LeaseFits
      <4>4. EffectFits(v, z)'
        BY <1>1, <2>4, <3>2, <4>2, Zenon DEF JobFits, EffectFits
      <4>5. QED BY <4>2, <4>3, <4>4 DEF JobFits, LeaseFits, EffectFits, RunAtPc
    <3>3. QED BY <3>1, <3>2, Zenon
  <2>7. flow'.state = "cancelling" /\ flow'.run.phase \in Outcomes => flow'.run.phase = "cancelled"
    BY <1>3, <2>3, Zenon DEF SaveConflicts, RequestIsCancelled
  <2>8. flow'.state # "queued"
    BY <2>3, <2>4, Zenon DEF HasLease
  <2>9. RunFits(flow.run)'
    BY <2>2, <2>3, Zenon DEF RunFits
  <2>10. QED BY <1>1, <2>3, <2>5, <2>6, <2>7, <2>8, <2>9, Zenon DEF WorkerInv
<1>4. CASE ~HasLease(w)
  <2>1. JobOnly(w, "stale")
    BY <1>4, Zenon DEF PersistAs, JobOnly, JobGoes, WorkerInv
  <2>2. QED BY <1>4, <2>1, StaleMoves, Zenon
<1>5. CASE HasLease(w) /\ SaveConflicts(kept.run)
  <2>1. conflict = "reconcile" /\ RequestIsCancelled
    BY <1>5, Zenon
  <2>2. JobOnly(w, "reconcile")
    BY <1>5, <2>1, Zenon DEF PersistAs, JobOnly, JobGoes, WorkerInv
  <2>3. "reconcile" \in JobPcs /\ "reconcile" \notin Ended
    BY Zenon DEF JobPcs, Ended
  <2>4. ASSUME NEW x \in JobRecord, x.pc = "reconcile", SameWork(x, job[w])
        PROVE  RunAtPc(x) /\ LeaseFits(w, x) /\ EffectFits(w, x)
    BY <1>1, <1>2, <2>1, <2>3, <2>4, Zenon DEF SameWork, JobFits, RunAtPc, LeaseFits, EffectFits
  <2>5. QED BY <2>2, <2>3, <2>4, PcMoves, Zenon
<1>6. QED BY <1>2, <1>3, <1>4, <1>5, Zenon

\* The invariant asks little of a job without a lease.
LEMMA Unleased ==
    ASSUME NEW v, NEW z \in JobRecord, RunAtPc(z), EffectFits(v, z), ~HasLease(v)', tree' = tree
    PROVE  JobFits(v, z)'
BY Zenon DEF JobFits, RunAtPc, LeaseFits, EffectFits

\* A change of the row's state or lease keeps its checkpoint.
LEMMA RowMoves ==
    ASSUME WorkerInv, NEW s \in {"queued", "leased", "cancelling"} \cup Settled, NEW n \in Nat,
           NEW l \in BOOLEAN, flow' = [flow EXCEPT !.state = s, !.lease = n, !.live = l],
           s \in {"queued", "cancelling"} =>
               s = flow.state \/ flow.run.phase \notin Outcomes
    PROVE  /\ flow' \in FlowRow /\ flow'.run = flow.run /\ flow'.state = s /\ flow'.lease = n /\ flow'.live = l
           /\ RunFits(flow.run)'
           /\ flow'.state = "cancelling" /\ flow'.run.phase \in Outcomes => flow'.run.phase = "cancelled"
           /\ flow'.state = "queued" => flow'.run.phase \notin Outcomes
<1>1. flow \in FlowRow
  BY Zenon DEF WorkerInv
<1>2. /\ flow' \in FlowRow /\ flow'.run = flow.run /\ flow'.state = s /\ flow'.lease = n /\ flow'.live = l
  BY <1>1, Zenon DEF FlowRow
<1>3. RunFits(flow.run)'
  BY <1>2, Zenon DEF WorkerInv, RunFits
<1>4. QED BY <1>2, <1>3, Zenon DEF WorkerInv

\* Claiming the request gives a fresh lease to a fresh job.
LEMMA ClaimKeepsFlow == WorkerInv /\ ClaimFlow => WorkerInv'
<1> SUFFICES ASSUME WorkerInv, ClaimFlow PROVE WorkerInv' OBVIOUS
<1>1. flow \in FlowRow /\ flow.lease \in Nat /\ MaxLeases \in Nat
  BY WorkerAssumption, Zenon DEF WorkerInv, FlowRow
<1>2. PICK n \in Jobs : n = flow.lease + 1
  BY <1>1 DEF ClaimFlow, Jobs
<1>3. flow' = [flow EXCEPT !.state = "leased", !.lease = n, !.live = TRUE] /\ flow.state = "queued"
  BY <1>2, Zenon DEF ClaimFlow
<1>4. /\ flow' \in FlowRow /\ flow'.run = flow.run /\ flow'.state = "leased" /\ flow'.lease = n
      /\ RunFits(flow.run)'
  <2>1. n \in Nat /\ "leased" \in {"queued", "leased", "cancelling"} \cup Settled
    BY <1>1, <1>2
  <2>2. QED BY <1>3, <2>1, RowMoves, Zenon
<1>5. PICK x : x = [NoJob EXCEPT !.pc = "load"]
  BY Zenon
<1>6. x \in JobRecord /\ RunAtPc(x) /\ x.pc = "load" /\ x.dirty = FALSE
  BY <1>5, NoJobFits, Zenon
<1>7. /\ job' \in [Jobs -> JobRecord] /\ job'[n] = x /\ \A v \in Jobs : v # n => job'[v] = job[v]
      /\ UNCHANGED <<granted, tree>>
  BY <1>2, <1>5, <1>6, Zenon DEF ClaimFlow, WorkerInv
<1>8. \A v \in Jobs : JobFits(v, job[v])'
  <2> TAKE v \in Jobs
  <2>1. PICK z : z = job'[v]
    BY Zenon
  <2>2. JobFits(v, z)'
    <3>1. CASE v = n
      <4>1. z = x
        BY <1>7, <2>1, <3>1, Zenon
      <4>2. "load" \notin Ended
        BY Zenon DEF Ended
      <4>3. QED BY <1>6, <4>1, <4>2, Zenon DEF JobFits, LeaseFits, EffectFits, RunAtPc
    <3>2. CASE v # n
      <4>1. JobFits(v, z) /\ z = job[v]
        BY <1>7, <2>1, <3>2, Zenon DEF WorkerInv
      <4>2. ~HasLease(v)'
        BY <1>4, <3>2, Zenon DEF HasLease
      <4>3. QED BY <1>7, <4>1, <4>2, Unleased, Zenon DEF JobFits
    <3>3. QED BY <3>1, <3>2, Zenon
  <2>3. QED BY <2>1, <2>2, ZenonT(40) DEF JobFits, LeaseFits, EffectFits, RunAtPc
<1>9. flow'.state # "cancelling" /\ flow'.state # "queued"
  BY <1>4, Zenon
<1>10. granted' \in BOOLEAN /\ tree' \in {"accepted", "changed"}
  BY <1>7, Zenon DEF WorkerInv
<1>11. QED BY <1>4, <1>7, <1>8, <1>9, <1>10, Zenon DEF WorkerInv

\* A recovered request is queued again only when its run has not ended.
LEMMA RecoveredFits ==
    ASSUME WorkerInv, flow.state \in {"leased", "cancelling"}
    PROVE  /\ RecoveredState \in {"queued"} \cup Settled
           /\ RecoveredState = "queued" => flow.run.phase \notin Outcomes
BY Zenon DEF RecoveredState, SettledAs, Settled

\* Giving up the lease keeps the invariant.
LEMMA ReleaseKeepsFlow ==
    ASSUME WorkerInv, NEW s \in {"queued", "leased", "cancelling"} \cup Settled,
           flow' = [flow EXCEPT !.state = s, !.live = FALSE],
           s \in {"queued", "cancelling"} => s = flow.state \/ flow.run.phase \notin Outcomes,
           NEW w \in Jobs, NEW x \in JobRecord, RunAtPc(x), EffectFits(w, x),
           job' = [job EXCEPT ![w] = x], UNCHANGED <<granted, tree>>
    PROVE  WorkerInv'
<1>1. PICK n \in Nat : n = flow.lease
  BY Zenon DEF WorkerInv, FlowRow
<1>2. flow' = [flow EXCEPT !.state = s, !.lease = n, !.live = FALSE]
  BY <1>1, Zenon DEF WorkerInv, FlowRow
<1>3. /\ flow' \in FlowRow /\ flow'.live = FALSE /\ RunFits(flow.run)'
      /\ flow'.state = "cancelling" /\ flow'.run.phase \in Outcomes => flow'.run.phase = "cancelled"
      /\ flow'.state = "queued" => flow'.run.phase \notin Outcomes
  BY <1>2, RowMoves, ZenonT(40)
<1>4. job' \in [Jobs -> JobRecord] /\ job'[w] = x /\ \A v \in Jobs : v # w => job'[v] = job[v]
  BY Zenon DEF WorkerInv
<1>5. \A v \in Jobs : JobFits(v, job[v])'
  <2> TAKE v \in Jobs
  <2>1. PICK z : z = job'[v]
    BY Zenon
  <2>2. z \in JobRecord /\ RunAtPc(z) /\ EffectFits(v, z)
    BY <1>4, <2>1, Zenon DEF WorkerInv, JobFits
  <2>3. ~HasLease(v)'
    BY <1>3, Zenon DEF HasLease
  <2>4. JobFits(v, z)'
    BY <2>2, <2>3, Unleased, Zenon
  <2>5. QED BY <2>1, <2>4 DEF JobFits, LeaseFits, EffectFits, RunAtPc
<1>6. granted' \in BOOLEAN /\ tree' \in {"accepted", "changed"}
  BY Zenon DEF WorkerInv
<1>7. QED BY <1>3, <1>4, <1>5, <1>6, Zenon DEF WorkerInv

\* An expiry, the recovery and a restart of the daemon keep the invariant.
LEMMA RecoveryKeepsFlow ==
    ASSUME WorkerInv, LeaseExpires \/ RecoverFlow \/ DaemonRestarts
    PROVE  WorkerInv'
<1>1. flow.state \in {"leased", "cancelling"} /\ UNCHANGED <<granted, tree>>
      /\ flow \in FlowRow /\ granted' \in BOOLEAN /\ tree' \in {"accepted", "changed"}
  BY Zenon DEF LeaseExpires, RecoverFlow, DaemonRestarts, WorkerInv
<1>2. PICK n \in Nat : n = flow.lease
  BY Zenon DEF WorkerInv, FlowRow
<1>3. PICK s \in {"queued", "leased", "cancelling"} \cup Settled :
         /\ flow' = [flow EXCEPT !.state = s, !.lease = n, !.live = FALSE]
         /\ s \in {"queued", "cancelling"} => s = flow.state \/ flow.run.phase \notin Outcomes
  <2>1. CASE LeaseExpires
    <3>1. flow' = [flow EXCEPT !.state = flow.state, !.lease = n, !.live = FALSE]
      BY <1>1, <1>2, <2>1, Zenon DEF LeaseExpires, FlowRow
    <3>2. QED BY <1>1, <3>1, Zenon
  <2>2. CASE RecoverFlow \/ DaemonRestarts
    <3>1. flow' = [flow EXCEPT !.state = RecoveredState, !.lease = n, !.live = FALSE]
      BY <1>1, <1>2, <2>2, ZenonT(40) DEF RecoverFlow, DaemonRestarts, FlowRow
    <3>2. /\ RecoveredState \in {"queued"} \cup Settled
          /\ RecoveredState = "queued" => flow.run.phase \notin Outcomes
      BY <1>1, RecoveredFits, Zenon
    <3>3. QED BY <3>1, <3>2, Zenon DEF Settled
  <2>3. QED BY <2>1, <2>2, Zenon
<1>4. /\ flow' \in FlowRow /\ flow'.live = FALSE /\ RunFits(flow.run)'
      /\ flow'.state = "cancelling" /\ flow'.run.phase \in Outcomes => flow'.run.phase = "cancelled"
      /\ flow'.state = "queued" => flow'.run.phase \notin Outcomes
  BY <1>3, RowMoves, Zenon
<1>5. ASSUME NEW v \in Jobs
      PROVE  job'[v] \in JobRecord /\ RunAtPc(job'[v]) /\ EffectFits(v, job'[v])
  <2>1. CASE job' = job
    BY <2>1, Zenon DEF WorkerInv, JobFits
  <2>2. CASE DaemonRestarts
    <3>1. job'[v] = [NoJob EXCEPT !.pc = "dead"] \/ job'[v] = NoJob
      BY <2>2, Zenon DEF DaemonRestarts
    <3>2. PICK z : z = job'[v]
      BY Zenon
    <3>3. z \in JobRecord /\ RunAtPc(z) /\ z.pc \in {"none", "dead"} /\ z.dirty = FALSE
      BY <3>1, <3>2, NoJobFits, IdleJobFits, Zenon
    <3>4. EffectFits(v, z)
      BY <3>3, Zenon DEF EffectFits
    <3>5. QED BY <3>2, <3>3, <3>4, Zenon
  <2>3. QED BY <2>1, <2>2, Zenon DEF LeaseExpires, RecoverFlow
<1>6. job' \in [Jobs -> JobRecord]
  <2>1. job' = [v \in Jobs |-> job'[v]]
    BY Zenon DEF LeaseExpires, RecoverFlow, DaemonRestarts, WorkerInv
  <2>2. QED BY <1>5, <2>1, Zenon
<1>7. \A v \in Jobs : JobFits(v, job[v])'
  <2> TAKE v \in Jobs
  <2>1. PICK z : z = job'[v]
    OBVIOUS
  <2>2. z \in JobRecord /\ RunAtPc(z) /\ EffectFits(v, z)
    BY <1>5, <2>1, Zenon
  <2>3. ~HasLease(v)'
    BY <1>4, Zenon DEF HasLease
  <2>4. JobFits(v, z)'
    BY <1>1, <2>2, <2>3, Unleased, Zenon
  <2>5. QED BY <2>1, <2>4, ZenonT(40) DEF JobFits, LeaseFits, EffectFits, RunAtPc
<1>8. QED BY <1>1, <1>4, <1>6, <1>7, Zenon DEF WorkerInv

\* A withdrawn permission changes nothing else of a job.
LEMMA WithdrawnFits ==
    ASSUME WorkerInv, NEW v \in Jobs
    PROVE  /\ Withdrawn[v] \in JobRecord
           /\ Withdrawn[v].pc = job[v].pc /\ Withdrawn[v].run = job[v].run
           /\ Withdrawn[v].dirty = job[v].dirty /\ Withdrawn[v].outcome = job[v].outcome
           /\ Withdrawn[v].prepared = job[v].prepared
           /\ Withdrawn[v].held = job[v].held \/ job[v].pc \in {"pin", "boundary"}
<1>1. job[v] \in JobRecord
  BY Zenon DEF WorkerInv
<1>2. CASE job[v].pc \in {"pin", "boundary"}
  <2>1. Withdrawn[v] = [job[v] EXCEPT !.held = FALSE]
    BY <1>2, Zenon DEF Withdrawn
  <2>2. QED BY <1>1, <1>2, <2>1, Zenon DEF JobRecord
<1>3. CASE job[v].pc \notin {"pin", "boundary"}
  BY <1>1, <1>3, Zenon DEF Withdrawn
<1>4. QED BY <1>2, <1>3, Zenon

\* Withdrawing a permission keeps the invariant.
LEMMA WithdrawKeepsFlow ==
    ASSUME WorkerInv, job' = Withdrawn, tree' = tree, granted' \in BOOLEAN,
           flow' \in FlowRow, flow'.run = flow.run, RunFits(flow.run)',
           flow'.state = "cancelling" /\ flow'.run.phase \in Outcomes => flow'.run.phase = "cancelled",
           flow'.state = "queued" => flow'.run.phase \notin Outcomes,
           \A v \in Jobs : HasLease(v)' => HasLease(v),
           RequestIsCancelled => flow'.state # "leased" /\ (flow'.state \in {"cancelling"} \cup Settled),
           \A v \in Jobs : HasLease(v)' /\ RequestIsCancelled => RequestIsCancelled',
           ~granted' \/ flow'.state # "leased"
    PROVE  WorkerInv'
<1>1. job' \in [Jobs -> JobRecord]
  <2>1. job' = [v \in Jobs |-> Withdrawn[v]]
    BY Zenon DEF Withdrawn
  <2>2. QED BY <2>1, WithdrawnFits, Zenon
<1>2. \A v \in Jobs : JobFits(v, job[v])'
  <2> TAKE v \in Jobs
  <2>1. PICK y, z : y = job[v] /\ z = job'[v]
    BY Zenon
  <2>2. /\ z \in JobRecord /\ z.pc = y.pc /\ z.run = y.run /\ z.dirty = y.dirty /\ z.outcome = y.outcome
        /\ z.prepared = y.prepared /\ (z.held = y.held \/ y.pc \in {"pin", "boundary"})
    BY <2>1, WithdrawnFits, Zenon
  <2>3. JobFits(v, y)
    BY <2>1, Zenon DEF WorkerInv
  <2>4. RunAtPc(z)
    BY <2>2, <2>3, Zenon DEF JobFits, RunAtPc
  <2>5. LeaseFits(v, z)'
    BY <2>2, <2>3, Zenon DEF JobFits, LeaseFits
  <2>6. EffectFits(v, z)'
    BY <2>2, <2>3, Zenon DEF JobFits, EffectFits
  <2>7. QED BY <2>1, <2>2, <2>4, <2>5, <2>6, SMTT(60) DEF JobFits, LeaseFits, EffectFits, RunAtPc
<1>3. tree' \in {"accepted", "changed"}
  BY Zenon DEF WorkerInv
<1>4. QED BY <1>1, <1>2, <1>3, Zenon DEF WorkerInv

\* A cancellation that comes at any await keeps the invariant.
LEMMA CancelKeepsFlow == WorkerInv /\ CancelFlow => WorkerInv'
<1> SUFFICES ASSUME WorkerInv, CancelFlow PROVE WorkerInv' OBVIOUS
<1>1. /\ flow.state \in {"queued", "leased"} /\ job' = Withdrawn /\ tree' = tree /\ granted' = granted
      /\ flow \in FlowRow /\ granted' \in BOOLEAN
  BY DEF CancelFlow, WorkerInv
<1>2. PICK n \in Nat, l \in BOOLEAN : n = flow.lease /\ l = flow.live
  BY <1>1, Zenon DEF FlowRow
<1>3. PICK s \in {"cancelling"} \cup Settled :
         /\ flow' = [flow EXCEPT !.state = s, !.lease = n, !.live = l]
         /\ s = "cancelling" => flow.state = "leased" /\ flow.run.phase \notin Outcomes
  <2>1. PICK s : /\ flow' = [flow EXCEPT !.state = s]
                 /\ s = IF flow.state = "queued" THEN "cancelled"
                        ELSE IF flow.run.phase \in Outcomes THEN SettledAs(flow.run) ELSE "cancelling"
    BY Zenon DEF CancelFlow
  <2>2. s \in {"cancelling"} \cup Settled /\ (s = "cancelling" => flow.state = "leased" /\ flow.run.phase \notin Outcomes)
    BY <1>1, <2>1, Zenon DEF Settled, SettledAs
  <2>3. flow' = [flow EXCEPT !.state = s, !.lease = n, !.live = l]
    BY <1>1, <1>2, <2>1, Zenon DEF FlowRow
  <2>4. QED BY <2>2, <2>3, Zenon
<1>4. s \in {"queued", "leased", "cancelling"} \cup Settled /\ s # "queued" /\ s # "leased"
  BY Zenon DEF Settled
<1>5. /\ flow' \in FlowRow /\ flow'.run = flow.run /\ flow'.state = s /\ flow'.lease = n /\ flow'.live = l
      /\ RunFits(flow.run)'
      /\ flow'.state = "cancelling" /\ flow'.run.phase \in Outcomes => flow'.run.phase = "cancelled"
      /\ flow'.state = "queued" => flow'.run.phase \notin Outcomes
  BY <1>3, <1>4, RowMoves, Zenon
<1>6. \A v \in Jobs : HasLease(v)' => HasLease(v)
  <2>1. s \in Settled => s \notin {"leased", "cancelling"}
    BY Zenon DEF Settled
  <2>2. QED BY <1>2, <1>3, <1>5, <2>1, Zenon DEF HasLease
<1>7. ~RequestIsCancelled /\ flow'.state # "leased"
  BY <1>1, <1>4, <1>5, Zenon DEF RequestIsCancelled
<1>8. QED BY <1>1, <1>5, <1>6, <1>7, WithdrawKeepsFlow, Zenon

\* So does a revocation.
LEMMA RevokeKeepsFlow == WorkerInv /\ RevokeGrant => WorkerInv'
<1> SUFFICES ASSUME WorkerInv, RevokeGrant PROVE WorkerInv' OBVIOUS
<1>1. flow' = flow /\ job' = Withdrawn /\ tree' = tree /\ granted' = FALSE
  BY Zenon DEF RevokeGrant
<1>2. /\ flow' \in FlowRow /\ flow'.run = flow.run /\ RunFits(flow.run)'
      /\ flow'.state = "cancelling" /\ flow'.run.phase \in Outcomes => flow'.run.phase = "cancelled"
      /\ flow'.state = "queued" => flow'.run.phase \notin Outcomes
  BY <1>1, Zenon DEF WorkerInv, RunFits
<1>3. \A v \in Jobs : HasLease(v)' => HasLease(v)
  BY <1>1, Zenon DEF HasLease
<1>4. /\ RequestIsCancelled => RequestIsCancelled'
      /\ RequestIsCancelled => flow'.state # "leased" /\ flow'.state \in {"cancelling"} \cup Settled
  BY <1>1, Zenon DEF RequestIsCancelled
<1>5. granted' \in BOOLEAN /\ ~granted'
  BY <1>1, Zenon
<1>6. QED BY <1>1, <1>2, <1>3, <1>4, <1>5, WithdrawKeepsFlow, Zenon

\* So does an edit of the working tree.
LEMMA EditKeepsFlow == WorkerInv /\ EditTree => WorkerInv'
<1> SUFFICES ASSUME WorkerInv, EditTree PROVE WorkerInv' OBVIOUS
<1>1. flow' = flow /\ granted' = granted /\ tree' = "changed"
  BY Zenon DEF EditTree
<1>2. ASSUME NEW v \in Jobs
      PROVE  /\ job'[v] \in JobRecord /\ job'[v].pc = job[v].pc /\ job'[v].run = job[v].run
             /\ job'[v].held = job[v].held /\ job'[v].outcome = job[v].outcome
             /\ job'[v].prepared = job[v].prepared
             /\ job'[v].dirty = job[v].dirty \/ job[v].pc = "running"
  <2>1. job[v] \in JobRecord
    BY Zenon DEF WorkerInv
  <2>2. CASE job[v].pc = "running"
    <3>1. job'[v] = [job[v] EXCEPT !.dirty = TRUE]
      BY <2>2, Zenon DEF EditTree
    <3>2. QED BY <2>1, <2>2, <3>1, Zenon DEF JobRecord
  <2>3. CASE job[v].pc # "running"
    BY <2>1, <2>3, Zenon DEF EditTree
  <2>4. QED BY <2>2, <2>3, Zenon
<1>3. job' \in [Jobs -> JobRecord]
  <2>1. job' = [v \in Jobs |-> job'[v]]
    BY Zenon DEF EditTree
  <2>2. QED BY <1>2, <2>1, Zenon
<1>4. \A v \in Jobs : JobFits(v, job[v])'
  <2> TAKE v \in Jobs
  <2>1. PICK y, z : y = job[v] /\ z = job'[v]
    BY Zenon
  <2>2. /\ z \in JobRecord /\ z.pc = y.pc /\ z.run = y.run /\ z.held = y.held /\ z.outcome = y.outcome
        /\ z.prepared = y.prepared /\ (z.dirty = y.dirty \/ y.pc = "running")
    BY <1>2, <2>1, Zenon
  <2>3. JobFits(v, y)
    BY <2>1, Zenon DEF WorkerInv
  <2>4. RunAtPc(z)
    BY <2>2, <2>3, Zenon DEF JobFits, RunAtPc
  <2>5. LeaseFits(v, z)'
    BY <1>1, <2>2, <2>3, Zenon DEF JobFits, LeaseFits, HasLease, RequestIsCancelled
  <2>6. EffectFits(v, z)'
    BY <1>1, <2>2, <2>3, Zenon DEF JobFits, EffectFits, HasLease
  <2>7. QED BY <2>1, <2>2, <2>4, <2>5, <2>6, SMTT(60) DEF JobFits, LeaseFits, EffectFits, RunAtPc
<1>5. granted' \in BOOLEAN /\ tree' \in {"accepted", "changed"}
  BY <1>1, Zenon DEF WorkerInv
<1>6. QED BY <1>1, <1>3, <1>4, <1>5, Zenon DEF WorkerInv, RunFits

\* Loading the checkpoint gives the job what the row holds.
LEMMA LoadKeepsFlow ==
    ASSUME WorkerInv, NEW w \in Jobs, LoadFlowCheckpoint(w)
    PROVE  WorkerInv'
<1>1. job[w].pc = "load" /\ JobFits(w, job[w]) /\ job[w] \in JobRecord /\ UNCHANGED <<flow, granted, tree>>
  BY Zenon DEF LoadFlowCheckpoint, WorkerInv
<1>2. CASE ~HasLease(w)
  <2>1. job' = [job EXCEPT ![w].run = job[w].run, ![w].pc = "stale"]
    BY <1>2, Zenon DEF LoadFlowCheckpoint
  <2>2. PICK x : x = [job[w] EXCEPT !.run = job[w].run, !.pc = "stale"]
    BY Zenon
  <2>3. job' = [job EXCEPT ![w] = x]
    BY <2>1, <2>2, Zenon
  <2>4. "stale" \in JobPcs
    BY Zenon DEF JobPcs, Ended
  <2>5. x \in JobRecord /\ x.pc = "stale" /\ SameWork(x, job[w])
    BY <1>1, <2>2, <2>4, Zenon DEF JobRecord, SameWork
  <2>6. JobFits(w, x)
    BY <1>1, <1>2, <2>5, Zenon DEF SameWork, JobFits, RunAtPc, LeaseFits, EffectFits
  <2>7. QED BY <1>1, <2>3, <2>6, JobMoves, Zenon
<1>3. CASE HasLease(w)
  <2>1. PICK pc \in {"finish", "validate"} :
           /\ job' = [job EXCEPT ![w].run = flow.run, ![w].pc = pc]
           /\ pc = "finish" <=> flow.run.phase \in Outcomes
    BY <1>3, Zenon DEF LoadFlowCheckpoint
  <2>2. PICK r : r = flow.run
    BY Zenon
  <2>3. PICK x : x = [job[w] EXCEPT !.run = r, !.pc = pc]
    BY Zenon
  <2>4. job' = [job EXCEPT ![w] = x]
    BY <2>1, <2>2, <2>3, Zenon
  <2>5. pc \in JobPcs /\ pc \notin Ended /\ r \in Runs /\ RunFits(r)
    BY <2>2, Zenon DEF JobPcs, Ended, WorkerInv, FlowRow
  <2>6. /\ x \in JobRecord /\ x.pc = pc /\ x.run = r /\ x.dirty = job[w].dirty
    BY <1>1, <2>3, <2>5, Zenon DEF JobRecord
  <2>7. RunAtPc(x) /\ LeaseFits(w, x)
    BY <2>1, <2>2, <2>5, <2>6, Zenon DEF RunAtPc, LeaseFits
  <2>8. EffectFits(w, x)
    BY <1>1, <2>6, Zenon DEF JobFits, EffectFits
  <2>9. QED BY <1>1, <2>4, <2>6, <2>7, <2>8, JobMoves, Zenon DEF JobFits
<1>4. QED BY <1>2, <1>3, Zenon

\* Going on with a run keeps the invariant.
LEMMA LiveMoves ==
    ASSUME WorkerInv, NEW w \in Jobs, NEW pc \in JobPcs \ (Ended \cup {"load", "cancel", "reconcile"}),
           JobOnly(w, pc), job[w].pc \notin Ended \cup {"load"},
           \A x : x.pc = pc /\ SameWork(x, job[w]) => RunAtPc(x) /\ EffectFits(w, x)
    PROVE  WorkerInv'
<1>1. JobFits(w, job[w])
  BY Zenon DEF WorkerInv
<1>2. ASSUME NEW x \in JobRecord, x.pc = pc, SameWork(x, job[w])
      PROVE  RunAtPc(x) /\ LeaseFits(w, x) /\ EffectFits(w, x)
  <2>1. LeaseFits(w, x)
    BY <1>1, <1>2, Zenon DEF SameWork, JobFits, LeaseFits
  <2>2. QED BY <1>2, <2>1, Zenon
<1>3. QED BY <1>2, PcMoves, Zenon

\* Validating the loaded checkpoint keeps the invariant.
LEMMA ValidateKeepsFlow ==
    ASSUME WorkerInv, NEW w \in Jobs, ValidateFlow(w)
    PROVE  WorkerInv'
<1>1. job[w].pc = "validate" /\ JobFits(w, job[w]) /\ job[w].pc \notin Ended \cup {"load"}
  BY Zenon DEF ValidateFlow, WorkerInv, Ended
<1>2. CASE JobOnly(w, "stale") /\ ~HasLease(w)
  BY <1>2, StaleMoves, Zenon
<1>3. ASSUME NEW pc \in {"refuse", "create", "loop"}, JobOnly(w, pc),
             pc = "create" => job[w].run = NoRun, pc = "loop" => job[w].run # NoRun
      PROVE  WorkerInv'
  <2>1. pc \in JobPcs \ (Ended \cup {"load", "cancel", "reconcile"})
    BY Zenon DEF JobPcs, Ended
  <2>2. RunFits(job[w].run) /\ job[w].run.phase \notin Outcomes
    BY <1>1, Zenon DEF JobFits, RunAtPc
  <2>3. pc = "loop" => job[w].run.phase \in Active
    BY <1>3, <2>2, Zenon DEF RunFits, Runs
  <2>4. \A x : x.pc = pc /\ SameWork(x, job[w]) => RunAtPc(x) /\ EffectFits(w, x)
    BY <1>1, <1>3, <2>2, <2>3, NoRunFits, Zenon DEF SameWork, JobFits, RunAtPc, EffectFits
  <2>5. QED BY <1>1, <1>3, <2>1, <2>4, LiveMoves, Zenon
<1>4. QED BY <1>2, <1>3, Zenon DEF ValidateFlow

\* The head of the driver's loop keeps the invariant.
LEMMA LoopKeepsFlow ==
    ASSUME WorkerInv, NEW w \in Jobs, LoopHead(w)
    PROVE  WorkerInv'
<1>1. job[w].pc = "loop" /\ JobFits(w, job[w]) /\ job[w].pc \notin Ended \cup {"load"}
  BY Zenon DEF LoopHead, WorkerInv, Ended
<1>2. CASE RequestIsCancelled
  BY <1>1, <1>2, CancelMoves, Zenon DEF LoopHead
<1>3. CASE ~RequestIsCancelled
  <2>1. JobOnly(w, "decide") /\ "decide" \in JobPcs \ (Ended \cup {"load", "cancel", "reconcile"})
    BY <1>3, Zenon DEF LoopHead, JobPcs, Ended
  <2>2. \A x : x.pc = "decide" /\ SameWork(x, job[w]) => RunAtPc(x) /\ EffectFits(w, x)
    BY <1>1, Zenon DEF SameWork, JobFits, RunAtPc, EffectFits
  <2>3. QED BY <1>1, <2>1, <2>2, LiveMoves, Zenon
<1>4. QED BY <1>2, <1>3, Zenon

\* A save that was refused is reconciled.
LEMMA ReconcileKeepsFlow ==
    ASSUME WorkerInv, NEW w \in Jobs, Reconcile(w)
    PROVE  WorkerInv'
<1>1. job[w].pc = "reconcile" /\ JobFits(w, job[w]) /\ job[w].pc \notin Ended \cup {"load"}
  BY Zenon DEF Reconcile, WorkerInv, Ended
<1>2. CASE RequestIsCancelled
  BY <1>1, <1>2, CancelMoves, Zenon DEF Reconcile
<1>3. CASE ~RequestIsCancelled
  <2>1. JobOnly(w, "error") /\ "error" \in JobPcs
    BY <1>3, Zenon DEF Reconcile, JobPcs, Ended
  <2>2. ~HasLease(w)
    BY <1>1, <1>3, Zenon DEF JobFits, LeaseFits
  <2>3. ASSUME NEW x \in JobRecord, x.pc = "error", SameWork(x, job[w])
        PROVE  RunAtPc(x) /\ LeaseFits(w, x) /\ EffectFits(w, x)
    BY <1>1, <2>2, <2>3, Zenon DEF SameWork, JobFits, RunAtPc, LeaseFits, EffectFits
  <2>4. QED BY <2>1, <2>3, PcMoves, Zenon
<1>4. QED BY <1>2, <1>3

\* An effect's boundary lets a job on only with the lease, the grant and no
\* cancellation.
LEMMA BoundaryMoves ==
    ASSUME WorkerInv, NEW w \in Jobs, NEW allowed, JobOnly(w, BoundaryPc(w, allowed)),
           job[w].pc \notin Ended \cup {"load"}, job[w].run.phase \in {"awaiting", "inflight"},
           HasLease(w) /\ flow.state = "leased" /\ granted /\ JobOnly(w, allowed) => WorkerInv'
    PROVE  WorkerInv'
<1>1. JobFits(w, job[w])
  BY Zenon DEF WorkerInv
<1>2. CASE HasLease(w) /\ flow.state = "leased" /\ granted
  BY <1>2, Zenon DEF BoundaryPc
<1>3. CASE HasLease(w) /\ flow.state = "leased" /\ ~granted
  <2>1. JobOnly(w, "deny") /\ "deny" \in JobPcs \ (Ended \cup {"load", "cancel", "reconcile"})
    BY <1>3, Zenon DEF BoundaryPc, JobPcs, Ended
  <2>2. job[w].run.phase \in Active
    BY Zenon DEF Active
  <2>3. \A x : x.pc = "deny" /\ SameWork(x, job[w]) => RunAtPc(x) /\ EffectFits(w, x)
    BY <1>1, <2>2, Zenon DEF SameWork, JobFits, RunAtPc, EffectFits
  <2>4. QED BY <2>1, <2>3, LiveMoves, Zenon
<1>4. CASE RequestIsCancelled
  <2>1. JobOnly(w, "cancel")
    BY <1>4, Zenon DEF BoundaryPc, RequestIsCancelled
  <2>2. QED BY <1>4, <2>1, CancelMoves, Zenon
<1>5. CASE ~(HasLease(w) /\ flow.state = "leased") /\ ~RequestIsCancelled
  <2>1. JobOnly(w, "stale") /\ ~HasLease(w)
    BY <1>5, Zenon DEF BoundaryPc, RequestIsCancelled, HasLease
  <2>2. QED BY <2>1, StaleMoves, Zenon
<1>6. QED BY <1>2, <1>3, <1>4, <1>5, Zenon

\* Both boundaries keep the invariant.
LEMMA BoundariesKeepFlow ==
    ASSUME WorkerInv, NEW w \in Jobs, EvaluateEffect(w) \/ SecondBoundary(w)
    PROVE  WorkerInv'
<1>1. /\ JobFits(w, job[w]) /\ job[w].pc \in {"evaluate", "boundary"} /\ job[w].pc \notin Ended \cup {"load"}
  BY Zenon DEF EvaluateEffect, SecondBoundary, WorkerInv, Ended
<1>2. job[w].run.phase \in {"awaiting", "inflight"} /\ job[w].run.phase \in Active
  BY <1>1, Zenon DEF JobFits, RunAtPc
<1>3. PICK pc \in {"start", "running"} :
         /\ JobOnly(w, BoundaryPc(w, pc))
         /\ pc = "start" => job[w].pc = "evaluate"
         /\ pc = "running" => job[w].pc = "boundary"
  BY Zenon DEF EvaluateEffect, SecondBoundary
<1>4. ASSUME HasLease(w), flow.state = "leased", granted, JobOnly(w, pc)
      PROVE  WorkerInv'
  <2>1. pc \in JobPcs \ (Ended \cup {"load", "cancel", "reconcile"})
    BY Zenon DEF JobPcs, Ended
  <2>2. pc = "running" => job[w].held /\ job[w].run.phase = "inflight"
    BY <1>1, <1>3, <1>4, Zenon DEF JobFits, EffectFits, RunAtPc
  <2>3. \A x : x.pc = pc /\ SameWork(x, job[w]) => RunAtPc(x) /\ EffectFits(w, x)
    BY <1>1, <1>2, <1>3, <2>2, Zenon DEF SameWork, JobFits, RunAtPc, EffectFits
  <2>4. QED BY <1>1, <1>4, <2>1, <2>3, LiveMoves, Zenon
<1>5. QED BY <1>1, <1>2, <1>3, <1>4, BoundaryMoves, Zenon

\* Creating the checkpoint keeps the invariant.
LEMMA CreateKeepsFlow ==
    ASSUME WorkerInv, NEW w \in Jobs, CreateCheckpoint(w)
    PROVE  WorkerInv'
<1>1. job[w].pc = "create" /\ JobFits(w, job[w]) /\ job[w].pc \notin Ended \cup {"load"}
  BY Zenon DEF CreateCheckpoint, WorkerInv, Ended
<1>2. PICK r : r = FirstRun
  BY Zenon
<1>3. RunFits(r) /\ r \in Runs /\ r.phase = "ready" /\ r.phase \in Active
  <2>1. "ready" \in Active /\ Len(Plan) \in Nat /\ Active \subseteq {"none"} \cup Active \cup Outcomes
    BY WorkerAssumption DEF Active
  <2>2. r \in Runs /\ r.phase = "ready" /\ r.step = 1
    BY <1>2, <2>1, Zenon DEF FirstRun, Runs
  <2>3. QED BY <2>1, <2>2 DEF RunFits
<1>4. PICK kept, y : kept = [job[w] EXCEPT !.run = r] /\ y = [kept EXCEPT !.pc = "loop"]
  BY Zenon
<1>5. "loop" \in JobPcs \ (Ended \cup {"cancel", "reconcile"})
  BY Zenon DEF JobPcs, Ended
<1>6. /\ y \in JobRecord /\ y.pc = "loop" /\ y.run = r /\ kept.run = r /\ y.dirty = job[w].dirty
  BY <1>1, <1>3, <1>4, <1>5, Zenon DEF JobFits, JobRecord
<1>7. RunAtPc(y)
  BY <1>3, <1>6, Zenon DEF RunAtPc
<1>8. EffectFits(w, y)
  BY <1>1, <1>6, Zenon DEF JobFits, EffectFits
<1>9. ~SaveConflicts(kept.run)
  BY <1>3, <1>6, Zenon DEF SaveConflicts, Outcomes
<1>10. PersistAs(w, kept, "loop", "error")
  BY <1>2, <1>4, Zenon DEF CreateCheckpoint, PersistUpdate
<1>11. y.run = kept.run
  BY <1>6, Zenon
<1>12. QED BY <1>1, <1>4, <1>5, <1>6, <1>7, <1>8, <1>9, <1>10, <1>11, PersistMoves, Zenon

\* A run that is blocked, cancelled or put in flight.
LEMMA PhaseMoves ==
    ASSUME NEW r, RunFits(r), NEW p \in {"blocked", "cancelled", "inflight"},
           p = "inflight" => r.phase \in {"awaiting", "inflight"}
    PROVE  RunFits([r EXCEPT !.phase = p]) /\ [r EXCEPT !.phase = p].phase = p
<1>1. PICK q : q = [r EXCEPT !.phase = p]
  BY Zenon
<1>2. r \in Runs /\ p \in {"none"} \cup Active \cup Outcomes /\ p # "none"
  BY Zenon DEF RunFits, Active, Outcomes
<1>3. q \in Runs /\ q.phase = p /\ q.step = r.step
  BY <1>1, <1>2 DEF Runs
<1>4. p \in Active \cup {"retry", "awaiting", "inflight"} => p = "inflight"
  BY Zenon DEF Active
<1>5. RunFits(q)
  BY <1>2, <1>3, <1>4, Zenon DEF RunFits, Active
<1>6. QED BY <1>1, <1>3, <1>5

\* Saving that a run is blocked or cancelled keeps the invariant.
LEMMA PhaseSaves ==
    ASSUME WorkerInv, NEW w \in Jobs, job[w].pc \notin Ended \cup {"load"},
           NEW p \in {"blocked", "cancelled"}, NEW conflict,
           PersistAs(w, [job[w] EXCEPT !.run.phase = p], "finish", conflict),
           p = "blocked" => conflict = "reconcile",
           p = "cancelled" /\ HasLease(w) => RequestIsCancelled
    PROVE  WorkerInv'
<1>1. JobFits(w, job[w]) /\ job[w] \in JobRecord /\ RunFits(job[w].run)
  BY Zenon DEF WorkerInv, JobFits, RunAtPc
<1>2. PICK r : r = [job[w].run EXCEPT !.phase = p]
  BY Zenon
<1>3. RunFits(r) /\ r.phase = p /\ r \in Runs
  BY <1>1, <1>2, PhaseMoves, ZenonT(40) DEF RunFits
<1>4. PICK kept, y : kept = [job[w] EXCEPT !.run = r] /\ y = [kept EXCEPT !.pc = "finish"]
  BY Zenon
<1>5. "finish" \in JobPcs \ (Ended \cup {"cancel", "reconcile"}) /\ p \in Outcomes
  BY Zenon DEF JobPcs, Ended, Outcomes
<1>6. y \in JobRecord /\ y.pc = "finish" /\ y.run = r /\ kept.run = r /\ y.dirty = job[w].dirty
  BY <1>1, <1>3, <1>4, <1>5, Zenon DEF JobRecord
<1>7. RunAtPc(y)
  BY <1>3, <1>5, <1>6, Zenon DEF RunAtPc
<1>8. EffectFits(w, y)
  BY <1>1, <1>6, Zenon DEF JobFits, EffectFits
<1>9. HasLease(w) /\ SaveConflicts(kept.run) => conflict = "reconcile" /\ RequestIsCancelled
  BY <1>3, <1>6, Zenon DEF SaveConflicts, Outcomes
<1>10. PersistAs(w, kept, "finish", conflict)
  BY <1>1, <1>2, <1>4, Zenon DEF JobRecord
<1>11. y.run = kept.run
  BY <1>6, Zenon
<1>12. QED BY <1>4, <1>5, <1>6, <1>7, <1>8, <1>9, <1>10, <1>11, PersistMoves, Zenon

\* Cancelling a run and denying an effect keep the invariant.
LEMMA PhaseSavesKeepFlow ==
    ASSUME WorkerInv, NEW w \in Jobs, CancelRun(w) \/ DenyEffect(w)
    PROVE  WorkerInv'
<1>1. JobFits(w, job[w]) /\ job[w].pc \in {"cancel", "deny"} /\ job[w].pc \notin Ended \cup {"load"}
  BY Zenon DEF CancelRun, DenyEffect, WorkerInv, Ended
<1>2. CASE CancelRun(w)
  <2>1. HasLease(w) => RequestIsCancelled
    BY <1>1, <1>2, Zenon DEF CancelRun, JobFits, LeaseFits
  <2>2. PersistAs(w, [job[w] EXCEPT !.run.phase = "cancelled"], "finish", "error")
    BY <1>2, Zenon DEF CancelRun, PersistUpdate
  <2>3. QED BY <1>1, <2>1, <2>2, PhaseSaves, Zenon
<1>3. CASE DenyEffect(w)
  <2>1. PersistAs(w, [job[w] EXCEPT !.run.phase = "blocked"], "finish", "reconcile")
    BY <1>3, Zenon DEF DenyEffect, PersistReconciling
  <2>2. QED BY <1>1, <2>1, PhaseSaves, Zenon
<1>4. QED BY <1>2, <1>3, Zenon

\* The next decision about a run.
LEMMA DecidedFits ==
    ASSUME NEW r, RunFits(r), r.phase \in Active
    PROVE  /\ RunFits(Decided(r)) /\ Decided(r).phase \in {"solved", "unresolved", "awaiting", "inflight"}
           /\ Decided(r) = r => r.phase \in {"awaiting", "inflight"}
<1>1. r \in Runs /\ Len(Plan) \in Nat
  BY WorkerAssumption DEF RunFits
<1>2. CASE r.phase = "ready" /\ r.step > Len(Plan)
  <2>1. PICK p \in {"unresolved", "solved"} : Decided(r) = [r EXCEPT !.phase = p]
    BY <1>2, Zenon DEF Decided
  <2>2. PICK q : q = [r EXCEPT !.phase = p]
    BY Zenon
  <2>3. p \in Outcomes /\ p \notin Active /\ p # "none" /\ p \notin {"retry", "awaiting", "inflight"}
    BY Zenon DEF Outcomes, Active
  <2>4. q \in Runs /\ q.phase = p
    BY <1>1, <2>2, <2>3, Zenon DEF Runs
  <2>5. RunFits(q) /\ q # r
    BY <1>2, <2>3, <2>4, Zenon DEF RunFits
  <2>6. QED BY <2>1, <2>2, <2>4, <2>5, Zenon
<1>3. CASE r.phase \in {"ready", "retry"} /\ ~(r.phase = "ready" /\ r.step > Len(Plan))
  <2>1. PICK n : n = r.attempt + 1
    BY Zenon
  <2>2. PICK q : q = [r EXCEPT !.phase = "awaiting", !.attempt = n]
    BY Zenon
  <2>3. Decided(r) = q
    BY <1>3, <2>1, <2>2, Zenon DEF Decided
  <2>4. n \in Nat /\ "awaiting" \in Active /\ r.step \in Nat
    BY <1>1, <2>1 DEF Runs, Active
  <2>5. q \in Runs /\ q.phase = "awaiting" /\ q.step = r.step
    BY <1>1, <2>2, <2>4, Zenon DEF Runs
  <2>6. r.step \in 1 .. Len(Plan)
    BY <1>1, <1>3, <2>4 DEF RunFits, Active
  <2>7. RunFits(q) /\ q # r
    BY <1>1, <1>3, <2>5, <2>6, Zenon DEF RunFits
  <2>8. QED BY <2>3, <2>5, <2>7, Zenon
<1>4. CASE r.phase \in {"awaiting", "inflight"}
  BY <1>4, Zenon DEF Decided
<1>5. QED BY <1>2, <1>3, <1>4, Zenon DEF Active

\* Saving a decision keeps the invariant.
LEMMA DecisionSaves ==
    ASSUME WorkerInv, NEW w \in Jobs, job[w].pc = "decide", NEW r, RunFits(r), r \in Runs,
           NEW pc \in {"finish", "evaluate", "loop", "wait"}, r.phase # "cancelled",
           PersistAs(w, [job[w] EXCEPT !.run = r], pc, "reconcile"),
           pc = "finish" => r.phase \in Outcomes, pc = "evaluate" => r.phase \in {"awaiting", "inflight"},
           pc = "loop" => r.phase \in Active, pc = "wait" => r.phase = "retry"
    PROVE  WorkerInv'
<1>1. JobFits(w, job[w]) /\ job[w] \in JobRecord /\ job[w].pc \notin Ended \cup {"load"}
  BY Zenon DEF WorkerInv, Ended
<1>2. PICK kept, y : kept = [job[w] EXCEPT !.run = r] /\ y = [kept EXCEPT !.pc = pc]
  BY Zenon
<1>3. pc \in JobPcs \ (Ended \cup {"cancel", "reconcile"})
  BY Zenon DEF JobPcs, Ended
<1>4. y \in JobRecord /\ y.pc = pc /\ y.run = r /\ kept.run = r /\ y.dirty = job[w].dirty
  BY <1>1, <1>2, <1>3, Zenon DEF JobRecord
<1>5. RunAtPc(y)
  BY <1>4, Zenon DEF RunAtPc, Active
<1>6. EffectFits(w, y)
  BY <1>1, <1>4, Zenon DEF JobFits, EffectFits
<1>7. SaveConflicts(kept.run) => RequestIsCancelled
  BY <1>4, Zenon DEF SaveConflicts
<1>8. PersistAs(w, kept, pc, "reconcile") /\ y.run = kept.run
  BY <1>2, <1>4, Zenon
<1>9. QED BY <1>1, <1>2, <1>3, <1>4, <1>5, <1>6, <1>7, <1>8, PersistMoves, Zenon

\* Deciding what to do next keeps the invariant.
LEMMA DecisionKeepsFlow ==
    ASSUME WorkerInv, NEW w \in Jobs, NextDecision(w)
    PROVE  WorkerInv'
<1>1. job[w].pc = "decide" /\ job[w] \in JobRecord /\ RunFits(job[w].run) /\ job[w].run.phase \in Active
  BY Zenon DEF NextDecision, WorkerInv, JobFits, RunAtPc
<1>2. PICK d : d = Decided(job[w].run)
  BY Zenon
<1>3. /\ RunFits(d) /\ d.phase \in {"solved", "unresolved", "awaiting", "inflight"}
      /\ d = job[w].run => d.phase \in {"awaiting", "inflight"}
  BY <1>1, <1>2, DecidedFits, Zenon
<1>4. CASE PersistReconciling(w, [job[w] EXCEPT !.run = d],
                              IF d = job[w].run THEN AfterDecision(d)
                              ELSE IF d.phase \in Outcomes THEN "finish" ELSE "loop")
  <2>1. PICK pc \in {"finish", "evaluate", "loop"} :
           /\ PersistAs(w, [job[w] EXCEPT !.run = d], pc, "reconcile")
           /\ pc = "finish" => d.phase \in Outcomes
           /\ pc = "evaluate" => d.phase \in {"awaiting", "inflight"}
           /\ pc = "loop" => d.phase \notin Outcomes
    <3>1. AfterDecision(d) \in {"finish", "evaluate", "wait"}
      BY Zenon DEF AfterDecision
    <3>2. CASE d = job[w].run
      <4>1. AfterDecision(d) = "evaluate"
        BY <1>3, <3>2, Zenon DEF AfterDecision, Outcomes
      <4>2. QED BY <1>3, <1>4, <3>2, <4>1, Zenon DEF PersistReconciling
    <3>3. CASE d # job[w].run
      BY <1>4, <3>3, Zenon DEF PersistReconciling
    <3>4. QED BY <3>2, <3>3, Zenon
  <2>2. d.phase \notin Outcomes => d.phase \in Active
    BY <1>3, Zenon DEF Outcomes, Active
  <2>3. d.phase # "cancelled" /\ d \in Runs
    BY <1>3, Zenon DEF RunFits
  <2>4. QED BY <1>1, <1>3, <2>1, <2>2, <2>3, DecisionSaves, Zenon
<1>5. CASE job[w].run.phase = "retry" /\ PersistReconciling(w, job[w], "wait")
  <2>1. PICK r : r = job[w].run
    BY Zenon
  <2>2. job[w] = [job[w] EXCEPT !.run = r]
    BY <1>1, <2>1, Zenon DEF JobRecord
  <2>3. PersistAs(w, [job[w] EXCEPT !.run = r], "wait", "reconcile")
    BY <1>5, <2>2, Zenon DEF PersistReconciling
  <2>4. RunFits(r) /\ r \in Runs /\ r.phase = "retry"
    BY <1>1, <1>5, <2>1, Zenon DEF RunFits
  <2>5. QED BY <1>1, <2>3, <2>4, DecisionSaves, Zenon
<1>6. QED BY <1>2, <1>4, <1>5, Zenon DEF NextDecision

\* An outcome that is known and not yet saved.
LEMMA OutcomeMoves ==
    ASSUME WorkerInv, NEW w \in Jobs, NEW pc \in {"loop", "recheck", "record"}, NEW o \in EffectOutcomes,
           job' = [job EXCEPT ![w].pc = pc, ![w].outcome = o], UNCHANGED <<flow, granted, tree>>,
           job[w].pc \notin Ended \cup {"load"}, job[w].run.phase \in Active,
           pc \in {"recheck", "record"} => job[w].run.phase = "inflight",
           pc = "record" /\ o = "ok" => job[w].prepared # "git"
    PROVE  WorkerInv'
<1>1. JobFits(w, job[w]) /\ job[w] \in JobRecord
  BY Zenon DEF WorkerInv
<1>2. PICK x : x = [job[w] EXCEPT !.pc = pc, !.outcome = o]
  BY Zenon
<1>3. pc \in JobPcs /\ pc \notin Ended /\ pc \notin {"load", "cancel", "reconcile"}
  BY Zenon DEF JobPcs, Ended
<1>4. /\ x \in JobRecord /\ x.pc = pc /\ x.outcome = o /\ x.run = job[w].run
      /\ x.dirty = job[w].dirty /\ x.prepared = job[w].prepared
  BY <1>1, <1>2, <1>3, Zenon DEF JobRecord
<1>5. RunAtPc(x)
  BY <1>1, <1>4, Zenon DEF JobFits, RunAtPc
<1>6. LeaseFits(w, x)
  BY <1>1, <1>3, <1>4, Zenon DEF JobFits, LeaseFits
<1>7. EffectFits(w, x)
  BY <1>1, <1>4, Zenon DEF JobFits, EffectFits
<1>8. job' = [job EXCEPT ![w] = x]
  BY <1>2, Zenon
<1>9. QED BY <1>4, <1>5, <1>6, <1>7, <1>8, JobMoves, Zenon DEF JobFits

\* Waiting for a retry keeps the invariant.
LEMMA WaitKeepsFlow ==
    ASSUME WorkerInv, NEW w \in Jobs, WaitForRetry(w)
    PROVE  WorkerInv'
<1>1. /\ job[w].pc = "wait" /\ JobFits(w, job[w]) /\ job[w].pc \notin Ended \cup {"load"}
      /\ job[w].run.phase \in Active
  BY Zenon DEF WaitForRetry, WorkerInv, Ended, JobFits, RunAtPc
<1>2. CASE job' = [job EXCEPT ![w].pc = "loop", ![w].outcome = "due"] /\ UNCHANGED <<flow, granted, tree>>
  <2>1. "due" \in EffectOutcomes
    BY Zenon DEF EffectOutcomes
  <2>2. QED BY <1>1, <1>2, <2>1, OutcomeMoves, Zenon
<1>3. CASE (~HasLease(w) \/ RequestIsCancelled) /\ RenewAndPoll(w, "wait")
  BY <1>1, <1>3, RenewMoves, Zenon
<1>4. QED BY <1>2, <1>3, Zenon DEF WaitForRetry

\* Pinning the workspace keeps the invariant.
LEMMA PinKeepsFlow ==
    ASSUME WorkerInv, NEW w \in Jobs, PinWorkspace(w)
    PROVE  WorkerInv'
<1>1. /\ job[w].pc = "pin" /\ JobFits(w, job[w]) /\ job[w].pc \notin Ended \cup {"load"}
      /\ job[w].run.phase = "inflight" /\ job[w].run.phase \in Active
  BY Zenon DEF PinWorkspace, WorkerInv, Ended, JobFits, RunAtPc
<1>2. CASE RenewAndPoll(w, "boundary")
  <2>1. ASSUME JobOnly(w, "boundary") PROVE WorkerInv'
    <3>1. "boundary" \in JobPcs \ (Ended \cup {"load", "cancel", "reconcile"})
      BY Zenon DEF JobPcs, Ended
    <3>2. \A x : x.pc = "boundary" /\ SameWork(x, job[w]) => RunAtPc(x) /\ EffectFits(w, x)
      BY <1>1, Zenon DEF SameWork, JobFits, RunAtPc, EffectFits
    <3>3. QED BY <1>1, <2>1, <3>1, <3>2, LiveMoves, Zenon
  <2>2. QED BY <1>1, <1>2, <2>1, RenewMoves, Zenon
<1>3. CASE /\ job' = [job EXCEPT ![w].pc = "record", ![w].outcome = "failed"]
           /\ UNCHANGED <<flow, granted, tree>>
  <2>1. "failed" \in EffectOutcomes
    BY Zenon DEF EffectOutcomes
  <2>2. QED BY <1>1, <1>3, <2>1, OutcomeMoves, Zenon
<1>4. QED BY <1>2, <1>3, Zenon DEF PinWorkspace

\* Executing a command or a connector step keeps the invariant.
LEMMA ExecutionKeepsFlow ==
    ASSUME WorkerInv, NEW w \in Jobs, ExecuteCommand(w) \/ ExecuteConnectorStep(w)
    PROVE  WorkerInv'
<1>1. /\ job[w].pc = "running" /\ JobFits(w, job[w]) /\ job[w].pc \notin Ended \cup {"load"}
      /\ job[w].run.phase = "inflight" /\ job[w].run.phase \in Active
      /\ UNCHANGED <<flow, granted, tree>>
  BY Zenon DEF ExecuteCommand, ExecuteConnectorStep, WorkerInv, Ended, JobFits, RunAtPc
<1>2. ASSUME NEW pc \in {"recheck", "record"}, NEW o \in {"ok", "retryable", "failed"},
             job' = [job EXCEPT ![w].pc = pc, ![w].outcome = o],
             pc = "record" /\ o = "ok" => job[w].prepared # "git"
      PROVE  WorkerInv'
  <2>1. o \in EffectOutcomes
    BY Zenon DEF EffectOutcomes
  <2>2. QED BY <1>1, <1>2, <2>1, OutcomeMoves, Zenon
<1>3. CASE ~HasLease(w) /\ JobGoes(w, "stale")
  BY <1>1, <1>3, StaleMoves, Zenon DEF JobOnly
<1>4. CASE HasLease(w) /\ RequestIsCancelled /\ JobGoes(w, "cancel")
  BY <1>1, <1>4, CancelMoves, Zenon DEF JobOnly
<1>5. CASE ExecuteCommand(w)
  <2>1. ASSUME NEW o \in Exited, job' = [job EXCEPT ![w].pc = "recheck", ![w].outcome = o]
        PROVE  WorkerInv'
    BY <1>2, <2>1, Zenon DEF Exited
  <2>2. ASSUME NEW o \in Stopped, job' = [job EXCEPT ![w].pc = "record", ![w].outcome = o]
        PROVE  WorkerInv'
    BY <1>2, <2>2, Zenon DEF Stopped
  <2>3. QED BY <1>3, <1>4, <1>5, <2>1, <2>2, Zenon DEF ExecuteCommand
<1>6. CASE ExecuteConnectorStep(w)
  <2>1. ASSUME NEW o \in CallOutcomes, job' = [job EXCEPT ![w].pc = "record", ![w].outcome = o]
        PROVE  WorkerInv'
    <3>1. job[w].prepared # "git"
      BY <1>6, Zenon DEF ExecuteConnectorStep
    <3>2. QED BY <1>2, <2>1, <3>1, Zenon DEF CallOutcomes
  <2>2. QED BY <1>3, <1>4, <1>6, <2>1, Zenon DEF ExecuteConnectorStep
<1>7. QED BY <1>5, <1>6

\* Looking at the workspace again after a command keeps the invariant.
LEMMA RecheckKeepsFlow ==
    ASSUME WorkerInv, NEW w \in Jobs, RecheckWorkspace(w)
    PROVE  WorkerInv'
<1>1. /\ job[w].pc = "recheck" /\ JobFits(w, job[w]) /\ job[w].pc \notin Ended \cup {"load"}
      /\ job[w].run.phase = "inflight" /\ job[w].run.phase \in Active
  BY Zenon DEF RecheckWorkspace, WorkerInv, Ended, JobFits, RunAtPc
<1>2. CASE (FingerprintMatches \/ ~HasLease(w) \/ RequestIsCancelled) /\ RenewAndPoll(w, "record")
  <2>1. ASSUME HasLease(w), ~RequestIsCancelled, JobOnly(w, "record") PROVE WorkerInv'
    <3>1. "record" \in JobPcs \ (Ended \cup {"load", "cancel", "reconcile"})
      BY Zenon DEF JobPcs, Ended
    <3>2. tree = "accepted" /\ ~job[w].dirty
      BY <1>1, <1>2, <2>1, Zenon DEF FingerprintMatches, JobFits, EffectFits
    <3>3. \A x : x.pc = "record" /\ SameWork(x, job[w]) => RunAtPc(x) /\ EffectFits(w, x)
      BY <1>1, <3>2, Zenon DEF SameWork, JobFits, RunAtPc, EffectFits
    <3>4. QED BY <1>1, <2>1, <3>1, <3>3, LiveMoves, Zenon
  <2>2. QED BY <1>1, <1>2, <2>1, RenewMoves, Zenon
<1>3. CASE /\ job' = [job EXCEPT ![w].pc = "record", ![w].outcome = "failed"]
           /\ UNCHANGED <<flow, granted, tree>>
  <2>1. "failed" \in EffectOutcomes
    BY DEF EffectOutcomes
  <2>2. QED BY <1>1, <1>3, <2>1, OutcomeMoves, Zenon
<1>4. QED BY <1>2, <1>3, Zenon DEF RecheckWorkspace

\* Saving the start of an effect before it is executed keeps the invariant.
LEMMA StartKeepsFlow ==
    ASSUME WorkerInv, NEW w \in Jobs, StartEffect(w)
    PROVE  WorkerInv'
<1>1. /\ job[w].pc = "start" /\ JobFits(w, job[w]) /\ job[w] \in JobRecord /\ RunFits(job[w].run)
      /\ job[w].pc \notin Ended \cup {"load"} /\ job[w].run.phase \in {"awaiting", "inflight"}
  BY Zenon DEF StartEffect, WorkerInv, Ended, JobFits, RunAtPc
<1>2. PICK prepared \in PreparedEffects(job[w].run.step) :
         PersistReconciling(w,
            [job[w] EXCEPT !.run.phase = "inflight", !.prepared = prepared,
                           !.outcome = IF prepared = "rejected" THEN "failed" ELSE "none",
                           !.held = granted /\ flow.state = "leased", !.dirty = FALSE],
            IF prepared = "rejected" THEN "record"
            ELSE IF prepared = "git" THEN "pin" ELSE "boundary")
  BY Zenon DEF StartEffect
<1>3. prepared \in {"git", "connector", "rejected"} /\ prepared \in Prepared
  <2>1. job[w].run.step \in 1 .. Len(Plan)
    BY <1>1, Zenon DEF RunFits
  <2>2. Plan[job[w].run.step] \in {"git", "connector"}
    BY <2>1, WorkerAssumption
  <2>3. QED BY <2>2, Zenon DEF PreparedEffects, Prepared
<1>4. PICK pc \in {"record", "pin", "boundary"} :
         /\ pc = IF prepared = "rejected" THEN "record" ELSE IF prepared = "git" THEN "pin" ELSE "boundary"
         /\ pc = "record" => prepared = "rejected"
  BY <1>3, Zenon
<1>5. PICK o \in EffectOutcomes : o = IF prepared = "rejected" THEN "failed" ELSE "none"
  BY Zenon DEF EffectOutcomes
<1>6. PICK h \in BOOLEAN : h <=> (granted /\ flow.state = "leased")
  BY Zenon
<1>7. PICK r : r = [job[w].run EXCEPT !.phase = "inflight"]
  BY Zenon
<1>8. RunFits(r) /\ r.phase = "inflight" /\ r \in Runs /\ r.phase \in Active
  BY <1>1, <1>7, PhaseMoves, Zenon DEF RunFits, Active
<1>9. PICK kept : kept = [job[w] EXCEPT !.run = r, !.prepared = prepared, !.outcome = o, !.held = h,
                                        !.dirty = FALSE]
  BY Zenon
<1>10. PICK y : y = [kept EXCEPT !.pc = pc]
  BY Zenon
<1>11. pc \in JobPcs \ (Ended \cup {"cancel", "reconcile"}) /\ pc \in JobPcs
  BY Zenon DEF JobPcs, Ended
<1>12. kept \in JobRecord /\ kept.run = r /\ kept.prepared = prepared /\ kept.outcome = o /\ kept.held = h
       /\ kept.dirty = FALSE
  BY <1>1, <1>3, <1>8, <1>9, Zenon DEF JobRecord
<1>13. y \in JobRecord /\ y.pc = pc /\ y.run = r /\ y.held = h /\ y.dirty = FALSE
  BY <1>10, <1>11, <1>12, Zenon DEF JobRecord
<1>14. RunAtPc(y)
  BY <1>8, <1>13, Zenon DEF RunAtPc
<1>15. EffectFits(w, y)
  BY <1>6, <1>13, Zenon DEF EffectFits
<1>16. SaveConflicts(kept.run) => RequestIsCancelled
  BY <1>8, <1>12, Zenon DEF SaveConflicts
<1>17. PersistAs(w, kept, pc, "reconcile")
  <2>1. h = (granted /\ flow.state = "leased")
    BY <1>6, Zenon
  <2>2. kept = [job[w] EXCEPT !.run.phase = "inflight", !.prepared = prepared,
                           !.outcome = IF prepared = "rejected" THEN "failed" ELSE "none",
                           !.held = granted /\ flow.state = "leased", !.dirty = FALSE]
    BY <1>1, <1>5, <1>7, <1>9, <2>1, Zenon DEF JobRecord
  <2>3. QED BY <1>2, <1>4, <2>2, Zenon DEF PersistReconciling
<1>18. y.run = kept.run
  BY <1>12, <1>13, Zenon
<1>19. QED BY <1>1, <1>10, <1>11, <1>13, <1>14, <1>15, <1>16, <1>17, <1>18, PersistMoves, Zenon

\* The run after a result.
LEMMA ResultFitsRun ==
    ASSUME NEW r, RunFits(r), r.phase = "inflight", NEW o \in EffectOutcomes
    PROVE  RunFits(ResultRecorded(r, o)) /\ ResultRecorded(r, o).phase \in {"ready", "retry"}
<1>1. /\ r \in Runs /\ Len(Plan) \in Nat /\ r.step \in 1 .. Len(Plan) /\ r.step \in Nat
  BY WorkerAssumption DEF RunFits, Runs
<1>2. "retry" \in Active /\ "ready" \in Active
  BY Zenon DEF Active
<1>3. CASE o = "retryable" /\ r.attempt < MaxAttempts
  <2>1. PICK q : q = [r EXCEPT !.phase = "retry"]
    BY Zenon
  <2>2. q \in Runs /\ q.phase = "retry" /\ q.step = r.step
    BY <1>1, <1>2, <2>1 DEF Runs
  <2>3. RunFits(q)
    BY <1>1, <2>2 DEF RunFits
  <2>4. ResultRecorded(r, o) = q
    BY <1>3, <2>1, Zenon DEF ResultRecorded
  <2>5. QED BY <2>2, <2>3, <2>4, Zenon
<1>4. CASE ~(o = "retryable" /\ r.attempt < MaxAttempts)
  <2>1. PICK f \in BOOLEAN : f = (r.failed \/ o # "ok")
    BY Zenon
  <2>2. PICK n \in Nat : n = r.step + 1 /\ n \in 1 .. Len(Plan) + 1
    BY <1>1
  <2>3. PICK q : q = [r EXCEPT !.phase = "ready", !.step = n, !.attempt = 0, !.failed = f]
    BY Zenon
  <2>4. q \in Runs /\ q.phase = "ready" /\ q.step = n
    BY <1>1, <1>2, <2>3, Zenon DEF Runs
  <2>5. RunFits(q)
    BY <2>2, <2>4, Zenon DEF RunFits
  <2>6. ResultRecorded(r, o) = q
    BY <1>1, <1>4, <2>1, <2>2, <2>3, Zenon DEF ResultRecorded
  <2>7. QED BY <2>4, <2>5, <2>6, Zenon
<1>5. QED BY <1>3, <1>4, Zenon

\* Saving the result of an effect keeps the invariant.
LEMMA RecordKeepsFlow ==
    ASSUME WorkerInv, NEW w \in Jobs, RecordResult(w)
    PROVE  WorkerInv'
<1>1. /\ job[w].pc = "record" /\ JobFits(w, job[w]) /\ job[w] \in JobRecord /\ RunFits(job[w].run)
      /\ job[w].pc \notin Ended \cup {"load"} /\ job[w].run.phase = "inflight"
  BY Zenon DEF RecordResult, WorkerInv, Ended, JobFits, RunAtPc
<1>2. PICK r : r = ResultRecorded(job[w].run, job[w].outcome)
  BY Zenon
<1>3. RunFits(r) /\ r.phase \in {"ready", "retry"} /\ r \in Runs /\ r.phase \in Active
  <2>1. job[w].outcome \in EffectOutcomes
    BY <1>1, Zenon DEF JobRecord
  <2>2. RunFits(r) /\ r.phase \in {"ready", "retry"}
    BY <1>1, <1>2, <2>1, ResultFitsRun, Zenon
  <2>3. QED BY <2>2, Zenon DEF RunFits, Active
<1>4. PICK kept : kept = [job[w] EXCEPT !.run = r, !.prepared = "none", !.outcome = "none", !.held = FALSE,
                                        !.dirty = FALSE]
  BY Zenon
<1>5. PICK y : y = [kept EXCEPT !.pc = "loop"]
  BY Zenon
<1>6. "loop" \in JobPcs \ (Ended \cup {"cancel", "reconcile"}) /\ "none" \in Prepared /\ "none" \in EffectOutcomes
  BY Zenon DEF JobPcs, Ended, Prepared, EffectOutcomes
<1>7. kept \in JobRecord /\ kept.run = r /\ kept.dirty = FALSE
  BY <1>1, <1>3, <1>4, <1>6, Zenon DEF JobRecord
<1>8. y \in JobRecord /\ y.pc = "loop" /\ y.run = r /\ y.dirty = FALSE /\ y.run = kept.run
  BY <1>5, <1>6, <1>7, Zenon DEF JobRecord
<1>9. RunAtPc(y)
  BY <1>3, <1>8, Zenon DEF RunAtPc
<1>10. EffectFits(w, y)
  BY <1>8, Zenon DEF EffectFits
<1>11. SaveConflicts(kept.run) => RequestIsCancelled
  BY <1>3, <1>7, Zenon DEF SaveConflicts
<1>12. PersistAs(w, kept, "loop", "reconcile")
  BY <1>2, <1>4, Zenon DEF RecordResult, PersistReconciling
<1>13. QED BY <1>1, <1>5, <1>6, <1>8, <1>9, <1>10, <1>11, <1>12, PersistMoves, Zenon

\* Finishing the request keeps the invariant.
LEMMA FinishKeepsFlow ==
    ASSUME WorkerInv, NEW w \in Jobs, FinishFlow(w)
    PROVE  WorkerInv'
<1>1. /\ job[w].pc \in {"finish", "refuse"} /\ JobFits(w, job[w]) /\ job[w] \in JobRecord
      /\ UNCHANGED <<granted, tree>>
  BY Zenon DEF FinishFlow, WorkerInv
<1>2. "finish" \notin Ended \cup {"load"} /\ "refuse" \notin Ended \cup {"load"}
  BY Zenon DEF Ended
<1>3. CASE ~HasLease(w)
  <2>1. JobOnly(w, "stale")
    BY <1>1, <1>3, Zenon DEF FinishFlow, JobOnly
  <2>2. QED BY <1>3, <2>1, StaleMoves, Zenon
<1>4. CASE HasLease(w)
  <2>1. ~(job[w].pc = "finish" /\ RequestIsCancelled /\ job[w].run.phase # "cancelled")
    BY <1>1, <1>2, <1>4, Zenon DEF JobFits, RunAtPc, LeaseFits, RequestIsCancelled, WorkerInv
  <2>2. PICK s \in Settled : flow' = [flow EXCEPT !.live = FALSE, !.state = s]
    <3>1. SettledAs(job[w].run) \in Settled
      BY Zenon DEF SettledAs, Settled
    <3>2. "cancelled" \in Settled /\ "failed" \in Settled
      BY Zenon DEF Settled
    <3>3. QED BY <1>4, <2>1, <3>1, <3>2, Zenon DEF FinishFlow
  <2>3. PICK x : x = [job[w] EXCEPT !.pc = "done"]
    BY Zenon
  <2>4. "done" \in JobPcs
    BY Zenon DEF JobPcs, Ended
  <2>5. x \in JobRecord /\ x.pc = "done" /\ x.run = job[w].run /\ x.dirty = job[w].dirty
    BY <1>1, <2>3, <2>4 DEF JobRecord
  <2>6. RunAtPc(x) /\ EffectFits(w, x)
    BY <1>1, <2>5, Zenon DEF JobFits, RunAtPc, EffectFits
  <2>7. job' = [job EXCEPT ![w] = x]
    BY <1>4, <2>1, <2>3, Zenon DEF FinishFlow, JobGoes
  <2>8. s \in {"queued", "leased", "cancelling"} \cup Settled /\ s \notin {"queued", "cancelling"}
    BY Zenon DEF Settled
  <2>9. flow' = [flow EXCEPT !.state = s, !.live = FALSE]
    BY <2>2, Zenon DEF WorkerInv, FlowRow
  <2>10. QED BY <1>1, <2>5, <2>6, <2>7, <2>8, <2>9, ReleaseKeepsFlow, Zenon
<1>5. QED BY <1>3, <1>4

\* Nobody works initially.
LEMMA FlowInitInv == FlowInit => WorkerInv
<1> SUFFICES ASSUME FlowInit PROVE WorkerInv OBVIOUS
<1>1. flow \in FlowRow /\ flow.state = "queued" /\ flow.run = NoRun
  BY NoRunFits, Zenon DEF FlowInit, FlowRow
<1>2. RunFits(flow.run) /\ flow.run.phase \notin Outcomes
  BY <1>1, NoRunFits, Zenon DEF Outcomes
<1>3. job \in [Jobs -> JobRecord] /\ \A w \in Jobs : job[w] = NoJob
  BY IdleJobFits, Zenon DEF FlowInit
<1>4. \A w \in Jobs : JobFits(w, job[w])
  <2> TAKE w \in Jobs
  <2>1. ~HasLease(w)
    BY <1>1, Zenon DEF HasLease
  <2>2. PICK x : x = NoJob
    BY Zenon
  <2>3. x \in JobRecord /\ RunAtPc(x) /\ x.pc = "none" /\ x.dirty = FALSE
    BY <2>2, IdleJobFits, Zenon
  <2>4. JobFits(w, x)
    BY <2>1, <2>3, Zenon DEF JobFits, LeaseFits, EffectFits
  <2>5. QED BY <1>3, <2>2, <2>4, Zenon
<1>5. QED BY <1>1, <1>2, <1>3, <1>4, Zenon DEF WorkerInv, FlowInit

\* Every behaviour of the worker keeps the inductive invariant.
THEOREM WorkerInvariant == FlowSpec => []WorkerInv
<1>1. WorkerInv /\ [FlowNext]_flowVars => WorkerInv'
  <2> SUFFICES ASSUME WorkerInv, [FlowNext]_flowVars PROVE WorkerInv' OBVIOUS
  <2>1. CASE UNCHANGED flowVars
    BY <2>1, SMTT(60)
    DEF flowVars, WorkerInv, JobFits, RunAtPc, RunFits, LeaseFits, EffectFits, HasLease, RequestIsCancelled
  <2>2. CASE ClaimFlow
    BY <2>2, ClaimKeepsFlow
  <2>3. CASE LeaseExpires \/ RecoverFlow \/ DaemonRestarts
    BY <2>3, RecoveryKeepsFlow
  <2>4. CASE CancelFlow \/ RevokeGrant \/ EditTree
    BY <2>4, CancelKeepsFlow, RevokeKeepsFlow, EditKeepsFlow, Zenon
  <2>5. ASSUME NEW w \in Jobs, JobStep(w)
        PROVE  WorkerInv'
    <3>1. CASE LoadFlowCheckpoint(w) \/ ValidateFlow(w) \/ CreateCheckpoint(w) \/ LoopHead(w)
               \/ NextDecision(w) \/ WaitForRetry(w)
      BY <3>1, LoadKeepsFlow, ValidateKeepsFlow, CreateKeepsFlow, LoopKeepsFlow, DecisionKeepsFlow,
         WaitKeepsFlow, Zenon
    <3>2. CASE EvaluateEffect(w) \/ DenyEffect(w) \/ StartEffect(w) \/ PinWorkspace(w) \/ SecondBoundary(w)
      BY <3>2, BoundariesKeepFlow, PhaseSavesKeepFlow, StartKeepsFlow, PinKeepsFlow, Zenon
    <3>3. CASE ExecuteCommand(w) \/ ExecuteConnectorStep(w) \/ RecheckWorkspace(w) \/ RecordResult(w)
      BY <3>3, ExecutionKeepsFlow, RecheckKeepsFlow, RecordKeepsFlow, Zenon
    <3>4. CASE Reconcile(w) \/ CancelRun(w) \/ FinishFlow(w)
      BY <3>4, ReconcileKeepsFlow, PhaseSavesKeepFlow, FinishKeepsFlow, Zenon
    <3>5. QED BY <2>5, <3>1, <3>2, <3>3, <3>4, Zenon DEF JobStep
  <2>6. QED BY <2>1, <2>2, <2>3, <2>4, <2>5, Zenon DEF FlowNext
<1>2. QED BY FlowInitInv, <1>1, PTL DEF FlowSpec

\* Whatever the order of cancellations, expiries, claims and saves, for any number
\* of steps, attempts and claims: a worker whose lease is intact never ends in an
\* error, whichever of its saves a cancellation overtakes.
THEOREM CancellationNoError == FlowSpec => []CancellationIsNoError
<1>1. WorkerInv => CancellationIsNoError
  BY Zenon DEF WorkerInv, JobFits, LeaseFits, CancellationIsNoError, Ended
<1>2. QED BY WorkerInvariant, <1>1, PTL

\* For any number of steps, attempts and claims: an effect runs only while its
\* grant and its request hold, and a command that succeeded in an edited workspace
\* is never recorded as a success (PreparedEffects, the recheck of the workspace).
THEOREM ClaimsKept == FlowSpec => []FlowKeepsItsClaims
<1>1. WorkerInv => FlowKeepsItsClaims
  BY Zenon DEF WorkerInv, JobFits, EffectFits, FlowKeepsItsClaims, RunsOnlyWhileHeld, SuccessOnAcceptedTree
<1>2. QED BY WorkerInvariant, <1>1, PTL
=============================================================================
