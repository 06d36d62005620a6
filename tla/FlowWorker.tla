----------------------------- MODULE FlowWorker -----------------------------
(***************************************************************************)
(* The worker that runs a leased flow: process_flow and process_leased of  *)
(* the daemon (crates/pam_daemon/src/flow.rs, lifecycle.rs), one store     *)
(* call at a time, while the lease may expire and be given to another      *)
(* worker, the request may be cancelled, its grant revoked, and the        *)
(* workspace edited between any two calls.                                 *)
(*                                                                         *)
(* The engine's run is the step it is at and how; FlowEngine has the rest. *)
(* A snapshot carries the number of its transition, so the revision check  *)
(* of a save is that the durable run is the one the worker started from.   *)
(* Every supported step is read-only: git commands and connector calls.    *)
(***************************************************************************)
EXTENDS Naturals, Sequences

CONSTANTS Plan,         \* the steps: a sequence of "git" and "connector"
          MaxAttempts,  \* attempts of a step
          MaxLeases     \* bound on claims; the last lease is kept alive

ASSUME WorkerAssumption ==
    /\ MaxLeases \in Nat /\ MaxAttempts \in Nat
    /\ Plan \in Seq({"git", "connector"})

VARIABLES flow,      \* the request row, its lease and its checkpoint
          job,       \* the workers, by the lease they were spawned with
          granted,   \* the caller still holds the grant of this run
          tree       \* the workspace: "accepted" or "changed"

flowVars == <<flow, job, granted, tree>>

Jobs == 1..MaxLeases
Outcomes == {"solved", "unresolved", "blocked", "cancelled"}
Settled == {"succeeded", "failed", "cancelled"}
NoRun == [phase |-> "none", step |-> 0, attempt |-> 0, failed |-> FALSE]
FirstRun == [phase |-> "ready", step |-> 1, attempt |-> 0, failed |-> FALSE]
NoJob == [pc |-> "none", run |-> NoRun, prepared |-> "none", outcome |-> "none",
          held |-> FALSE, dirty |-> FALSE]

FlowInit ==
    /\ flow = [state |-> "queued", lease |-> 0, live |-> FALSE, run |-> NoRun]
    /\ job = [w \in Jobs |-> NoJob]
    /\ granted = TRUE
    /\ tree = "accepted"

\* ensure_live_flow_lease.
HasLease(w) == flow.lease = w /\ flow.live /\ flow.state \in {"leased", "cancelling"}

RequestIsCancelled == flow.state = "cancelling"

JobGoes(w, pc) == job' = [job EXCEPT ![w].pc = pc]

JobOnly(w, pc) == JobGoes(w, pc) /\ UNCHANGED <<flow, granted, tree>>

----------------------------------------------------------------------------
(* The scheduler, the store's recovery, and the world.                     *)

ClaimFlow ==
    /\ flow.state = "queued"
    /\ flow.lease < MaxLeases
    /\ flow' = [flow EXCEPT !.state = "leased", !.lease = @ + 1, !.live = TRUE]
    /\ job' = [job EXCEPT ![flow.lease + 1] = [NoJob EXCEPT !.pc = "load"]]
    /\ UNCHANGED <<granted, tree>>

LeaseExpires ==
    /\ flow.state \in {"leased", "cancelling"} /\ flow.live
    /\ flow.lease < MaxLeases
    /\ flow' = [flow EXCEPT !.live = FALSE]
    /\ UNCHANGED <<job, granted, tree>>

SettledAs(run) ==
    IF run.phase = "solved" THEN "succeeded"
    ELSE IF run.phase = "cancelled" THEN "cancelled" ELSE "failed"

\* recover_expired_requests, and recover_all_leases at a start: the terminal
\* checkpoint settles the request, an acknowledged cancellation ends it, and
\* anything else goes back to the queue.
RecoveredState ==
    IF flow.run.phase \in Outcomes
       /\ (flow.state = "leased" \/ flow.run.phase = "cancelled")
    THEN SettledAs(flow.run)
    ELSE IF flow.state = "leased" THEN "queued" ELSE "cancelled"

RecoverFlow ==
    /\ flow.state \in {"leased", "cancelling"} /\ ~flow.live
    /\ flow' = [flow EXCEPT !.state = RecoveredState]
    /\ UNCHANGED <<job, granted, tree>>

\* The daemon dies; the next one recovers every lease before it claims.
DaemonRestarts ==
    /\ flow.state \in {"leased", "cancelling"}
    /\ flow.lease < MaxLeases
    /\ flow' = [flow EXCEPT !.state = RecoveredState, !.live = FALSE]
    /\ job' = [w \in Jobs |-> IF w <= flow.lease THEN [NoJob EXCEPT !.pc = "dead"] ELSE NoJob]
    /\ UNCHANGED <<granted, tree>>

\* What an effect about to start was authorized by is gone.
Withdrawn == [w \in Jobs |->
    IF job[w].pc \in {"pin", "boundary"} THEN [job[w] EXCEPT !.held = FALSE] ELSE job[w]]

\* Store::cancel.
CancelFlow ==
    /\ flow.state \in {"queued", "leased"}
    /\ flow' = [flow EXCEPT !.state =
         IF flow.state = "queued" THEN "cancelled"
         ELSE IF flow.run.phase \in Outcomes THEN SettledAs(flow.run)
         ELSE "cancelling"]
    /\ job' = Withdrawn
    /\ UNCHANGED <<granted, tree>>

RevokeGrant ==
    /\ granted
    /\ granted' = FALSE
    /\ job' = Withdrawn
    /\ UNCHANGED <<flow, tree>>

\* A command that runs while the tree changes has run on something else.
EditTree ==
    /\ tree = "accepted"
    /\ tree' = "changed"
    /\ job' = [w \in Jobs |->
         IF job[w].pc = "running" THEN [job[w] EXCEPT !.dirty = TRUE] ELSE job[w]]
    /\ UNCHANGED <<flow, granted>>

----------------------------------------------------------------------------
(* Saving.                                                                 *)

\* save_flow_checkpoint refuses an effect start, and an outcome other than
\* cancelled, once the cancellation is acknowledged.
SaveConflicts(run) ==
    \/ RequestIsCancelled /\ run.phase \in {"inflight"} \cup (Outcomes \ {"cancelled"})
    \/ ~RequestIsCancelled /\ run.phase = "cancelled"

\* persist_update from the run the worker holds, and what it does next on
\* success, on a conflict, and otherwise.
PersistAs(w, kept, pc, conflict) ==
    LET saved == HasLease(w) /\ ~SaveConflicts(kept.run) /\ flow.run = job[w].run
        failed == IF ~HasLease(w) THEN "stale"
                  ELSE IF SaveConflicts(kept.run) THEN conflict ELSE "error"
    IN  /\ flow' = IF saved THEN [flow EXCEPT !.run = kept.run] ELSE flow
        /\ job' = [job EXCEPT ![w] = IF saved THEN [kept EXCEPT !.pc = pc]
                                    ELSE [@ EXCEPT !.pc = failed]]
        /\ UNCHANGED <<granted, tree>>

PersistUpdate(w, kept, pc) == PersistAs(w, kept, pc, "error")

\* A save with no second look at a conflict.
PersistWithoutReconciling(w, kept, pc) == PersistAs(w, kept, pc, "error")

\* persist_update_reconciling_cancellation: a conflict leads to a second
\* look at the request.
PersistReconciling(w, kept, pc) == PersistAs(w, kept, pc, "reconcile")

\* ... and to the Cancelled successor of the durable snapshot when the
\* request is indeed cancelled.
Reconcile(w) ==
    /\ job[w].pc = "reconcile"
    /\ JobOnly(w, IF RequestIsCancelled THEN "cancel" ELSE "error")

\* run.cancel() and its save.
CancelRun(w) ==
    /\ job[w].pc = "cancel"
    /\ PersistUpdate(w, [job[w] EXCEPT !.run.phase = "cancelled"], "finish")

----------------------------------------------------------------------------
(* process_flow.                                                           *)

\* The checkpoint, when the lease still allows it; one that is terminal
\* already only needs its request finished.
LoadFlowCheckpoint(w) ==
    /\ job[w].pc = "load"
    /\ job' = [job EXCEPT ![w].run = IF HasLease(w) THEN flow.run ELSE @,
                          ![w].pc = IF ~HasLease(w) THEN "stale"
                                    ELSE IF flow.run.phase \in Outcomes THEN "finish"
                                    ELSE "validate"]
    /\ UNCHANGED <<flow, granted, tree>>

\* validate_flow_operation_resource and verify_flow_project_root: a stored
\* operation that no longer fits, or a project root that is gone, fails the
\* request without a checkpoint.
ValidateFlow(w) ==
    /\ job[w].pc = "validate"
    /\ \E fits \in BOOLEAN :
         JobOnly(w, IF ~HasLease(w) THEN "stale" ELSE IF ~fits THEN "refuse"
                    ELSE IF job[w].run = NoRun THEN "create" ELSE "loop")

CreateCheckpoint(w) ==
    /\ job[w].pc = "create"
    /\ PersistUpdate(w, [job[w] EXCEPT !.run = FirstRun], "loop")

\* The head of the loop looks for a cancellation.
LoopHead(w) ==
    /\ job[w].pc = "loop"
    /\ JobOnly(w, IF RequestIsCancelled THEN "cancel" ELSE "decide")

\* next_decision and its save.
Decided(run) ==
    IF run.phase = "ready" /\ run.step > Len(Plan)
    THEN [run EXCEPT !.phase = IF run.failed THEN "unresolved" ELSE "solved"]
    ELSE IF run.phase \in {"ready", "retry"}
    THEN [run EXCEPT !.phase = "awaiting", !.attempt = @ + 1] ELSE run

AfterDecision(run) ==
    IF run.phase \in Outcomes THEN "finish"
    ELSE IF run.phase = "retry" THEN "wait" ELSE "evaluate"

NextDecision(w) ==
    /\ job[w].pc = "decide"
    /\ LET run == Decided(job[w].run)
       IN  \/ PersistReconciling(w, [job[w] EXCEPT !.run = run],
                                 IF run = job[w].run THEN AfterDecision(run)
                                 ELSE IF run.phase \in Outcomes THEN "finish" ELSE "loop")
           \/ /\ job[w].run.phase = "retry"
              /\ job[w].outcome # "due"       \* its time has not come
              /\ PersistReconciling(w, job[w], "wait")

\* renew_and_poll_cancellation: stale, cancelled, or still ours.
RenewAndPoll(w, pc) ==
    JobOnly(w, IF ~HasLease(w) THEN "stale"
               ELSE IF RequestIsCancelled THEN "cancel" ELSE pc)

\* wait_for_retry: the delay passes, or a heartbeat finds something.
WaitForRetry(w) ==
    /\ job[w].pc = "wait"
    /\ \/ /\ job' = [job EXCEPT ![w].pc = "loop", ![w].outcome = "due"]
          /\ UNCHANGED <<flow, granted, tree>>
       \/ (~HasLease(w) \/ RequestIsCancelled) /\ RenewAndPoll(w, "wait")

\* effect_boundary_authorization.
BoundaryPc(w, allowed) ==
    IF HasLease(w) /\ flow.state = "leased"
    THEN IF granted THEN allowed ELSE "deny"
    ELSE IF RequestIsCancelled THEN "cancel" ELSE "stale"

EvaluateEffect(w) ==
    /\ job[w].pc = "evaluate"
    /\ JobOnly(w, BoundaryPc(w, "start"))

\* deny_effect_authorization and its save.
DenyEffect(w) ==
    /\ job[w].pc = "deny"
    /\ PersistReconciling(w, [job[w] EXCEPT !.run.phase = "blocked"], "finish")

\* prepare_effect: the step's command or call, once its arguments are known
\* to be ones this daemon runs.
PreparedEffects(step) == {Plan[step], "rejected"}

\* verify_flow_project_root, prepare_effect and the durable EffectStarted; an
\* effect this daemon cannot run is started and failed.
StartEffect(w) ==
    /\ job[w].pc = "start"
    /\ \E prepared \in PreparedEffects(job[w].run.step) :
         PersistReconciling(w,
            [job[w] EXCEPT !.run.phase = "inflight", !.prepared = prepared,
                           !.outcome = IF prepared = "rejected" THEN "failed" ELSE "none",
                           !.held = granted /\ flow.state = "leased", !.dirty = FALSE],
            IF prepared = "rejected" THEN "record"
            ELSE IF prepared = "git" THEN "pin" ELSE "boundary")

\* workspace_fingerprint: the digest of every path git lists, of git's own
\* configuration and of what the files hold is the accepted one.
FingerprintMatches == tree = "accepted"

\* fingerprint_workspace under await_workspace_fingerprint_with_lease.
PinWorkspace(w) ==
    /\ job[w].pc = "pin"
    /\ \/ RenewAndPoll(w, "boundary") /\ FingerprintMatches
       \/ (~HasLease(w) \/ RequestIsCancelled) /\ RenewAndPoll(w, "boundary")
       \/ /\ HasLease(w) /\ ~RequestIsCancelled /\ ~FingerprintMatches
          /\ job' = [job EXCEPT ![w].pc = "record", ![w].outcome = "failed"]
          /\ UNCHANGED <<flow, granted, tree>>

\* An effect that trusts the check made before it was started.
SecondBoundarySkipped(w) ==
    /\ job[w].pc = "boundary"
    /\ JobOnly(w, "running")

\* The second look, "after the durable EffectStarted checkpoint but before
\* the operating-system spawn".
SecondBoundary(w) ==
    /\ job[w].pc = "boundary"
    /\ JobOnly(w, BoundaryPc(w, "running"))

\* What terminate_and_collect and the exit status make of a command that
\* ended by itself, and of one that was stopped or could not be started.
Exited == {"ok", "retryable"}
Stopped == {"retryable", "failed"}

\* execute_command_raw: the child exits, times out or overflows; a heartbeat
\* that finds the lease or the request gone kills the group.
ExecuteCommand(w) ==
    /\ job[w].pc = "running" /\ job[w].prepared = "git"
    /\ \/ \E outcome \in Exited :
             job' = [job EXCEPT ![w].pc = "recheck", ![w].outcome = outcome]
       \/ \E outcome \in Stopped :
             job' = [job EXCEPT ![w].pc = "record", ![w].outcome = outcome]
       \/ ~HasLease(w) /\ JobGoes(w, "stale")
       \/ HasLease(w) /\ RequestIsCancelled /\ JobGoes(w, "cancel")
    /\ UNCHANGED <<flow, granted, tree>>

\* run_connector_call: an answer, an error worth another attempt, or a final
\* one.
CallOutcomes == {"ok", "retryable", "failed"}

\* execute_connector_step: not configured, called and answered, or
\* interrupted by the heartbeat.
ExecuteConnectorStep(w) ==
    /\ job[w].pc = "running" /\ job[w].prepared = "connector"
    /\ \/ \E outcome \in CallOutcomes :
             job' = [job EXCEPT ![w].pc = "record", ![w].outcome = outcome]
       \/ ~HasLease(w) /\ JobGoes(w, "stale")
       \/ HasLease(w) /\ RequestIsCancelled /\ JobGoes(w, "cancel")
    /\ UNCHANGED <<flow, granted, tree>>

\* A result taken without a second fingerprint.
RecheckSkipped(w) ==
    /\ job[w].pc = "recheck"
    /\ RenewAndPoll(w, "record")

\* execute_command_in_workspace fingerprints again once the command is done.
RecheckWorkspace(w) ==
    /\ job[w].pc = "recheck"
    /\ \/ (FingerprintMatches \/ ~HasLease(w) \/ RequestIsCancelled) /\ RenewAndPoll(w, "record")
       \/ /\ HasLease(w) /\ ~RequestIsCancelled /\ ~FingerprintMatches
          /\ job' = [job EXCEPT ![w].pc = "record", ![w].outcome = "failed"]
          /\ UNCHANGED <<flow, granted, tree>>

\* record_effect_result and its save.
ResultRecorded(run, outcome) ==
    IF outcome = "retryable" /\ run.attempt < MaxAttempts
    THEN [run EXCEPT !.phase = "retry"]
    ELSE [run EXCEPT !.phase = "ready", !.step = @ + 1, !.attempt = 0,
                     !.failed = @ \/ outcome # "ok"]

RecordResult(w) ==
    /\ job[w].pc = "record"
    /\ PersistReconciling(w,
         [job[w] EXCEPT !.run = ResultRecorded(job[w].run, job[w].outcome),
                        !.prepared = "none", !.outcome = "none", !.held = FALSE,
                        !.dirty = FALSE], "loop")

----------------------------------------------------------------------------
(* process_leased after process_flow.                                      *)

\* finish_terminal_flow with the cached result, or finish with a failure; a
\* request cancelled meanwhile keeps its own result.
FinishFlow(w) ==
    LET own == job[w].pc = "finish"
        clash == own /\ RequestIsCancelled /\ job[w].run.phase # "cancelled"
        settled == HasLease(w) /\ ~clash
    IN  /\ job[w].pc \in {"finish", "refuse"}
        /\ JobGoes(w, IF ~HasLease(w) THEN "stale" ELSE IF clash THEN "error" ELSE "done")
        /\ flow' = IF ~settled THEN flow
                   ELSE [flow EXCEPT !.live = FALSE, !.state =
                           IF own THEN SettledAs(job[w].run)
                           ELSE IF RequestIsCancelled THEN "cancelled" ELSE "failed"]
        /\ UNCHANGED <<granted, tree>>

JobStep(w) ==
    \/ LoadFlowCheckpoint(w) \/ ValidateFlow(w) \/ CreateCheckpoint(w)
    \/ LoopHead(w) \/ NextDecision(w) \/ WaitForRetry(w)
    \/ EvaluateEffect(w) \/ DenyEffect(w) \/ StartEffect(w) \/ PinWorkspace(w)
    \/ SecondBoundary(w) \/ ExecuteCommand(w) \/ ExecuteConnectorStep(w)
    \/ RecheckWorkspace(w) \/ RecordResult(w)
    \/ Reconcile(w) \/ CancelRun(w) \/ FinishFlow(w)

FlowNext ==
    \/ ClaimFlow \/ LeaseExpires \/ RecoverFlow \/ DaemonRestarts
    \/ CancelFlow \/ RevokeGrant \/ EditTree
    \/ \E w \in Jobs : JobStep(w)

\* The scheduler claims and recovers on a timer, and a spawned worker is
\* polled until it ends.  A command or a connector call ends within its
\* timeout, which is a JobStep; what happens around the run need not.
FlowFairness ==
    /\ WF_flowVars(ClaimFlow)
    /\ WF_flowVars(RecoverFlow)
    /\ \A w \in Jobs : WF_flowVars(JobStep(w))

FlowSpec == FlowInit /\ [][FlowNext]_flowVars /\ FlowFairness

----------------------------------------------------------------------------

\* "... instead of surfacing the expected race as a scheduler-fatal error":
\* a worker whose lease is intact never ends in an error, whichever of its
\* saves a cancellation overtakes and whatever an older worker still does.
CancellationIsNoError ==
    \A w \in Jobs : job[w].pc = "error" => ~HasLease(w)

\* No command and no connector call starts when its grant was revoked, or
\* the request cancelled, between the durable EffectStarted and the last
\* look before the spawn.
RunsOnlyWhileHeld ==
    \A w \in Jobs : job[w].pc = "running" => job[w].held

\* A command that succeeded in a workspace edited while it ran is never
\* recorded as a success: the tree is compared again after it.
SuccessOnAcceptedTree ==
    \A w \in Jobs :
        job[w].pc = "record" /\ job[w].outcome = "ok" => ~(job[w].prepared = "git" /\ job[w].dirty)

\* A worker acts only on what still holds: its grant and request when an
\* effect starts, and the accepted tree when one is recorded (PreparedEffects,
\* recheck of the workspace).
FlowKeepsItsClaims == RunsOnlyWhileHeld /\ SuccessOnAcceptedTree
=============================================================================
