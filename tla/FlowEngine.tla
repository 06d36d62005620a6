----------------------------- MODULE FlowEngine -----------------------------
(***************************************************************************)
(* The flow engine of pam_flow/src/engine.rs driven by one worker: the     *)
(* scheduler over a definition, approvals, effects with retries,           *)
(* reconciliation and cancellation, together with the three validators     *)
(* that guard a snapshot: the one the store runs on every save, the one a  *)
(* resume runs, and the one every decoder of a terminal result runs.       *)
(*                                                                         *)
(* The worker persists every update before it acts on it, so the snapshot  *)
(* is both the stored one and the one in memory; a rejected save drops the *)
(* run, which the next lease resumes from what is stored.  Reports,        *)
(* evidence, digests, tokens and the transition sequence are left out: an  *)
(* approval is its state, a result its kind.  Time is left out: a retry    *)
(* may become due at any moment.                                           *)
(***************************************************************************)
EXTENDS Naturals, Sequences

CONSTANTS
    NumSteps,      \* the number of steps of a definition
    MaxAttempts,   \* bound on a step's max_attempts
    MaxCrashes     \* bound on the crashes of the worker

ASSUME EngineAssumption ==
    NumSteps \in Nat \ {0} /\ MaxAttempts \in Nat \ {0} /\ MaxCrashes \in Nat

VARIABLES
    def,        \* the definition of the run, in declaration order
    snap,       \* the snapshot: status, cancel_requested and the steps
    issued,     \* issued_attempt: the step whose effect this worker executes, or 0
    performed,  \* whether the executor has carried out the issued effect
    applied,    \* the world: how often each attempt of a stateful step was applied
    rejected,   \* the first transition the store refused, or NoTransition
    crashes     \* the number of crashes so far

vars == <<def, snap, issued, performed, applied, rejected, crashes>>

-----------------------------------------------------------------------------
Steps == 1 .. NumSteps
Attempts == 1 .. MaxAttempts

Conditions == ({"succeeded", "failed"} \X Steps) \cup {<<"always", 0>>}
StepDefinition == [deps: SUBSET Steps, cond: Conditions, max: Attempts,
                   approval: {"none", "required"}, effect: {"read_only", "stateful"}]

\* The steps a step refers to: its dependencies and the one its condition names.
Refs(d, i) == d[i].deps \cup ({d[i].cond[2]} \ {0})

Acyclic(d) ==
    \E rank \in [Steps -> Steps] : \A i \in Steps : \A j \in Refs(d, i) : rank[j] < rank[i]

\* Mutant: a stateful step may go without approval.
ValidDefinitionUnapproved(d) == Acyclic(d)

\* validate: no reference to itself, no cycle, and a stateful step needs approval.
ValidDefinition(d) ==
    /\ Acyclic(d)
    /\ \A i \in Steps : d[i].effect = "stateful" => d[i].approval = "required"

Definitions == {d \in [Steps -> StepDefinition] : ValidDefinition(d)}

ResultKinds == {"succeeded", "failed", "failed_retryable"}
ActiveStates == {"awaiting_effect", "in_flight", "waiting_retry"}
EndStates == {"succeeded", "skipped", "failed", "blocked", "cancelled"}
StepStates == {"pending"} \cup ActiveStates \cup EndStates
Approvals == {"not_required", "not_requested", "pending", "granted", "denied"}
EndStatuses == {"succeeded", "unresolved", "blocked", "cancelled"}
Statuses == {"running", "waiting_approval", "waiting_retry", "awaiting_effect_evaluation",
             "effect_in_flight", "cancelling"} \cup EndStatuses

StepSnapshot == [approval: Approvals, state: StepStates, attempt: 0 .. MaxAttempts,
                 results: UNION {[1 .. n -> ResultKinds] : n \in 0 .. MaxAttempts},
                 report: BOOLEAN]
Snapshot == [status: Statuses, cancel: BOOLEAN, steps: [Steps -> StepSnapshot]]

TransitionKinds == {"none", "step_skipped", "approval_requested", "approval_granted",
    "approval_denied", "effect_evaluation_required", "effect_authorization_denied",
    "effect_started", "effect_succeeded", "retry_scheduled", "retry_exhausted",
    "effect_failed", "reconciled_not_applied", "reconciliation_unknown",
    "cancellation_requested", "run_completed"}
Transition == [kind: TransitionKinds, step: Steps \cup {0}, attempt: 0 .. MaxAttempts]
T(kind, i, a) == [kind |-> kind, step |-> i, attempt |-> a]
NoTransition == T("none", 0, 0)

Ended(s) == s.status \in EndStatuses
StepEnded(s, i) == s.steps[i].state \in EndStates
InState(s, state) == \E i \in Steps : s.steps[i].state = state
PendingApproval(s) == \E i \in Steps : s.steps[i].approval = "pending"

\* Replacing one step, and the status with it.
With(s, i, step, status) == [s EXCEPT !.steps[i] = step, !.status = status]
ToState(st, state, a) == [st EXCEPT !.state = state, !.attempt = a]
WithResult(st, state, a, kind) ==
    [st EXCEPT !.state = state, !.attempt = a, !.results = Append(@, kind)]
Block(st) == [st EXCEPT !.state = "blocked", !.attempt = 0, !.report = TRUE]

AllCancelled(s) ==
    [s EXCEPT !.status = "cancelled", !.cancel = TRUE,
              !.steps = [i \in Steps |->
                 LET st == s.steps[i] IN
                 [st EXCEPT !.state = IF StepEnded(s, i) THEN @ ELSE "cancelled",
                            !.attempt = IF StepEnded(s, i) THEN @ ELSE 0,
                            !.approval = IF @ = "pending" THEN "not_requested" ELSE @]]]

-----------------------------------------------------------------------------
\* What a step must look like whatever the definition says; the last conjunct is
\* the retry history: every result but a final one is a retryable failure.
\* fewer tells whether a step may have failed before its attempts ran out.
ApprovalShape(st) ==
    /\ st.approval \in {"not_requested", "pending"} =>
         /\ st.state = "pending" \/ (st.state = "cancelled" /\ st.approval = "not_requested")
         /\ st.results = <<>> /\ ~st.report
    /\ st.approval = "denied" => st.state = "blocked" /\ st.report

LastResult(st) == IF st.results = <<>> THEN "none" ELSE st.results[Len(st.results)]

RetryHistory(st, final) ==
    \A k \in 1 .. Len(st.results) :
        (final /\ k = Len(st.results)) \/ st.results[k] = "failed_retryable"

StepShape(st, max, final, fewer) ==
    LET n == Len(st.results) IN
    /\ st.state \in {"pending", "skipped"} => n = 0 /\ ~st.report
    /\ st.state \in ActiveStates => st.attempt = n + 1 /\ st.attempt <= max
    /\ st.state = "waiting_retry" => n > 0
    /\ st.state \in {"succeeded", "failed"} => st.attempt = n /\ n > 0
    /\ st.state = "succeeded" => LastResult(st) = "succeeded"
    /\ st.state = "failed" =>
         LastResult(st) = "failed" \/ (LastResult(st) = "failed_retryable" /\ (fewer \/ n = max))
    /\ st.state = "blocked" => st.report
    /\ st.state = "cancelled" => ~st.report
    /\ RetryHistory(st, st.state \in final)

\* computed_status: the status the steps imply.  Two statuses are kept as they
\* are when the steps alone cannot tell.
ComputedStatus(s) ==
    IF s.cancel THEN IF s.status \in {"blocked", "cancelled"} THEN s.status ELSE "cancelling"
    ELSE IF InState(s, "blocked") THEN "blocked"
    ELSE IF PendingApproval(s) THEN "waiting_approval"
    ELSE IF InState(s, "waiting_retry") THEN "waiting_retry"
    ELSE IF InState(s, "awaiting_effect") THEN "awaiting_effect_evaluation"
    ELSE IF InState(s, "in_flight") THEN "effect_in_flight"
    ELSE IF s.status = "running" \/ \E i \in Steps : ~StepEnded(s, i) THEN "running"
    ELSE IF InState(s, "failed") THEN "unresolved" ELSE "succeeded"

OneActive(s) ==
    \A i, j \in Steps :
        /\ s.steps[i].state \in ActiveStates \/ s.steps[i].approval = "pending"
        /\ s.steps[j].state \in ActiveStates \/ s.steps[j].approval = "pending"
        => i = j

StatusShape(s) ==
    /\ OneActive(s)
    /\ ComputedStatus(s) = s.status
    /\ s.status = "cancelled" => \A i \in Steps : StepEnded(s, i)

\* validate_standalone_snapshot: what the store requires of every snapshot.
Standalone(s) ==
    /\ \A i \in Steps :
         /\ ApprovalShape(s.steps[i])
         /\ StepShape(s.steps[i], MaxAttempts, {"succeeded", "failed"}, TRUE)
         /\ s.steps[i].state \in ActiveStates => ~s.steps[i].report
         /\ s.steps[i].state \in {"succeeded", "failed"} => ~s.steps[i].report
    /\ StatusShape(s)

\* The conditions of a step, over a snapshot.
PrerequisitesComplete(s, i) == \A j \in Refs(def, i) : StepEnded(s, j)

ConditionTrue(s, i) ==
    \A j \in {def[i].cond[2]} \ {0} : s.steps[j].state = def[i].cond[1]

\* validate_snapshot: what a resume requires, given the definition.
ResumeValid(s) ==
    /\ \A i \in Steps :
         LET st == s.steps[i] IN
         /\ Len(st.results) <= def[i].max
         /\ def[i].approval = "none" <=> st.approval = "not_required"
         /\ ApprovalShape(st)
         /\ StepShape(st, def[i].max, {"succeeded", "failed", "cancelled"}, s.cancel)
         /\ st.state = "cancelled" => s.cancel
         /\ st.state # "cancelled" /\ (st.state # "pending" \/ st.approval \in {"pending", "granted"}) =>
              /\ PrerequisitesComplete(s, i)
              /\ st.state = "skipped" <=> ~ConditionTrue(s, i)
    /\ StatusShape(s)

\* validate_transition_successor: the candidate is what the transition makes of
\* the previous snapshot, field for field.
FromFlight(p, t) ==
    /\ p.status \in {"effect_in_flight", "cancelling"}
    /\ p.steps[t.step].state = "in_flight" /\ p.steps[t.step].attempt = t.attempt

AfterResult(p) == IF p.cancel THEN "cancelling" ELSE "running"

\* What the arms of validate_transition_successor have in common: the step of
\* the transition is to become step, the run's status status, and nothing else
\* changes.
To(p, c, t, step, status) == c = With(p, t.step, step, status)

Approvable(st) == st.approval \in {"not_required", "granted"}

Scheduling(p, t) == ~p.cancel /\ p.status = "running" /\ p.steps[t.step].state = "pending"

Evaluating(p, t) ==
    /\ p.status = "awaiting_effect_evaluation"
    /\ p.steps[t.step].state = "awaiting_effect" /\ p.steps[t.step].attempt = t.attempt

Flying(p, t) ==
    /\ p.status = "effect_in_flight"
    /\ p.steps[t.step].state = "in_flight" /\ p.steps[t.step].attempt = t.attempt

\* A skip and the three transitions of an approval.
ApprovalSuccessor(p, c, t) ==
    LET st == p.steps[t.step]
        Deciding == ~p.cancel /\ p.status = "waiting_approval" /\ st.approval = "pending"
    IN
    \/ t.kind = "step_skipped" /\ Scheduling(p, t) /\ Approvable(st)
       /\ To(p, c, t, ToState(st, "skipped", 0), "running")
    \/ t.kind = "approval_requested" /\ Scheduling(p, t) /\ st.approval = "not_requested"
       /\ To(p, c, t, [st EXCEPT !.approval = "pending"], "waiting_approval")
    \/ t.kind = "approval_granted" /\ Deciding
       /\ To(p, c, t, [st EXCEPT !.approval = "granted"], "running")
    \/ t.kind = "approval_denied" /\ Deciding
       /\ To(p, c, t, [Block(st) EXCEPT !.approval = "denied"], "blocked")

\* The transitions up to the start of an effect.
EffectSuccessor(p, c, t) ==
    LET st == p.steps[t.step] IN
    \/ /\ t.kind = "effect_evaluation_required" /\ ~p.cancel
       /\ \/ Scheduling(p, t) /\ Approvable(st) /\ t.attempt = 1
          \/ p.status = "waiting_retry" /\ st.state = "waiting_retry" /\ st.attempt = t.attempt
       /\ To(p, c, t, ToState(st, "awaiting_effect", t.attempt), "awaiting_effect_evaluation")
    \/ t.kind = "effect_authorization_denied" /\ ~p.cancel /\ (Evaluating(p, t) \/ Flying(p, t))
       /\ To(p, c, t, Block(st), "blocked")
    \/ t.kind = "effect_started" /\ ~p.cancel /\ (Evaluating(p, t) \/ Flying(p, t))
       /\ To(p, c, t, ToState(st, "in_flight", t.attempt), "effect_in_flight")

\* The transitions that end an effect in flight.
ResultSuccessor(p, c, t) ==
    LET st == p.steps[t.step] IN
    \/ t.kind = "effect_succeeded" /\ FromFlight(p, t)
       /\ To(p, c, t, WithResult(st, "succeeded", t.attempt, "succeeded"), AfterResult(p))
    \/ /\ t.kind = "retry_scheduled" /\ ~p.cancel /\ FromFlight(p, [t EXCEPT !.attempt = @ - 1])
       /\ To(p, c, t, WithResult(st, "waiting_retry", t.attempt, "failed_retryable"), "waiting_retry")
    \/ t.kind = "retry_exhausted" /\ ~p.cancel /\ FromFlight(p, t)
       /\ To(p, c, t, WithResult(st, "failed", t.attempt, "failed_retryable"), "running")
    \/ /\ t.kind = "effect_failed" /\ FromFlight(p, t)
       /\ \E kind \in {"failed"} \cup (IF p.cancel THEN {"failed_retryable"} ELSE {}) :
            To(p, c, t, WithResult(st, "failed", t.attempt, kind), AfterResult(p))
    \/ t.kind = "reconciled_not_applied" /\ ~p.cancel /\ Flying(p, t)
       /\ To(p, c, t, ToState(st, "awaiting_effect", t.attempt), "awaiting_effect_evaluation")
    \/ t.kind = "reconciliation_unknown" /\ FromFlight(p, t) /\ To(p, c, t, Block(st), "blocked")

\* The transitions of the run as a whole.
RunSuccessor(p, c, t) ==
    LET Whole(bad) == /\ ~p.cancel /\ p.status = "running"
                      /\ \A j \in Steps : StepEnded(p, j) /\ p.steps[j].state \notin bad
    IN
    \/ /\ t.kind = "cancellation_requested"
       /\ ~p.cancel /\ p.status = "effect_in_flight" /\ InState(p, "in_flight")
       /\ c = [p EXCEPT !.cancel = TRUE, !.status = "cancelling"]
    \/ /\ t.kind = "run_completed"
       /\ \/ Whole({"failed", "blocked", "cancelled"}) /\ c = [p EXCEPT !.status = "succeeded"]
          \/ /\ Whole({"blocked", "cancelled"}) /\ InState(p, "failed")
             /\ c = [p EXCEPT !.status = "unresolved"]
          \/ ~Ended(p) /\ c = AllCancelled(p)

Successor(p, c, t) ==
    IF t.step = 0 THEN RunSuccessor(p, c, t)
    ELSE ApprovalSuccessor(p, c, t) \/ EffectSuccessor(p, c, t) \/ ResultSuccessor(p, c, t)

\* validate_terminal_steps: what every decoder of a terminal result requires; a
\* step's result is the last one it recorded.
ResultValid(s) ==
    /\ \A i \in Steps :
         LET st == s.steps[i] IN
         /\ st.state = "succeeded" => LastResult(st) = "succeeded" /\ ~st.report
         /\ st.state = "failed" => LastResult(st) \in {"failed", "failed_retryable"} /\ ~st.report
         /\ st.state = "blocked" => st.results = <<>> /\ st.report
         /\ st.state = "cancelled" => ~st.report /\ LastResult(st) # "succeeded"
         /\ st.state \notin {"succeeded", "failed", "blocked", "cancelled"} =>
              st.results = <<>> /\ ~st.report
    /\ s.status = "succeeded" => \A i \in Steps : s.steps[i].state \in {"succeeded", "skipped"}
    /\ s.status = "unresolved" =>
         /\ InState(s, "failed")
         /\ \A i \in Steps : StepEnded(s, i) /\ s.steps[i].state \notin {"blocked", "cancelled"}
    /\ s.status = "blocked" => InState(s, "blocked") /\ ~InState(s, "cancelled")
    /\ s.status = "cancelled" => \A i \in Steps : StepEnded(s, i) /\ s.steps[i].state # "blocked"

\* One section of the outcome report: whether it is satisfied, and the steps it
\* names.
OutcomeSection(satisfied, steps) == [satisfied |-> satisfied, steps |-> steps]

\* As a bug would have it: what was started counts as changed.
OutcomeReportStarted(s, verify) ==
    LET In(state) == {i \in Steps : s.steps[i].state = state}
        solved == s.status = "succeeded"
        changed == {i \in Steps : s.steps[i].state # "skipped" /\ def[i].effect = "stateful"}
    IN  [solved |-> OutcomeSection(solved, IF solved THEN In("succeeded") ELSE {}),
         changed |-> OutcomeSection(changed # {}, changed),
         verified |-> OutcomeSection(In("succeeded") \cap verify # {}, In("succeeded") \cap verify),
         unresolved |-> OutcomeSection(s.status = "unresolved", In("failed")),
         blocked |-> OutcomeSection(s.status = "blocked", In("blocked"))]

\* build_outcome_report, and what validate_outcome_report compares it with: the
\* stateful steps are the ones whose role is Change, and verify is the set of
\* the read-only ones whose role is Verify.
OutcomeReport(s, verify) ==
    LET In(state) == {i \in Steps : s.steps[i].state = state}
        solved == s.status = "succeeded"
        changed == {i \in In("succeeded") : def[i].effect = "stateful"}
    IN  [solved |-> OutcomeSection(solved, IF solved THEN In("succeeded") ELSE {}),
         changed |-> OutcomeSection(changed # {}, changed),
         verified |-> OutcomeSection(In("succeeded") \cap verify # {}, In("succeeded") \cap verify),
         unresolved |-> OutcomeSection(s.status = "unresolved", In("failed")),
         blocked |-> OutcomeSection(s.status = "blocked", In("blocked"))]

-----------------------------------------------------------------------------
Init ==
    /\ def \in Definitions
    /\ snap = [status |-> "running", cancel |-> FALSE,
               steps |-> [i \in Steps |->
                 [approval |-> IF def[i].approval = "none" THEN "not_required" ELSE "not_requested",
                  state |-> "pending", attempt |-> 0, results |-> <<>>, report |-> FALSE]]]
    /\ issued = 0 /\ performed = FALSE
    /\ applied = [i \in Steps |-> [a \in Attempts |-> 0]]
    /\ rejected = NoTransition
    /\ crashes = 0

\* Persisting an update.  i is the attempt the worker executes from here on.
Save(c, t, i) ==
    /\ IF Standalone(c) /\ Successor(snap, c, t)
       THEN snap' = c /\ issued' = i /\ UNCHANGED rejected
       ELSE /\ issued' = 0
            /\ rejected' = IF rejected = NoTransition THEN t ELSE rejected
            /\ UNCHANGED snap
    /\ performed' = (performed /\ issued' = issued)
    /\ UNCHANGED <<def, applied, crashes>>

\* next_decision: the first ready step in declaration order, once nothing is active.
Idle == ~Ended(snap) /\ ~snap.cancel /\ \A i \in Steps : snap.steps[i].state \notin ActiveStates

Ready(i) == snap.steps[i].state = "pending" /\ PrerequisitesComplete(snap, i)

NextStep(i) == Idle /\ Ready(i) /\ \A j \in Steps : j < i => ~Ready(j)

SkipStep(i) ==
    /\ NextStep(i) /\ ~ConditionTrue(snap, i)
    /\ Save(With(snap, i, ToState(snap.steps[i], "skipped", 0), snap.status),
            T("step_skipped", i, 0), issued)

RequestApproval(i) ==
    /\ NextStep(i) /\ ConditionTrue(snap, i) /\ snap.steps[i].approval = "not_requested"
    /\ Save(With(snap, i, [snap.steps[i] EXCEPT !.approval = "pending"], "waiting_approval"),
            T("approval_requested", i, 0), issued)

EvaluateEffect(i, a) ==
    Save(With(snap, i, ToState(snap.steps[i], "awaiting_effect", a), "awaiting_effect_evaluation"),
         T("effect_evaluation_required", i, a), issued)

ScheduleStep(i) ==
    /\ NextStep(i) /\ ConditionTrue(snap, i)
    /\ snap.steps[i].approval \in {"not_required", "granted"}
    /\ EvaluateEffect(i, 1)

RetryDue(i) ==
    /\ ~Ended(snap) /\ ~snap.cancel /\ snap.steps[i].state = "waiting_retry"
    /\ EvaluateEffect(i, snap.steps[i].attempt)

CompleteRun ==
    /\ Idle /\ \A i \in Steps : StepEnded(snap, i)
    /\ Save([snap EXCEPT !.status = IF InState(snap, "failed") THEN "unresolved" ELSE "succeeded"],
            T("run_completed", 0, 0), issued)

FinishCancelled == Save(AllCancelled(snap), T("run_completed", 0, 0), 0)

\* Mutant: a cancelled run only finishes once nothing is left to cancel.
FinishCancellingWaiting ==
    snap.cancel /\ ~Ended(snap) /\ (\A i \in Steps : StepEnded(snap, i)) /\ FinishCancelled

FinishCancelling == snap.cancel /\ ~Ended(snap) /\ ~InState(snap, "in_flight") /\ FinishCancelled

-----------------------------------------------------------------------------
ResolveApproval(i, granted) ==
    LET st == snap.steps[i] IN
    /\ st.approval = "pending"
    /\ IF granted
       THEN Save(With(snap, i, [st EXCEPT !.approval = "granted"], "running"),
                 T("approval_granted", i, 0), issued)
       ELSE Save(With(snap, i, [Block(st) EXCEPT !.approval = "denied"], "blocked"),
                 T("approval_denied", i, 0), issued)

\* Mutant: an effect an earlier worker left in flight is replayed whatever its kind.
EvaluableAnyEffect(i) ==
    /\ ~snap.cancel
    /\ snap.steps[i].state \in {"awaiting_effect", "in_flight"} /\ issued # i

\* A decision to evaluate an effect: it is awaited, or it is a read-only one that
\* an earlier worker left in flight.
Evaluable(i) ==
    /\ ~snap.cancel
    /\ \/ snap.steps[i].state = "awaiting_effect"
       \/ snap.steps[i].state = "in_flight" /\ def[i].effect = "read_only" /\ issued # i

PrepareEffect(i) ==
    LET a == snap.steps[i].attempt IN
    /\ Evaluable(i)
    /\ Save(With(snap, i, ToState(snap.steps[i], "in_flight", a), "effect_in_flight"),
            T("effect_started", i, a), i)

DenyEffectAuthorization(i) ==
    /\ Evaluable(i)
    /\ Save(With(snap, i, Block(snap.steps[i]), "blocked"),
            T("effect_authorization_denied", i, snap.steps[i].attempt), 0)

\* Mutant: the retry bound is off by one.
RecordEffectResultOnceMore(i, kind) ==
    LET st == snap.steps[i] IN
    /\ st.state = "in_flight"
    /\ IF kind = "failed_retryable" /\ ~snap.cancel /\ st.attempt <= def[i].max
       THEN Save(With(snap, i, WithResult(st, "waiting_retry", st.attempt + 1, kind), "waiting_retry"),
                 T("retry_scheduled", i, st.attempt + 1), 0)
       ELSE Save(With(snap, i, WithResult(st, "failed", st.attempt, kind), AfterResult(snap)),
                 T("effect_failed", i, st.attempt), 0)

\* Mutant: a retry is scheduled although the run is being cancelled.
RecordEffectResultRetrying(i, kind) ==
    LET st == snap.steps[i] IN
    /\ st.state = "in_flight"
    /\ IF kind = "failed_retryable" /\ st.attempt < def[i].max
       THEN Save(With(snap, i, WithResult(st, "waiting_retry", st.attempt + 1, kind), "waiting_retry"),
                 T("retry_scheduled", i, st.attempt + 1), 0)
       ELSE Save(With(snap, i, WithResult(st, "failed", st.attempt, kind), AfterResult(snap)),
                 T("effect_failed", i, st.attempt), 0)

\* retry_schedule: whether another attempt follows; its backoff is left out.
RetrySchedule(i, kind) ==
    kind = "failed_retryable" /\ ~snap.cancel /\ snap.steps[i].attempt < def[i].max

RecordEffectResult(i, kind) ==
    LET st == snap.steps[i]
        a == st.attempt
        exhausted == kind = "failed_retryable" /\ ~snap.cancel
    IN
    /\ st.state = "in_flight"
    /\ IF kind = "succeeded"
       THEN Save(With(snap, i, WithResult(st, kind, a, kind), AfterResult(snap)),
                 T("effect_succeeded", i, a), 0)
       ELSE IF RetrySchedule(i, kind)
       THEN Save(With(snap, i, WithResult(st, "waiting_retry", a + 1, kind), "waiting_retry"),
                 T("retry_scheduled", i, a + 1), 0)
       ELSE Save(With(snap, i, WithResult(st, "failed", a, kind), AfterResult(snap)),
                 T(IF exhausted THEN "retry_exhausted" ELSE "effect_failed", i, a), 0)

\* The executor, outside the engine: it applies the effect, and reports what it
\* saw; a stateful effect succeeds only if it was applied.
Perform(i) ==
    /\ issued = i /\ snap.steps[i].state = "in_flight" /\ ~performed
    /\ performed' = TRUE
    /\ applied' = IF def[i].effect = "stateful"
                  THEN [applied EXCEPT ![i][snap.steps[i].attempt] = @ + 1] ELSE applied
    /\ UNCHANGED <<def, snap, issued, rejected, crashes>>

ReportResult(i, kind) ==
    issued = i /\ (kind = "succeeded" => performed) /\ RecordEffectResult(i, kind)

\* Reconciliation of a stateful effect in flight: another worker started it, or
\* it is being cancelled.  It tells the truth about the world, or nothing.  A
\* timeout makes the executing worker report an unknown outcome too.
Uncertain(i) ==
    /\ def[i].effect = "stateful" /\ snap.steps[i].state = "in_flight"
    /\ snap.cancel \/ issued # i

ReconcileCompleted(i, kind) ==
    /\ Uncertain(i) /\ (kind = "succeeded" => applied[i][snap.steps[i].attempt] > 0)
    /\ RecordEffectResult(i, kind)

ReconcileNotApplied(i) ==
    LET st == snap.steps[i] IN
    /\ Uncertain(i) /\ applied[i][st.attempt] = 0
    /\ IF snap.cancel THEN FinishCancelled
       ELSE Save(With(snap, i, ToState(st, "awaiting_effect", st.attempt),
                      "awaiting_effect_evaluation"),
                 T("reconciled_not_applied", i, st.attempt), issued)

ReconcileUnknown(i) ==
    /\ def[i].effect = "stateful" /\ snap.steps[i].state = "in_flight"
    /\ Save(With(snap, i, Block(snap.steps[i]), "blocked"),
            T("reconciliation_unknown", i, snap.steps[i].attempt), issued)

\* Mutant: cancelling abandons a stateful effect in flight like a read-only one.
CancelAbandoning == ~Ended(snap) /\ FinishCancelled

Cancel ==
    /\ ~Ended(snap)
    /\ IF \E i \in Steps : snap.steps[i].state = "in_flight" /\ def[i].effect = "stateful"
       THEN /\ ~snap.cancel
            /\ Save([snap EXCEPT !.cancel = TRUE, !.status = "cancelling"],
                    T("cancellation_requested", 0, 0), issued)
       ELSE FinishCancelled

\* The worker is lost and another resumes the run: what it executed is forgotten.
Crash ==
    /\ issued # 0 /\ crashes < MaxCrashes
    /\ crashes' = crashes + 1
    /\ issued' = 0 /\ performed' = FALSE
    /\ UNCHANGED <<def, snap, applied, rejected>>

Work ==
    \/ CompleteRun
    \/ FinishCancelling
    \/ \E i \in Steps :
         \/ SkipStep(i) \/ RequestApproval(i) \/ ScheduleStep(i) \/ RetryDue(i)
         \/ PrepareEffect(i) \/ DenyEffectAuthorization(i)
         \/ ReconcileNotApplied(i) \/ ReconcileUnknown(i)
         \/ \E kind \in ResultKinds : ReportResult(i, kind) \/ ReconcileCompleted(i, kind)

Next ==
    \/ Work
    \/ \E i \in Steps : Perform(i) \/ \E granted \in BOOLEAN : ResolveApproval(i, granted)
    \/ Cancel
    \/ Crash

\* The worker's loop keeps going, and its executor always answers or times out.
\* Nothing is assumed of approvals.
Spec == Init /\ [][Next]_vars /\ WF_vars(Work)

-----------------------------------------------------------------------------
(***************************************************************************)
(* Properties.                                                             *)
(***************************************************************************)

\* The store accepts every update the engine emits: validate_snapshot_successor is
\* documented as the exact shape of what FlowRun does.
StoreAcceptsUpdates == rejected = NoTransition

\* The one update of the engine that the store refuses is the skip of a step whose
\* approval has not been requested; every other one, whatever the interleaving of
\* cancellation, retries, crashes and reconciliation, passes both validators.
OnlySkipsRefused ==
    rejected # NoTransition =>
        rejected.kind = "step_skipped" /\ snap.steps[rejected.step].approval = "not_requested"

\* Whatever is stored, a new worker's resume accepts it, although save and resume
\* validate independently: a crash at any point leaves a run that can be continued.
ResumeSucceeds == ResumeValid(snap)

\* prepare_effect and record_reconciliation: one attempt of a stateful step is
\* applied at most once, whatever crashes between its start and its result.
AppliedOncePerAttempt == \A i \in Steps : \A a \in Attempts : applied[i][a] <= 1

\* A run that ends accounts for all it did: every application of a stateful effect
\* has its attempt's result recorded, or its step is reported as blocked.
NoUnrecordedEffect ==
    Ended(snap) =>
        \A i \in Steps : \A a \in Attempts :
            applied[i][a] > 0 => a <= Len(snap.steps[i].results) \/ snap.steps[i].state = "blocked"

\* No stateful effect reaches the world before its step's approval was granted.
NoEffectWithoutApproval ==
    \A i \in Steps : \A a \in Attempts : applied[i][a] > 0 => snap.steps[i].approval = "granted"

\* The result of every ended run survives its own encoding and decoding.
ResultDecodes == Ended(snap) => ResultValid(snap)

\* The report of a run that ended is true of the world: a step it names as a
\* change was applied by its last attempt; a solved run left no step undone and
\* an unresolved or blocked one names the steps to blame; and a stateful effect
\* that was applied is named somewhere, unless its step was cancelled while it
\* waited to try again (build_outcome_report).
ReportIsTrue ==
    Ended(snap) =>
        \A verify \in SUBSET {i \in Steps : def[i].effect = "read_only"} :
            LET r == OutcomeReport(snap, verify)
                named == r.changed.steps \cup r.unresolved.steps \cup r.blocked.steps
            IN  /\ \A i \in r.changed.steps : \E a \in Attempts : a = snap.steps[i].attempt /\ applied[i][a] > 0
                /\ r.solved.satisfied => r.unresolved.steps \cup r.blocked.steps = {}
                /\ r.unresolved.satisfied => r.unresolved.steps # {}
                /\ r.blocked.satisfied <=> r.blocked.steps # {}
                /\ \A i \in Steps : (\E a \in Attempts : applied[i][a] > 0) =>
                      i \in named \/ snap.steps[i].state = "cancelled"

\* Every run ends, unless it waits for an approval nobody gives or the store
\* refuses it: no retry, crash or reconciliation goes on for ever.
RunEnds ==
    <>(Ended(snap) \/ rejected # NoTransition \/ [](snap.status = "waiting_approval"))

\* What the engine writes is accepted wherever it is checked: snapshots and
\* transitions are well formed, the store's successor check refuses no update
\* but a skip, and a later worker can resume from any snapshot
\* (validate_snapshot_successor, resume).
WritesAreAccepted == snap \in Snapshot /\ rejected \in Transition /\ OnlySkipsRefused /\ ResumeSucceeds

\* The world and the record agree on what was applied: no attempt twice, and
\* nothing without a trace (prepare_effect, record_reconciliation, cancel).
EffectsAreAccountedFor == AppliedOncePerAttempt /\ NoUnrecordedEffect
=============================================================================
