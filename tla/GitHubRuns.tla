----------------------------- MODULE GitHubRuns -----------------------------
(***************************************************************************)
(* The GitHub Actions operations that take several requests while the      *)
(* service goes on changing: CollectRunLogs with the diagnosis made from   *)
(* its output, and RerunFailedJobs, the one operation of the connectors    *)
(* that changes a remote service.  GitHub's answers may lag behind what it *)
(* has done.                                                               *)
(***************************************************************************)
EXTENDS ConnectorReplies, FiniteSets, FiniteSetsExt

CONSTANTS
    CollectMaxJobs, \* CONNECTOR_COLLECT_MAX_JOBS
    MaxAttempt,     \* bound: attempts of the workflow run
    MaxTries,       \* bound: invocations of one rerun request
    LogLimit,       \* max_log_bytes of a request
    TotalLimit      \* max_total_log_bytes of a request

VARIABLES
    run,            \* the workflow run at GitHub: [attempt, state]
    lag,            \* the state of the run before its last change
    jobs,           \* jobs of the run: [failed, size], size 0 for a log that is gone
    ctx,            \* the invocation context: [cancelled, late, key]
    collect,        \* the CollectRunLogs invocation
    rerun,          \* the RerunFailedJobs invocation
    approval,       \* the approval attached to it
    mine            \* reruns GitHub started because of it

runVars == <<run, lag, jobs, ctx, collect, rerun, approval, mine>>

Baseline == 1

NewContext(key) == [cancelled |-> FALSE, late |-> FALSE, key |-> key]

RunInit ==
    /\ run = [attempt |-> Baseline, state |-> "failed"] /\ lag = run
    /\ \E n \in {CollectMaxJobs, CollectMaxJobs + 1} :
         jobs \in [1 .. n -> [failed : BOOLEAN, size : 0 .. LogLimit + 1]]
    /\ ctx = NewContext(FALSE)
    /\ collect = [pc |-> "idle"]
    /\ rerun = [pc |-> "idle", try |-> 0] /\ approval = "none" /\ mine = 0

\* The caller cancels the token, or the deadline passes.
ContextEnds ==
    /\ collect.pc # "idle" \/ rerun.pc # "idle"
    /\ \/ ctx' = [ctx EXCEPT !.cancelled = TRUE]
       \/ ctx' = [ctx EXCEPT !.late = TRUE]
    /\ UNCHANGED <<run, lag, jobs, collect, rerun, approval, mine>>
-----------------------------------------------------------------------------
\* CollectRunLogs

CollectFails(kind) == collect' = [pc |-> "done", out |-> Failed(kind)]

\* A request of the invocation: the preflight, then the answer or a failure of
\* the transport or of the status.
MayFail(stateful) ==
    IF Preflight(ctx, stateful) # "go" THEN {Preflight(ctx, stateful)}
    ELSE {GitHubSend(wire, FALSE) : wire \in Wires \ {"answer"}} \cup {"not_found", "fault"}

CollectIdle ==
    /\ collect.pc = "idle"
    /\ collect' = [pc |-> "run"] /\ ctx' = NewContext(FALSE)
    /\ UNCHANGED <<run, lag, jobs, rerun, approval, mine>>

\* The run, then the jobs of the attempt it was at.
FetchRun ==
    /\ collect.pc = "run"
    /\ \/ \E kind \in MayFail(FALSE) : CollectFails(kind)
       \/ Preflight(ctx, FALSE) = "go" /\ collect' = [pc |-> "jobs"]
    /\ UNCHANGED <<run, lag, jobs, ctx, rerun, approval, mine>>

FailedJobs(listed) == {j \in listed : jobs[j].failed}

\* As a bug would have it: a list that stops at the limit is not noticed.
ListReasonsNone(listed) == {}

\* The first reason for a partial truth: jobs the page does not list.
ListReasons(listed) == IF Cardinality(DOMAIN jobs) > Cardinality(listed) THEN {"jobs"} ELSE {}

ListJobs ==
    /\ collect.pc = "jobs"
    /\ \/ \E kind \in MayFail(FALSE) : CollectFails(kind)
       \/ \E listed \in SUBSET DOMAIN jobs :
            /\ Preflight(ctx, FALSE) = "go"
            /\ Cardinality(listed) = CollectMaxJobs
            /\ collect' = [pc |-> "logs", listed |-> listed, failed |-> FailedJobs(listed),
                           todo |-> FailedJobs(listed), logs |-> {}, bytes |-> 0,
                           reasons |-> ListReasons(listed)]
    /\ UNCHANGED <<run, lag, jobs, ctx, rerun, approval, mine>>

\* collect_log follows at most three redirects, to HTTPS only and without the
\* credential; a log over what is left of the limits is refused, not cut.
CollectLog(j, left) ==
    {"timeout", "network", "remote"}
        \cup (IF jobs[j].size = 0 THEN {"not_found"}
              ELSE IF jobs[j].size <= left THEN {"body"} ELSE {"too_large"})

\* One failed job, in the order of job ids.  A log that cannot be had makes the
\* output partial; only cancellation and the deadline end the collection.
CollectNext ==
    /\ collect.pc = "logs" /\ collect.todo # {}
    /\ LET j == Min(collect.todo)
           left == IF TotalLimit - collect.bytes < LogLimit THEN TotalLimit - collect.bytes
                   ELSE LogLimit
       IN  IF Preflight(ctx, FALSE) # "go" THEN CollectFails(Preflight(ctx, FALSE))
           ELSE IF left = 0
           THEN collect' = [collect EXCEPT !.todo = {}, !.reasons = @ \cup {"bytes"}]
           ELSE \E got \in CollectLog(j, left) :
                  collect' = IF got = "body"
                             THEN [collect EXCEPT !.todo = @ \ {j}, !.logs = @ \cup {j},
                                                  !.bytes = @ + jobs[j].size]
                             ELSE [collect EXCEPT !.todo = @ \ {j}, !.reasons = @ \cup {"log"}]
    /\ UNCHANGED <<run, lag, jobs, ctx, rerun, approval, mine>>

\* The truth of the output, from the reasons gathered.
CollectEnds ==
    /\ collect.pc = "logs" /\ collect.todo = {}
    /\ LET missing == Cardinality(collect.logs) < Cardinality(collect.failed)
           reasons == IF missing /\ collect.reasons = {} THEN {"missing"} ELSE collect.reasons
       IN  collect' = [pc |-> "done", out |-> Output(Cardinality(collect.logs), reasons = {}),
                       listed |-> collect.listed, failed |-> collect.failed, logs |-> collect.logs]
    /\ UNCHANGED <<run, lag, jobs, ctx, rerun, approval, mine>>

\* A job that was still running when the list was made fails.
JobFails ==
    /\ collect.pc \in {"jobs", "logs"}
    /\ \E j \in DOMAIN jobs :
        ~jobs[j].failed /\ jobs' = [jobs EXCEPT ![j].failed = TRUE]
    /\ UNCHANGED <<run, lag, ctx, collect, rerun, approval, mine>>
-----------------------------------------------------------------------------
\* What becomes of the output.

\* validate_response_bounds: an output that claims to be complete must list
\* every job and have the log of every job it lists as failed.
Contradictory(c) ==
    c.out.complete /\ (c.listed # DOMAIN jobs \/ ~(c.failed \subseteq c.logs))

\* diagnose_run: the artifacts are persisted one by one, then every log is
\* classified; a partial input can only give a partial diagnosis.
Diagnose ==
    /\ collect.pc = "done" /\ collect.out.ok /\ "status" \notin DOMAIN collect
    /\ \E found \in BOOLEAN, persisted \in BOOLEAN :
        LET status == IF Contradictory(collect) THEN "contradictory"
                      ELSE IF ~persisted /\ collect.logs # {} THEN "not persisted"
                      ELSE IF ~collect.out.complete THEN "partial"
                      ELSE IF found /\ collect.logs # {} THEN "diagnosed" ELSE "unresolved"
        IN  collect' = [n \in DOMAIN collect \cup {"status"} |->
                            IF n = "status" THEN status ELSE collect[n]]
    /\ UNCHANGED <<run, lag, jobs, ctx, rerun, approval, mine>>
-----------------------------------------------------------------------------
\* RerunFailedJobs

RerunEnds(out) == rerun' = [rerun EXCEPT !.pc = "done", !.out = out]

\* What a GET may show: the run as it is, or as it was before its last change.
Shown == {run, lag}

\* rerun_is_verified: exactly one attempt past the baseline.
Verified(seen) == seen.attempt = Baseline + 1

\* A caller invokes the operation, the first time or again after a failure that
\* allows it, with a fresh approval or without one.
StartRerun ==
    /\ rerun.pc \in {"idle", "done"} /\ rerun.try < MaxTries
    /\ rerun.pc = "done" => ~rerun.out.ok
    /\ \E key \in BOOLEAN :
        /\ ctx' = NewContext(key)
        /\ rerun' = [pc |-> "fetch", try |-> rerun.try + 1, applied |-> FALSE, out |-> Failed("none")]
    /\ approval' \in {"none", "approved", "expired"}
    /\ UNCHANGED <<run, lag, jobs, collect, mine>>

\* What the run shown lets the operation do: report a rerun that is there,
\* give up, or go on; a second try never posts again.
Decide(seen) ==
    IF Verified(seen) THEN "already"
    ELSE IF seen.attempt < Baseline THEN "remote"
    ELSE IF seen.attempt # Baseline THEN "uncertain"
    ELSE IF rerun.try > 1 THEN "uncertain"
    ELSE IF seen.state # "failed" THEN "invalid" ELSE "authorize"

FetchForRerun ==
    /\ rerun.pc = "fetch"
    /\ \/ \E kind \in MayFail(TRUE) : RerunEnds(Failed(kind))
       \/ \E seen \in Shown :
            /\ Preflight(ctx, TRUE) = "go"
            /\ IF Decide(seen) = "authorize" THEN rerun' = [rerun EXCEPT !.pc = "authorize"]
               ELSE RerunEnds(IF Decide(seen) = "already" THEN Output(1, TRUE)
                              ELSE Failed(Decide(seen)))
    /\ UNCHANGED <<run, lag, jobs, ctx, collect, approval, mine>>

\* authorize_effect consumes the approval; the store may be unavailable.
AuthorizeEffect ==
    /\ rerun.pc = "authorize"
    /\ IF Preflight(ctx, TRUE) # "go"
       THEN RerunEnds(Failed(Preflight(ctx, TRUE))) /\ UNCHANGED approval
       ELSE \/ approval # "none" /\ RerunEnds(Failed("fault")) /\ UNCHANGED approval
            \/ /\ approval # "approved"
               /\ RerunEnds(Failed("forbidden")) /\ UNCHANGED approval
            \/ /\ approval = "approved" /\ approval' = "consumed"
               /\ rerun' = [rerun EXCEPT !.pc = "post"]
    /\ UNCHANGED <<run, lag, jobs, ctx, collect, mine>>

\* GitHub starts the attempt if it takes the request and the run can be rerun.
Starts(taken) ==
    IF taken /\ run.state # "running" /\ run.attempt < MaxAttempt
    THEN /\ run' = [attempt |-> run.attempt + 1, state |-> "running"] /\ lag' = run
         /\ mine' = mine + 1
    ELSE UNCHANGED <<run, lag, mine>>

\* As a bug would have it: an answer that never came is a plain network failure.
AfterPostTrusting(answer) ==
    IF answer = "created" THEN "verify" ELSE IF answer = "refused" THEN "forbidden" ELSE "network"

\* Only an answer below 500 other than 201 says that nothing was done.
AfterPost(answer) == IF answer = "refused" THEN "forbidden" ELSE "verify"

\* The POST: not sent after cancellation or the deadline; refused; taken, with
\* the answer delivered, lost or replaced by a server error.
Post ==
    /\ rerun.pc = "post"
    /\ \E taken \in BOOLEAN, answer \in {"created", "refused", "error", "lost"} :
        /\ Preflight(ctx, TRUE) # "go" => ~taken /\ answer = "lost"
        /\ answer = "created" => taken
        /\ answer = "refused" => ~taken
        /\ Starts(taken)
        /\ rerun' = [rerun EXCEPT
                       !.applied = mine' > mine,
                       !.pc = IF AfterPost(answer) = "verify" THEN "verify" ELSE "done",
                       !.out = IF AfterPost(answer) = "verify" THEN @ ELSE Failed(AfterPost(answer))]
    /\ UNCHANGED <<jobs, ctx, collect, approval>>

\* A fetch that fails, and a run that does not show the new attempt, leave the
\* effect uncertain.
VerifyRerun ==
    /\ rerun.pc = "verify"
    /\ \/ RerunEnds(Failed("uncertain"))
       \/ \E seen \in Shown :
            /\ Preflight(ctx, TRUE) = "go"
            /\ Verified(seen) /\ RerunEnds(Output(1, TRUE))
    /\ UNCHANGED <<run, lag, jobs, ctx, collect, approval, mine>>

\* GitHub finishes the attempt; somebody else starts another.
RunChanges ==
    /\ rerun.pc # "idle"
    /\ \/ /\ run.state = "running" /\ lag' = run
          /\ \E s \in {"failed", "passed"} : run' = [run EXCEPT !.state = s]
       \/ /\ run.state # "running" /\ run.attempt < MaxAttempt /\ lag' = run
          /\ run' = [attempt |-> run.attempt + 1, state |-> "running"]
    /\ UNCHANGED <<jobs, ctx, collect, rerun, approval, mine>>

CollectActions ==
    CollectIdle \/ FetchRun \/ ListJobs \/ CollectNext \/ CollectEnds \/ JobFails \/ Diagnose

RerunActions ==
    StartRerun \/ FetchForRerun \/ AuthorizeEffect \/ Post \/ VerifyRerun \/ RunChanges

RunNext == CollectActions \/ RerunActions \/ ContextEnds

RunSpec == RunInit /\ [][RunNext]_runVars
-----------------------------------------------------------------------------
\* One request to rerun, however often it is invoked and whatever GitHub shows
\* meanwhile, starts at most one attempt, and a try that started one ends as
\* verified or as an effect to reconcile: no failure that invites a plain retry
\* (RerunFailedJobs::execute with its approval and its attempt count).
RerunOnce ==
    /\ mine <= 1
    /\ rerun.pc = "done" /\ rerun.applied =>
        rerun.out.ok \/ RetryGuidance(rerun.out.kind) = "reconcile"

\* The diagnosis accepts whatever the collection produced, and calls a run
\* diagnosed or unresolved only when the log of every job that had failed when
\* the jobs were listed was read in full (CollectRunLogs and diagnose_run).
DiagnosisAgrees ==
    "status" \in DOMAIN collect =>
        /\ collect.status # "contradictory"
        /\ collect.status \in {"diagnosed", "unresolved"} =>
            /\ collect.failed = collect.logs
            /\ collect.listed = DOMAIN jobs
=============================================================================
