-------------------------- MODULE ConnectorReplies --------------------------
(***************************************************************************)
(* What the built-in connectors (crates/pam_connectors) make of one answer *)
(* of a remote service: the failure they classify it as, the advice on     *)
(* retrying that goes with the failure, and whether a value they return is *)
(* the complete remote truth or a part of it.  There is one operator per   *)
(* operation of a provider; all of them are functions of the answer.       *)
(*                                                                         *)
(* An answer is [status, body, items, total, next, sound, cut]: the HTTP   *)
(* status; what the body is ("json" with the identity or verdict asked     *)
(* for, "other" JSON or a page without it, "broken" JSON); how many items  *)
(* it carries; the total it states (Unstated when it states none);         *)
(* whether it links to a next page; whether every field passes the         *)
(* connector's validators; and whether the text is longer than the         *)
(* connector retains.                                                      *)
(***************************************************************************)
EXTENDS Integers

\* total of an answer that states none.
Unstated == -1

\* The RetryGuidance each constructor attaches to the failure it makes; "fault"
\* is a remote failure marked retryable, "remote" one that is not.
RetryGuidance(kind) ==
    CASE kind \in {"authentication", "certificate"} -> "after configuration change"
      [] kind \in {"rate_limit", "timeout", "network", "fault"} -> "after backoff"
      [] kind = "uncertain" -> "reconcile"
      [] OTHER -> "never"

Failed(kind) == [ok |-> FALSE, kind |-> kind]

\* A ConnectorOutput: how many items it retains and whether it claims to be
\* the complete remote truth.
Output(items, complete) == [ok |-> TRUE, items |-> items, complete |-> complete]

\* InvocationContext::preflight, in the order it tests.
Preflight(context, stateful) ==
    IF context.cancelled THEN "cancelled"
    ELSE IF context.late THEN "timeout"
    ELSE IF stateful /\ ~context.key THEN "invalid" ELSE "go"

\* classify_transport_failure: timeouts first, then certificates, then the
\* connection, and everything else is a retryable remote failure.
ClassifyTransportFailure(cause) ==
    IF cause \in {"timeout", "certificate", "network"} THEN cause ELSE "fault"

\* What a request that was sent meets before its body is read in full: the
\* deadline, a failure of the connection, a body over the response limit.
Wires == {"timeout", "certificate", "network", "reset", "oversized", "answer"}

HttpGet(wire) ==
    CASE wire = "answer" -> "answer"
      [] wire = "oversized" -> "too_large"
      [] OTHER -> ClassifyTransportFailure(wire)

\* The transports; only GitHub's also sends the POST of RerunFailedJobs, whose
\* failures leave the effect uncertain.
GitHubSend(wire, stateful) ==
    IF stateful /\ wire \in {"timeout", "certificate", "network", "reset"} THEN "uncertain" ELSE HttpGet(wire)

JenkinsGet(wire) == HttpGet(wire)

SonarGet(wire) == HttpGet(wire)

JiraGet(wire) == HttpGet(wire)

ConfluenceGet(wire) == HttpGet(wire)

SharePointGet(wire) == HttpGet(wire)

\* A child process: a missing or unusable binary, the deadline (the child is
\* killed), and pipes that cannot be read.  Its output is cut, never refused.
AwsRun(wire) ==
    CASE wire = "timeout" -> "timeout"
      [] wire = "network" -> "not_found"
      [] wire \in {"certificate", "reset"} -> "remote"
      [] OTHER -> "answer"

\* require_status of every provider but GitHub.
StatusFailure(status) ==
    CASE status = 401 -> "authentication"
      [] status = 403 -> "forbidden"
      [] status = 404 -> "not_found"
      [] status = 429 -> "rate_limit"
      [] status \in 500 .. 599 -> "fault"
      [] OTHER -> "remote"

\* GitHub answers 403 to a caller over its rate limit as well: the headers, or
\* a body that names the secondary limit, tell the two apart.
GitHubStatusFailure(r) == IF r.status = 403 /\ r.limited THEN "rate_limit" ELSE StatusFailure(r.status)

-----------------------------------------------------------------------------
\* The probes behind connector.test.

GitHubVerify(r) == IF r.status = 200 THEN Output(0, TRUE) ELSE Failed(GitHubStatusFailure(r))

JenkinsVerify(r) == IF r.status = 200 THEN Output(0, TRUE) ELSE Failed(StatusFailure(r.status))

SonarVerify(r) ==
    IF r.status # 200 THEN Failed(StatusFailure(r.status))
    ELSE IF r.body = "broken" THEN Failed("remote")
    ELSE IF r.body = "other" THEN Failed("authentication") ELSE Output(0, TRUE)

\* Status 200 is not acceptance: the body has to name an identity.
IdentityProbe(r) ==
    IF r.status # 200 THEN Failed(StatusFailure(r.status))
    ELSE IF r.body # "json" THEN Failed("authentication") ELSE Output(0, TRUE)

\* The user's name or key.
JiraVerify(r) == IdentityProbe(r)

\* The account or display name of a user who is not anonymous.
ConfluenceVerify(r) == IdentityProbe(r)

\* The Graph site.
SharePointVerify(r) == IdentityProbe(r)

\* The exit status stands for the HTTP status: anything but 0 (200) is a
\* rejected caller, and exit 0 still needs an identity.
AwsVerify(r) ==
    IF r.status # 200 THEN Failed("authentication")
    ELSE IF r.body # "json" THEN Failed("remote") ELSE Output(0, TRUE)

-----------------------------------------------------------------------------
\* Discovery: one page of at most limit items.

\* What every discovery refuses: a bad status, unparsable JSON, more items
\* than asked for, and an item that fails validation.
PageFailure(r, limit) ==
    IF r.status # 200 THEN StatusFailure(r.status)
    ELSE IF r.body # "json" \/ r.items > limit \/ ~r.sound THEN "remote" ELSE "none"

\* The run list's total_count is returned, and the output is Complete whatever
\* it says.
GitHubRuns(r, limit) ==
    IF r.status = 200 /\ PageFailure(r, limit) = "none" THEN Output(r.items, TRUE)
    ELSE Failed(IF r.status = 200 THEN "remote" ELSE GitHubStatusFailure(r))

\* CollectRunLogs as one answer: cut when a log could not be had.  GitHubRuns
\* has its requests one by one.
GitHubLogs(r) ==
    IF r.status # 200 THEN Failed(GitHubStatusFailure(r))
    ELSE IF r.body # "json" \/ ~r.sound THEN Failed("remote") ELSE Output(1, ~r.cut)

\* Jenkins is asked for the first limit jobs and states no total.
JenkinsJobs(r, limit) ==
    IF PageFailure(r, limit) = "none" THEN Output(r.items, TRUE) ELSE Failed(PageFailure(r, limit))

\* The same for the builds of a job.
JenkinsBuilds(r, limit) ==
    IF PageFailure(r, limit) = "none" THEN Output(r.items, TRUE) ELSE Failed(PageFailure(r, limit))

SonarIssues(r, limit) ==
    IF PageFailure(r, limit) = "none" THEN Output(r.items, r.total <= r.items)
    ELSE Failed(PageFailure(r, limit))

\* As a bug would have it: the number asked for taken for the total.
JiraIssuesByLimit(r, limit) ==
    IF PageFailure(r, limit) = "none" THEN Output(r.items, r.items <= limit)
    ELSE Failed(PageFailure(r, limit))

JiraIssues(r, limit) ==
    IF PageFailure(r, limit) = "none" THEN Output(r.items, r.total <= r.items)
    ELSE Failed(PageFailure(r, limit))

\* Without a total, the link to a next page decides.
ConfluencePages(r, limit) ==
    LET stated == r.total # Unstated
        total == IF stated /\ r.total > r.items THEN r.total ELSE r.items
    IN  IF PageFailure(r, limit) = "none"
        THEN Output(r.items, total = r.items /\ (stated \/ ~r.next))
        ELSE Failed(PageFailure(r, limit))

\* Graph states no total: a full page may be the first of several.
SharePointDocuments(r, limit) ==
    IF PageFailure(r, limit) = "none" THEN Output(r.items, ~r.next /\ r.items # limit)
    ELSE Failed(PageFailure(r, limit))

\* The same for the lists of a site.
SharePointLists(r, limit) ==
    IF PageFailure(r, limit) = "none" THEN Output(r.items, ~r.next /\ r.items # limit)
    ELSE Failed(PageFailure(r, limit))

\* The allowlist itself; nothing is run.
AwsCommands == Output(0, TRUE)

-----------------------------------------------------------------------------
\* Collection of one named object.

\* The failed conditions of a quality gate, all of them.
SonarGate(r) ==
    IF r.status # 200 THEN Failed(StatusFailure(r.status))
    ELSE IF r.body # "json" \/ ~r.sound THEN Failed("remote") ELSE Output(r.items, TRUE)

\* A description longer than the cap is cut on a character boundary.
JiraIssue(r) ==
    IF r.status # 200 THEN Failed(StatusFailure(r.status))
    ELSE IF r.body # "json" \/ ~r.sound THEN Failed("remote") ELSE Output(1, ~r.cut)

\* So is the storage body of a page.
ConfluencePage(r) ==
    IF r.status # 200 THEN Failed(StatusFailure(r.status))
    ELSE IF r.body # "json" \/ ~r.sound THEN Failed("remote") ELSE Output(1, ~r.cut)

\* A console log over the limit never gets here: the transport refuses it.
JenkinsLog(r) == IF r.status = 200 THEN Output(1, TRUE) ELSE Failed(StatusFailure(r.status))

\* A command that exits unsuccessfully is never retried; its standard output
\* is cut at the cap.
AwsCommand(r) == IF r.status = 200 THEN Output(1, ~r.cut) ELSE Failed("remote")
=============================================================================
