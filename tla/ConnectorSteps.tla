--------------------------- MODULE ConnectorSteps ---------------------------
(***************************************************************************)
(* A built-in connector inside the daemon.  Its configuration is kept in   *)
(* two places, a row of the connectors table and a credential in the       *)
(* operating system's secret store; connector.configure writes both,       *)
(* connector.test and the connector step of a flow read both, each in      *)
(* several steps and concurrently (handlers are spawned tasks, flows run   *)
(* in workers).  The operations themselves are those of ConnectorReplies.  *)
(***************************************************************************)
EXTENDS ConnectorReplies

CONSTANTS
    Configurers,    \* connector.configure requests in flight
    Secrets,        \* credentials a user may store
    Bases,          \* API bases a user may configure
    Limit,          \* CONNECTOR_DISCOVER_LIMIT
    MaxItems,       \* bound: items the remote holds
    Absent          \* None

VARIABLES
    connector,      \* the built-in connector this behaviour is about
    remote,         \* [items, long]: what the service holds
    row,            \* the connectors row, or Absent
    secret,         \* the stored credential, or Absent
    conf,           \* [Configurers -> request]
    test,           \* the connector.test request
    step            \* the connector step of a flow

connectorVars == <<connector, remote, row, secret, conf, test, step>>

Idle == [pc |-> "idle"]

\* parse_*_call: the resource kind each executable capability demands.
GitHubCalls == [runs |-> "repository", logs |-> "run"]

JenkinsCalls == [jobs |-> "server", builds |-> "job", log |-> "build"]

SonarCalls == [gate |-> "project", issues |-> "project"]

JiraCalls == [issues |-> "project", issue |-> "issue"]

ConfluenceCalls == [pages |-> "project", page |-> "page"]

SharePointCalls == [documents |-> "site", lists |-> "site"]

AwsCalls == [commands |-> "command", command |-> "command"]

\* The built-in connectors.
Kinds ==
    [github |-> GitHubCalls, jenkins |-> JenkinsCalls, sonarqube |-> SonarCalls, jira |-> JiraCalls,
     confluence |-> ConfluenceCalls, sharepoint |-> SharePointCalls, aws |-> AwsCalls]

ConnectorInit ==
    /\ connector \in DOMAIN Kinds
    /\ remote \in [items : 0 .. MaxItems, long : BOOLEAN]
    /\ row = Absent /\ secret = Absent
    /\ conf = [h \in Configurers |-> Idle]
    /\ test = Idle /\ step = Idle
-----------------------------------------------------------------------------
\* connector.configure

\* The credential change comes first; when the secret store refuses it the
\* request fails and the row stays as it is.
ApplyCredential(h) ==
    \E change \in {"set", "clear", "unchanged"}, new \in Secrets,
       enabled \in {TRUE, Absent}, base \in Bases \cup {Absent} :
        /\ conf[h].pc = "idle"
        /\ change # "set" => new = CHOOSE s \in Secrets : TRUE
        /\ \/ /\ secret' = CASE change = "set" -> new
                             [] change = "clear" -> Absent
                             [] OTHER -> secret
              /\ conf' = [conf EXCEPT ![h] =
                            [pc |-> "applied", change |-> change, new |-> new,
                             enabled |-> enabled, base |-> base]]
           \/ /\ change # "unchanged"
              /\ conf' = [conf EXCEPT ![h] = [pc |-> "failed"]]
              /\ UNCHANGED secret
        /\ UNCHANGED <<connector, remote, row, test, step>>

\* upsert_connector_config: what the request leaves out keeps its value; the
\* outcome of the last test is never touched.
MergedRow(request) ==
    LET old == IF row = Absent THEN [enabled |-> FALSE, base |-> Absent, test |-> "never"] ELSE row
    IN  [enabled |-> IF request.enabled = Absent THEN old.enabled ELSE request.enabled,
         base |-> IF request.base = Absent THEN old.base ELSE request.base,
         test |-> old.test]

\* The row is written in one transaction, which may fail after the credential
\* was changed; the reply then reports the row and looks the credential up anew.
UpsertConfig(h) ==
    /\ conf[h].pc = "applied"
    /\ \/ row' = MergedRow(conf[h]) /\ conf' = [conf EXCEPT ![h].pc = "changed"]
       \/ row' = row /\ conf' = [conf EXCEPT ![h] = [pc |-> "failed"]]
    /\ UNCHANGED <<connector, remote, secret, test, step>>
-----------------------------------------------------------------------------
\* Answers of the remote service.

Page(items, total, next, r) ==
    [status |-> 200, body |-> "json", items |-> items, total |-> total, next |-> next,
     sound |-> TRUE, cut |-> r.long, limited |-> FALSE]

\* A service that works answers truthfully: the first Limit items, the total
\* where its API has one, a link when there is more.
Truthful(op) ==
    LET shown == IF remote.items < Limit THEN remote.items ELSE Limit
        totals == IF op \in {"jobs", "builds", "documents", "lists"} THEN {Unstated}
                  ELSE IF op = "pages" THEN {remote.items, Unstated} ELSE {remote.items}
    IN  {Page(shown, total, remote.items > Limit, remote) : total \in totals}

\* One that does not answers with another status, a login page, broken JSON,
\* invalid fields or more than was asked for.
Faulty(op) ==
    LET good == CHOOSE p \in Truthful(op) : TRUE
    IN  {[good EXCEPT !.status = s] : s \in {401, 404, 429, 500, 302}}
        \cup {[good EXCEPT !.status = 403, !.limited = l] : l \in BOOLEAN}
        \cup {[good EXCEPT !.body = b] : b \in {"other", "broken"}}
        \cup {[good EXCEPT !.sound = FALSE], [good EXCEPT !.items = Limit + 1]}

Answers(op) == Truthful(op) \cup Faulty(op)

\* The transport of each connector.
Transport(wire) ==
    CASE connector = "github" -> GitHubSend(wire, FALSE)
      [] connector = "jenkins" -> JenkinsGet(wire)
      [] connector = "sonarqube" -> SonarGet(wire)
      [] connector = "jira" -> JiraGet(wire)
      [] connector = "confluence" -> ConfluenceGet(wire)
      [] connector = "sharepoint" -> SharePointGet(wire)
      [] connector = "aws" -> AwsRun(wire)

NoAnswer == {Transport(wire) : wire \in Wires} \ {"answer"}

\* run_connector_probe: the operation behind each connector's test.
Probe(r) ==
    CASE connector = "github" -> GitHubVerify(r)
      [] connector = "jenkins" -> JenkinsVerify(r)
      [] connector = "sonarqube" -> SonarVerify(r)
      [] connector = "jira" -> JiraVerify(r)
      [] connector = "confluence" -> ConfluenceVerify(r)
      [] connector = "sharepoint" -> SharePointVerify(r)
      [] connector = "aws" -> AwsVerify(r)

\* run_connector_call: the operation behind each capability.
Call(op, r) ==
    CASE op = "runs" -> GitHubRuns(r, Limit)
      [] op = "logs" -> GitHubLogs(r)
      [] op = "jobs" -> JenkinsJobs(r, Limit)
      [] op = "builds" -> JenkinsBuilds(r, Limit)
      [] op = "log" -> JenkinsLog(r)
      [] op = "gate" -> SonarGate(r)
      [] op = "issues" /\ connector = "sonarqube" -> SonarIssues(r, Limit)
      [] op = "issues" /\ connector = "jira" -> JiraIssues(r, Limit)
      [] op = "issue" -> JiraIssue(r)
      [] op = "pages" -> ConfluencePages(r, Limit)
      [] op = "page" -> ConfluencePage(r)
      [] op = "documents" -> SharePointDocuments(r, Limit)
      [] op = "lists" -> SharePointLists(r, Limit)
      [] op = "command" -> AwsCommand(r)
      [] op = "commands" -> AwsCommands

\* A connector but GitHub's and AWS's has no default base.
NeedsBase == connector \notin {"github", "aws"}
-----------------------------------------------------------------------------
\* connector.test

TestReadsRow ==
    /\ test.pc = "idle"
    /\ test' = [pc |-> "row", base |-> IF row = Absent THEN Absent ELSE row.base]
    /\ UNCHANGED <<connector, remote, row, secret, conf, step>>

\* load_credential: the stored value, or an error of the backend.
TestLoadsCredential ==
    /\ test.pc = "row"
    /\ \/ test' = [pc |-> "loaded", base |-> test.base, secret |-> secret]
       \/ test' = [pc |-> "probed", passed |-> FALSE, base |-> test.base, secret |-> secret]
    /\ UNCHANGED <<connector, remote, row, secret, conf, step>>

\* Without a credential (AWS excepted) or the base it needs, no probe is sent.
TestProbes ==
    /\ test.pc = "loaded"
    /\ LET sent == (connector = "aws" \/ test.secret # Absent)
                   /\ (NeedsBase => test.base # Absent)
       IN  \E passed \in {FALSE}
                 \cup (IF sent THEN {Probe(r).ok : r \in Answers("runs")} ELSE {}) :
             test' = [pc |-> "probed", passed |-> passed, base |-> test.base, secret |-> test.secret]
    /\ UNCHANGED <<connector, remote, row, secret, conf, step>>

\* record_connector_test: on whatever the row now is.
RecordTest ==
    /\ test.pc = "probed"
    /\ LET outcome == IF test.passed THEN "passed" ELSE "failed"
       IN  row' = IF row = Absent THEN [enabled |-> FALSE, base |-> Absent, test |-> outcome]
                  ELSE [row EXCEPT !.test = outcome]
    /\ test' = [test EXCEPT !.pc = "recorded"]
    /\ UNCHANGED <<connector, remote, secret, conf, step>>
-----------------------------------------------------------------------------
\* The connector step of a flow: execute_connector_step.

StepEnds(result) == step' = [pc |-> "done", op |-> step.op, result |-> result]

\* The capability must be one the connector executes, on a resource of the kind
\* it demands; all but two also parse the resource's coordinate.
Parses(capability, kind, wellFormed) ==
    /\ capability \in DOMAIN Kinds[connector]
    /\ kind = Kinds[connector][capability]
    /\ wellFormed \/ capability \in {"jobs", "commands"}

ParseCall ==
    \E capability \in DOMAIN Kinds[connector] \cup {"unknown"}, wellFormed \in BOOLEAN :
      \E kind \in {Kinds[connector][c] : c \in DOMAIN Kinds[connector]} \cup {"other"} :
        /\ step.pc = "idle"
        /\ step' = IF Parses(capability, kind, wellFormed)
                   THEN [pc |-> "parsed", op |-> capability]
                   ELSE [pc |-> "done", op |-> capability, result |-> "failed"]
        /\ UNCHANGED <<connector, remote, row, secret, conf, test>>

\* A connector that is missing or not enabled fails the step, not the run.
StepReadsRow ==
    /\ step.pc = "parsed"
    /\ IF row # Absent /\ row.enabled
       THEN step' = [pc |-> "row", op |-> step.op, base |-> row.base]
       ELSE StepEnds("failed")
    /\ UNCHANGED <<connector, remote, row, secret, conf, test>>

\* An error of the secret store may pass: the step may be retried.
StepLoadsCredential ==
    /\ step.pc = "row"
    /\ \/ StepEnds("retry")
       \/ IF (secret = Absent /\ connector # "aws") \/ (NeedsBase /\ step.base = Absent)
          THEN StepEnds("failed")
          ELSE step' = [pc |-> "built", op |-> step.op]
    /\ UNCHANGED <<connector, remote, row, secret, conf, test>>

\* Only a failure that backing off may cure is reported as retryable; an
\* output that is a part of the truth says so in the step's summary.
StepOutcome(out) ==
    IF out.ok THEN (IF out.complete THEN "complete" ELSE "partial")
    ELSE IF RetryGuidance(out.kind) = "after backoff" THEN "retry" ELSE "failed"

\* The output is retained as evidence before the step reports it; the store
\* may refuse, which is an error of the worker.
StepCalls ==
    /\ step.pc = "built"
    /\ \/ \E r \in Answers(step.op) : StepEnds(StepOutcome(Call(step.op, r)))
       \/ StepEnds("error")
       \/ \E kind \in NoAnswer : step.op # "commands" /\ StepEnds(StepOutcome(Failed(kind)))
    /\ UNCHANGED <<connector, remote, row, secret, conf, test>>

\* The call runs beside the lease's heartbeat: a cancelled request or a lost
\* lease drops it unfinished.
LeaseEnds ==
    /\ step.pc = "built"
    /\ \/ StepEnds("cancelled") \/ StepEnds("stale")
    /\ UNCHANGED <<connector, remote, row, secret, conf, test>>

ConnectorNext ==
    \/ \E h \in Configurers : ApplyCredential(h) \/ UpsertConfig(h)
    \/ TestReadsRow \/ TestLoadsCredential \/ TestProbes \/ RecordTest
    \/ ParseCall \/ StepReadsRow \/ StepLoadsCredential \/ StepCalls \/ LeaseEnds

ConnectorSpec == ConnectorInit /\ [][ConnectorNext]_connectorVars
-----------------------------------------------------------------------------
\* Operations whose answer tells whether there is more.  GitHub's run list and
\* Jenkins's listings are not among them: their output is Complete whatever the
\* service holds beyond the limit.
Telling == {"issues", "pages", "documents", "lists", "issue", "page", "logs", "command"}

\* A step that reports its output without a "partial" note has retained all
\* the remote holds: every item of the listing, or the whole text (the truth
\* each execute computes and execute_connector_step passes on).
CompleteIsAll ==
    step.pc = "done" /\ step.result = "complete" /\ step.op \in Telling =>
        IF step.op \in {"issue", "page", "logs", "command"} THEN ~remote.long
        ELSE remote.items <= Limit
=============================================================================
