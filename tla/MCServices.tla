----------------------------- MODULE MCServices -----------------------------
(***************************************************************************)
(* The connectors and the flow editor on small instances.  Each behaviour  *)
(* picks one: a connector's configuration, test and flow step; collecting  *)
(* the logs of a workflow run; rerunning its failed jobs; saving a flow    *)
(* from two editors; or one computation on a draft, on a log to compact or *)
(* on the evidence of a report.                                            *)
(***************************************************************************)
EXTENDS ConnectorSteps, GitHubRuns, FlowEditor, FlowDrafts, Compaction, Findings, TLC

CONSTANTS e1, e2

VARIABLE subject

serviceVars == <<connectorVars, runVars, editorVars, draftVars, compactionVars, findingVars, subject>>

Version(rev, body, neat, ok) == [rev |-> rev, body |-> body, neat |-> neat, ok |-> ok]

\* A hand-written first revision, two rival second ones, and a broken text.
MCDrafts ==
    {Version(1, "a", FALSE, TRUE), Version(2, "a", TRUE, TRUE), Version(2, "b", TRUE, TRUE),
     Version(1, "a", FALSE, FALSE)}

MCNoVersion == Version(0, "a", TRUE, FALSE)

\* Editors differ in nothing but their names.
MCSymmetry == Permutations({e1, e2})

AnyShape == CHOOSE s \in Shapes : TRUE

MCServicesInit ==
    /\ subject \in {"connector", "collect", "rerun", "editor", "draft", "compaction", "report"}
    /\ IF subject = "connector" THEN ConnectorInit
       ELSE ConnectorInit /\ connector = "aws" /\ remote = [items |-> 0, long |-> FALSE]
    /\ RunInit
    /\ subject # "collect" =>
         jobs = [j \in 1 .. CollectMaxJobs |-> [failed |-> FALSE, size |-> 0]]
    /\ EditorInit /\ (subject # "editor" => file = MCNoVersion)
    /\ DraftInit /\ (subject # "draft" => shape = AnyShape /\ texts = <<<<>>, <<>>>>)
    /\ IF subject = "compaction" THEN CompactionInit
       ELSE bytes = <<>> /\ policy = [boundary |-> 0, context |-> 0, stages |-> {}]
    /\ IF subject = "report" THEN FindingsInit ELSE log = <<>> /\ issues = <<>>

MCServicesNext ==
    /\ UNCHANGED <<subject, draftVars, compactionVars, findingVars>>
    /\ \/ subject = "connector" /\ ConnectorNext /\ UNCHANGED <<runVars, editorVars>>
       \/ subject = "collect" /\ (CollectActions \/ ContextEnds)
          /\ UNCHANGED <<connectorVars, editorVars>>
       \/ subject = "rerun" /\ (RerunActions \/ ContextEnds)
          /\ UNCHANGED <<connectorVars, editorVars>>
       \/ subject = "editor" /\ EditorNext /\ UNCHANGED <<connectorVars, runVars>>

MCServicesSpec == MCServicesInit /\ [][MCServicesNext]_serviceVars

\* A result that does not call itself partial leaves nothing out, on all the
\* way from one page of a connector over the logs of a run to the findings and
\* groups of a report (ConnectorOutput, CollectRunLogs, diagnose_run).
CompletenessIsHonest == CompleteIsAll /\ DiagnosisAgrees /\ WholeUnlessPartial
=============================================================================
