------------------------------ MODULE Findings ------------------------------
(***************************************************************************)
(* What the connectors' analyses report from evidence they have kept: the  *)
(* failure signatures found in GitHub and Jenkins logs                     *)
(* (github_diagnosis.rs, jenkins_diagnosis.rs) and the groups of issues of *)
(* a SonarQube snapshot (sonarqube_research.rs).                           *)
(*                                                                         *)
(* A line of a log is [size, marks]: its bytes with the newline and the    *)
(* categories whose patterns it contains.  An issue is [rule, file]; rules *)
(* and files are numbers, for the order of their names.  Three of the      *)
(* categories of each connector stand for its six or seven.                *)
(***************************************************************************)
EXTENDS Integers, Sequences, SequencesExt, FiniteSets, FiniteSetsExt, Functions

CONSTANTS
    MaxLogLines,            \* bound: lines of a log
    MaxIssues,              \* bound: issues of a snapshot
    MaxDiagnosisFindings,   \* MAX_DIAGNOSIS_FINDINGS
    MaxRuleGroups,          \* MAX_RESEARCH_RULE_GROUPS
    MaxFileGroups           \* MAX_RESEARCH_FILE_GROUPS

VARIABLES log,      \* the exact log of a job
          issues    \* the issues of a snapshot

findingVars == <<log, issues>>

\* FindingCategory: the order findings are sorted by.
FindingCategory == <<"tests", "authorization", "aborted", "remote_or_unknown">>

\* The order GitHub's classify_line tests the categories in.
Priority == <<"authorization", "tests", "remote_or_unknown">>

\* Jenkins's.
JenkinsPriority == <<"authorization", "aborted", "tests">>

FindingsInit ==
    \/ /\ log \in SeqOf([size : {1, 3}, marks : SUBSET {"authorization", "aborted", "tests"}], MaxLogLines)
       /\ issues = <<>>
    \/ /\ log = <<>>
       /\ issues \in SeqOf([rule : 1 .. 3, file : 1 .. 2], MaxIssues)

\* The first category, in that order, with a pattern in the line.
ClassifyLine(line, priority) ==
    LET hits == {n \in DOMAIN priority : priority[n] \in line.marks}
    IN  IF hits = {} THEN "none" ELSE priority[Min(hits)]

Offset(n) == FoldLeft(LAMBDA sum, line : sum + line.size, 0, SubSeq(log, 1, n - 1))

\* classify_log: one finding per category, with the range of the first line.
ClassifyLog(priority) ==
    LET step(found, n) ==
            LET category == ClassifyLine(log[n], priority)
            IN  IF category = "none" \/ \E f \in found : f.category = category THEN found
                ELSE found \cup {[category |-> category, offset |-> Offset(n), length |-> log[n].size]}
    IN  FoldLeft(step, {}, [n \in DOMAIN log |-> n])

\* The findings in the order of their categories, cut at the limit.
SortedFindings(priority) ==
    LET found == ClassifyLog(priority)
        here == SelectSeq(FindingCategory, LAMBDA c : \E f \in found : f.category = c)
        all == [n \in DOMAIN here |-> CHOOSE f \in found : f.category = here[n]]
    IN  SubSeq(all, 1, Min({Len(all), MaxDiagnosisFindings}))

\* The status of diagnose_run over the log of its one failed job.
DiagnoseRun(complete) ==
    IF ~complete \/ Cardinality(ClassifyLog(Priority)) > MaxDiagnosisFindings THEN "partial"
    ELSE IF SortedFindings(Priority) = <<>> THEN "unresolved" ELSE "diagnosed"

\* The status of diagnose_console_log.
DiagnoseConsoleLog(complete) ==
    IF ~complete \/ Cardinality(ClassifyLog(JenkinsPriority)) > MaxDiagnosisFindings THEN "partial"
    ELSE IF SortedFindings(JenkinsPriority) = <<>> THEN "unresolved" ELSE "diagnosed"

\* group_issues by one field: [name, count], the largest first and then by name.
GroupIssues(values) ==
    LET count(v) == Cardinality({n \in DOMAIN values : values[n] = v})
    IN  SetToSortSeq({[name |-> v, count |-> count(v)] : v \in Range(values)},
                     LAMBDA a, b : a.count > b.count \/ (a.count = b.count /\ a.name < b.name))

RuleGroups == GroupIssues([n \in DOMAIN issues |-> issues[n].rule])

FileGroups == GroupIssues([n \in DOMAIN issues |-> issues[n].file])

Truncate(groups, limit) == SubSeq(groups, 1, Min({Len(groups), limit}))

\* As a bug would have it: the cut of the files goes unnoticed.
ResearchQualitySnapshotRules(complete, passing) ==
    IF ~complete \/ Len(RuleGroups) > MaxRuleGroups THEN "partial"
    ELSE IF passing /\ issues = <<>> THEN "passing" ELSE "failing"

\* The status of research_quality_snapshot.
ResearchQualitySnapshot(complete, passing) ==
    IF ~complete \/ Len(RuleGroups) > MaxRuleGroups \/ Len(FileGroups) > MaxFileGroups THEN "partial"
    ELSE IF passing /\ issues = <<>> THEN "passing" ELSE "failing"

-----------------------------------------------------------------------------
\* Whether the findings report every category the log shows, each by exactly a
\* line that shows it.
Covers(priority) ==
    LET found == SortedFindings(priority)
        shown == {ClassifyLine(log[n], priority) : n \in DOMAIN log} \ {"none"}
    IN  /\ {found[n].category : n \in DOMAIN found} = shown
        /\ \A n \in DOMAIN found : \E m \in DOMAIN log :
              /\ ClassifyLine(log[m], priority) = found[n].category
              /\ found[n].offset = Offset(m) /\ found[n].length = log[m].size

Total(groups) == FoldLeft(LAMBDA sum, g : sum + g.count, 0, groups)

\* A report that does not call itself partial accounts for all of the evidence
\* it was made from: the retained findings of a diagnosis are the categories the
\* log shows, each anchored at a line that shows it, and the retained groups of
\* a quality snapshot add up to its issues, by rule and by file (the limits of
\* diagnose_run, diagnose_console_log and research_quality_snapshot).
WholeUnlessPartial ==
    \A complete, passing \in BOOLEAN :
        /\ DiagnoseRun(complete) # "partial" => Covers(Priority)
        /\ DiagnoseConsoleLog(complete) # "partial" => Covers(JenkinsPriority)
        /\ ResearchQualitySnapshot(complete, passing) # "partial" =>
             /\ Total(Truncate(RuleGroups, MaxRuleGroups)) = Len(issues)
             /\ Total(Truncate(FileGroups, MaxFileGroups)) = Len(issues)
=============================================================================
