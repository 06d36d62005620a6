---------------------------- MODULE SkillVerdict ----------------------------
(***************************************************************************)
(* What the audit accepts of an evaluator's answer                         *)
(* (crates/pam_skills/src/verdict.rs and report.rs), and what the desktop  *)
(* makes of the verdict when it reads the stored report.                   *)
(*                                                                         *)
(* A raw verdict is [overlaps, stale], each a list of findings in the      *)
(* order of the answer; conflicts are a second list of the shape of        *)
(* overlaps.  An artifact id is a number; the ids of the corpus are        *)
(* allowed, others are foreign or malformed.  A text is "fine", "bad"      *)
(* (empty, too long or with control characters) or "echo", one that        *)
(* repeats a secret or a piece of a source.                                *)
(***************************************************************************)
EXTENDS Integers, Sequences, SequencesExt, FiniteSets

CONSTANTS Corpus,           \* the ids of the footprint
          MaxIds,           \* MAX_VERDICT_ARTIFACT_IDS_PER_FINDING
          MaxVerdictFindings \* MAX_VERDICT_FINDINGS_PER_CATEGORY

VARIABLE raw

Invalid == [ok |-> FALSE, overlaps |-> <<>>, stale |-> <<>>]

\* AgentArtifactId and its order.
Before(a, b) == a < b

\* Lists of ids compare element by element, a prefix before its extensions.
ListBefore(a, b) ==
    \E n \in 1 .. Len(b) : /\ \A m \in 1 .. n - 1 : m <= Len(a) /\ a[m] = b[m]
                           /\ n > Len(a) \/ Before(a[n], b[n])

\* No two neighbours are the same: enough for a sorted list.
NoNeighbours(list) == \A n \in 1 .. Len(list) - 1 : list[n] # list[n + 1]

\* validate_text
ValidText(text) == text # "bad"

\* As a bug would have it: neighbours of the list as it came.
ValidateArtifactIdsUnsorted(ids) ==
    [ok |-> Len(ids) \in 2 .. MaxIds /\ Range(ids) \subseteq Corpus /\ NoNeighbours(ids), ids |-> SortSeq(ids, Before)]

\* validate_artifact_ids and parse_allowed_artifact_id: sorted, each once.
ValidateArtifactIds(ids) ==
    LET sorted == SortSeq(ids, Before)
    IN  [ok |-> Len(ids) \in 2 .. MaxIds /\ Range(ids) \subseteq Corpus /\ NoNeighbours(sorted), ids |-> sorted]

\* A list of overlaps or of conflicts; reject_duplicate_multi_findings looks
\* at neighbours once they are sorted by their ids.
ParseFindings(findings) ==
    LET parsed == [n \in DOMAIN findings |-> [ids |-> ValidateArtifactIds(findings[n].ids).ids, text |-> findings[n].text]]
        sorted == SortSeq(parsed, LAMBDA f, g : ListBefore(f.ids, g.ids))
    IN  [ok |-> /\ Len(findings) <= MaxVerdictFindings
                /\ \A n \in DOMAIN findings : ValidText(findings[n].text) /\ ValidateArtifactIds(findings[n].ids).ok
                /\ NoNeighbours([n \in DOMAIN sorted |-> sorted[n].ids]),
         findings |-> sorted]

ParseStale(stale) ==
    LET sorted == SortSeq(stale, LAMBDA f, g : Before(f.id, g.id))
    IN  [ok |-> /\ Len(stale) <= MaxVerdictFindings
                /\ \A n \in DOMAIN stale : ValidText(stale[n].text) /\ stale[n].id \in Corpus
                /\ NoNeighbours([n \in DOMAIN sorted |-> sorted[n].id]),
         findings |-> sorted]

\* parse_skills_audit_verdict
ParseVerdict(v) ==
    LET overlaps == ParseFindings(v.overlaps)
        stale == ParseStale(v.stale)
    IN  IF overlaps.ok /\ stale.ok THEN [ok |-> TRUE, overlaps |-> overlaps.findings, stale |-> stale.findings] ELSE Invalid

\* verdict_is_private
VerdictIsPrivate(v) == \A f \in Range(v.overlaps) \cup Range(v.stale) : f.text # "echo"

\* The part of run_skills_audit after the evaluator has answered.
Evaluation(v) ==
    LET verdict == ParseVerdict(v)
    IN  IF verdict.ok /\ VerdictIsPrivate(verdict) THEN verdict ELSE Invalid

\* evaluation_dto: the stored verdict is encoded and parsed again.
EvaluationDto(verdict) == ParseVerdict([overlaps |-> verdict.overlaps, stale |-> verdict.stale])

-----------------------------------------------------------------------------
\* An accepted verdict is canonical.  It names artifacts of the corpus, each
\* once in a finding and no set of them twice in a list; the order of the
\* evaluator's answer does not show; and the desktop reads back exactly the
\* verdict that was stored.
AcceptedVerdictIsCanonical ==
    LET verdict == Evaluation(raw)
        turned == [overlaps |-> Reverse([n \in DOMAIN raw.overlaps |-> [raw.overlaps[n] EXCEPT !.ids = Reverse(@)]]),
                   stale |-> Reverse(raw.stale)]
        sets == [n \in DOMAIN verdict.overlaps |-> Range(verdict.overlaps[n].ids)]
    IN  /\ Evaluation(turned) = verdict
        /\ verdict.ok =>
              /\ \A n \in DOMAIN sets : sets[n] \subseteq Corpus /\ Cardinality(sets[n]) = Len(verdict.overlaps[n].ids)
              /\ \A m, n \in DOMAIN sets : sets[m] = sets[n] => m = n
              /\ \A m, n \in DOMAIN verdict.stale : verdict.stale[m].id = verdict.stale[n].id => m = n
              /\ EvaluationDto(verdict) = verdict
=============================================================================
