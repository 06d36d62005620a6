----------------------------- MODULE Compaction -----------------------------
(***************************************************************************)
(* The compaction of a command's or a job's log (crates/pam_compact): the  *)
(* records of the log, which of them are dropped and why, and the          *)
(* fragments that stand for all of it.                                     *)
(*                                                                         *)
(* A log is a sequence of bytes; "e" stands for text with one of the       *)
(* failure keywords, "b" for the text of a boilerplate rule, "a" for any   *)
(* other.                                                                  *)
(***************************************************************************)
EXTENDS Integers, Sequences, SequencesExt, FiniteSets, FiniteSetsExt

CONSTANT MaxBytes       \* bound: bytes of a log

VARIABLES bytes,        \* the log
          policy        \* [boundary, context, stages]

compactionVars == <<bytes, policy>>

ASSUME MaxBytes \in Nat

CompactionInit ==
    /\ bytes \in SeqOf({"a", "b", "e", "\r", "\n"}, MaxBytes)
    /\ policy \in [boundary : {0, 1}, context : {0, 1}, stages : {{}, {0, 2}}]

\* validate_metadata: a stage needs a log and lies within it or at its end.
ValidMetadata == \A s \in policy.stages : bytes # <<>> /\ s <= Len(bytes)

\* A record: its bytes, first and past the last from 0, its text without the
\* terminator, and whether a lone carriage return ends it.
Record(start, content, end, progress) ==
    [start |-> start, end |-> end, text |-> SubSeq(bytes, start + 1, content), progress |-> progress]

\* parse_records: one byte at a time; "\r\n" is one terminator.
ParseRecords ==
    LET step(s, c) ==
            LET at == s.cursor
                next == IF at + 1 < Len(bytes) THEN bytes[at + 2] ELSE "none"
                push(end, progress) == [start |-> end, cursor |-> at + 1, skip |-> end - at - 1,
                                        records |-> Append(s.records, Record(s.start, at, end, progress))]
            IN  CASE s.skip > 0 -> [s EXCEPT !.cursor = at + 1, !.skip = @ - 1]
                  [] s.skip = 0 /\ c = "\r" /\ next = "\n" -> push(at + 2, FALSE)
                  [] s.skip = 0 /\ c = "\r" /\ next # "\n" -> push(at + 1, TRUE)
                  [] s.skip = 0 /\ c = "\n" -> push(at + 1, FALSE)
                  [] OTHER -> [s EXCEPT !.cursor = at + 1]
        done == FoldLeft(step, [start |-> 0, cursor |-> 0, skip |-> 0, records |-> <<>>], bytes)
    IN  IF done.start < Len(bytes)
        THEN Append(done.records, Record(done.start, Len(bytes), Len(bytes), FALSE))
        ELSE done.records

-----------------------------------------------------------------------------
\* What is dropped before anything is retained.

\* progress_omissions: a frame is superseded by whatever record follows it.
Superseded(rs, n) == rs[n].progress /\ n < Len(rs)

\* Exact lines that a rule names.
Boilerplate(rs, n) == ~Superseded(rs, n) /\ rs[n].text = <<"b">>

\* As a bug would have it: a repeat is looked for across what was dropped.
RepeatedAcross(rs, n) ==
    /\ ~Superseded(rs, n) /\ ~Boilerplate(rs, n)
    /\ \E m \in 1 .. n - 1 :
        /\ rs[m].text = rs[n].text
        /\ \A k \in m + 1 .. n - 1 : rs[k].text = rs[n].text \/ Superseded(rs, k) \/ Boilerplate(rs, k)

\* apply_repeat_omissions: the text of the record just before, unless that one
\* was dropped for another reason.
Repeated(rs, n) ==
    /\ ~Superseded(rs, n) /\ ~Boilerplate(rs, n)
    /\ n > 1 /\ ~Superseded(rs, n - 1) /\ ~Boilerplate(rs, n - 1)
    /\ rs[n - 1].text = rs[n].text

Omission(rs, n) ==
    IF Superseded(rs, n) THEN "progress"
    ELSE IF Boilerplate(rs, n) THEN "boilerplate"
    ELSE IF Repeated(rs, n) THEN "repeated" ELSE "none"

ActiveIndices(rs) == SelectSeq([n \in DOMAIN rs |-> n], LAMBDA n : Omission(rs, n) = "none")

-----------------------------------------------------------------------------
\* What is retained of the rest.

\* retain_boundaries: the first and the last of the active records.
Boundaries(active) ==
    {active[n] : n \in {k \in DOMAIN active : k <= policy.boundary \/ k > Len(active) - policy.boundary}}

\* The record that holds the offset, or the last one.
RecordAtOrAfter(rs, offset) ==
    LET after == {n \in DOMAIN rs : rs[n].end > offset}
    IN  IF after = {} THEN Len(rs) ELSE Min(after)

NearestActive(active, n) ==
    LET later == {k \in DOMAIN active : active[k] >= n}
    IN  IF active = <<>> THEN {} ELSE {active[IF later = {} THEN Len(active) ELSE Min(later)]}

\* retain_stages.
Stages(rs, active) ==
    UNION {NearestActive(active, RecordAtOrAfter(rs, s)) : s \in policy.stages}

Failing(r) == \E n \in DOMAIN r.text : r.text[n] = "e"

\* retain_failure_neighborhoods: distances are counted in active records.
FailureNeighborhoods(rs, active) ==
    {active[k] : k \in {k \in DOMAIN active :
        \E f \in DOMAIN active : Failing(rs[active[f]]) /\ f - k \in -policy.context .. policy.context}}

\* The disposition of every record.
Dispositions(rs) ==
    LET active == ActiveIndices(rs)
        kept == Boundaries(active) \cup Stages(rs, active) \cup FailureNeighborhoods(rs, active)
    IN  [n \in DOMAIN rs |-> IF Omission(rs, n) # "none" THEN Omission(rs, n)
                             ELSE IF n \in kept THEN "retained" ELSE "outside"]

\* As a bug would have it: a run of dropped records ends a record early.
BuildFragmentsShort(rs, ds) ==
    LET starts == {n \in DOMAIN rs : n = 1 \/ ds[n] = "retained" \/ ds[n] # ds[n - 1]}
        last(n) == Max({m \in n .. Len(rs) : \A k \in n + 1 .. m : k \notin starts})
    IN  [n \in starts |-> [offset |-> rs[n].start, length |-> rs[n].end - rs[n].start,
                           kind |-> ds[n], count |-> last(n) - n + 1]]

\* build_fragments: one fragment per retained record and per run of records
\* dropped for the same reason, keyed here by its first record.
BuildFragments(rs, ds) ==
    LET starts == {n \in DOMAIN rs : n = 1 \/ ds[n] = "retained" \/ ds[n] # ds[n - 1]}
        last(n) == Max({m \in n .. Len(rs) : \A k \in n + 1 .. m : k \notin starts})
    IN  [n \in starts |-> [offset |-> rs[n].start, length |-> rs[last(n)].end - rs[n].start,
                           kind |-> ds[n], count |-> last(n) - n + 1]]

-----------------------------------------------------------------------------
\* compact_log accounts for every byte: in their order the fragments start
\* where the one before ends, from the first byte to the last, and the records
\* they count are all the records of the log.
FragmentsCoverTheLog ==
    ValidMetadata =>
        LET rs == ParseRecords
            fs == BuildFragments(rs, Dispositions(rs))
            order == SetToSortSeq(DOMAIN fs, <)
        IN  /\ \A n \in DOMAIN order :
                 fs[order[n]].offset =
                     IF n = 1 THEN 0 ELSE fs[order[n - 1]].offset + fs[order[n - 1]].length
            /\ order # <<>> =>
                 fs[order[Len(order)]].offset + fs[order[Len(order)]].length = Len(bytes)
            /\ FoldFunction(LAMBDA f, c : f.count + c, 0, fs) = Len(rs)

\* Compaction hides no failure: a record with a failure keyword is retained,
\* unless it is an overwritten progress frame, boilerplate, or a repeat whose
\* first occurrence - the same text, nothing else in between - is retained.
FailuresAreShown ==
    ValidMetadata =>
        LET rs == ParseRecords
            ds == Dispositions(rs)
        IN  \A n \in DOMAIN rs :
              Failing(rs[n]) =>
                \/ ds[n] \in {"retained", "progress", "boilerplate"}
                \/ ds[n] = "repeated"
                   /\ \E m \in 1 .. n - 1 :
                        ds[m] = "retained" /\ \A k \in m .. n : rs[k].text = rs[n].text

\* Compaction loses no byte from its account and hides no failure (compact_log).
LogIsAccountedFor == FragmentsCoverTheLog /\ FailuresAreShown
=============================================================================
