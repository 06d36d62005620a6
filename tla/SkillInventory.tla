--------------------------- MODULE SkillInventory ---------------------------
(***************************************************************************)
(* The inventory of a project's agent files and its audit report, as the   *)
(* CLI and the desktop write them into one store (pam_cli/src/skills.rs,   *)
(* pam_gui/src/skill_inventory.rs and skill_audit.rs, pam_store).  A       *)
(* scanner takes its observation time first, reads the files one after the *)
(* other while others edit them, runs the evaluator when it audits, and    *)
(* then brings the store up to date in one transaction.                    *)
(*                                                                         *)
(* A file's content is a number, 0 for a file that is not there; SkillScan *)
(* has what a scan makes of a file.                                        *)
(***************************************************************************)
EXTENDS Integers, Sequences, FiniteSets, FiniteSetsExt

CONSTANTS Scanners,         \* runs of pam skills list / audit and of the desktop's Skills view
          Paths,            \* 1 .. n: the artifacts a scan reads, in its order
          MaxContent,
          MaxClock,         \* bound: milliseconds that pass
          MaxEdits,         \* bound: changes of files
          MaxRunning,       \* bound: scanners at work at a time
          MaxTombstones     \* MAX_SKILL_INVENTORY_TOMBSTONES_PER_PROJECT

VARIABLES files,            \* what is on disk
          last,             \* history: when each file last had each content, 0 for never
          clock,
          edits,
          scanner,          \* the state of each scanner
          inventory,        \* agent_artifacts: a row, or NoRow
          observed,         \* agent_artifact_inventory.observed_at_ms, 0 for none
          audit             \* skills_audit_reports: [at, footprint, evaluation]

inventoryVars == <<files, last, clock, edits, scanner, inventory, observed, audit>>

NoRow == [content |-> 0, first |-> 0, changed |-> 0, removed |-> 0]
NoAudit == [at |-> 0, footprint |-> {}, evaluation |-> "none"]

\* A scanner that has not begun, or that has returned.
Scanner(pc, at, shown) ==
    [pc |-> pc, audits |-> FALSE, at |-> at, seen |-> <<>>, evaluation |-> "none", shown |-> shown]

InventoryInit ==
    /\ files = [p \in Paths |-> 1]
    /\ last = [p \in Paths |-> [c \in 0 .. MaxContent |-> IF c = 1 THEN 1 ELSE 0]]
    /\ clock = 1 /\ edits = 0
    /\ scanner = [s \in Scanners |-> Scanner("idle", 0, {})]
    /\ inventory = [p \in Paths |-> NoRow]
    /\ observed = 0
    /\ audit = NoAudit

\* The rows that are listed.
Active(rows) == {<<p, rows[p].content>> : p \in {q \in DOMAIN rows : rows[q].content # 0 /\ rows[q].removed = 0}}

\* What a scan found.
Current(seen) == {<<p, seen[p]>> : p \in {q \in DOMAIN seen : seen[q] # 0}}

-----------------------------------------------------------------------------
\* Time and other programs.

Edit(p, c) ==
    /\ edits < MaxEdits /\ c # files[p]
    /\ files' = [files EXCEPT ![p] = c]
    /\ last' = [last EXCEPT ![p][c] = clock]
    /\ edits' = edits + 1
    /\ UNCHANGED <<clock, scanner, inventory, observed, audit>>

Tick ==
    /\ clock < MaxClock
    /\ clock' = clock + 1
    /\ last' = [p \in Paths |-> [last[p] EXCEPT ![files[p]] = clock + 1]]
    /\ UNCHANGED <<files, edits, scanner, inventory, observed, audit>>

-----------------------------------------------------------------------------
\* The store.

\* prune_skill_inventory_tombstones: the latest MaxTombstones, by time removed
\* and then by id.
Prune(rows) ==
    LET dead == {p \in DOMAIN rows : rows[p].removed # 0}
        before(p) == {q \in dead : rows[q].removed > rows[p].removed \/ (rows[q].removed = rows[p].removed /\ q < p)}
    IN  [p \in DOMAIN rows |-> IF p \in dead /\ Cardinality(before(p)) >= MaxTombstones THEN NoRow ELSE rows[p]]

\* reconcile_skill_artifact, and add_skill_artifact where there is no row.
Reconcile(row, content, at) ==
    IF row = NoRow THEN [content |-> content, first |-> at, changed |-> at, removed |-> 0]
    ELSE [row EXCEPT !.content = content, !.changed = IF row.content = content THEN @ ELSE at, !.removed = 0]

\* remove_skill_artifact; a row that is already a tombstone stays as it is.
RemoveRow(row, at) == IF row = NoRow \/ row.removed # 0 THEN row ELSE [row EXCEPT !.removed = at]

\* ensure_inventory_time, for every row the transaction would change.
InTime(row, content, at) ==
    IF row = NoRow THEN TRUE
    ELSE IF content # 0
         THEN (row.removed # 0 => at >= row.removed) /\ (row.content # content => at >= row.changed)
         ELSE row.removed = 0 => at >= row.changed

Stored(rows, at) == [ok |-> TRUE, rows |-> rows, observed |-> at]

Refused == [ok |-> FALSE, rows |-> inventory, observed |-> observed]

\* As a bug would have it: a scan of the same moment is taken as it comes.
RescanAnew(seen, at) ==
    LET rows == Prune(inventory)
    IN  IF at < observed THEN Refused
        ELSE IF at = observed THEN Stored(rows, at)
        ELSE Stored(Prune([p \in Paths |-> IF seen[p] = 0 THEN RemoveRow(rows[p], at)
                                           ELSE Reconcile(rows[p], seen[p], at)]), at)

\* As a bug would have it: a later transaction wins, whatever it has seen.
RescanLatest(seen, at) ==
    LET rows == Prune(inventory)
    IN  Stored(Prune([p \in Paths |-> IF seen[p] = 0 THEN RemoveRow(rows[p], at) ELSE Reconcile(rows[p], seen[p], at)]), at)

\* rescan_skill_inventory_in_transaction.
Rescan(seen, at) ==
    LET rows == Prune(inventory)
    IN  IF at < observed THEN Refused
        ELSE IF at = observed
        THEN IF Active(inventory) = Current(seen) THEN Stored(rows, at) ELSE Refused
        ELSE IF \E p \in Paths : ~InTime(rows[p], seen[p], at) THEN Refused
        ELSE Stored(Prune([p \in Paths |-> IF seen[p] = 0 THEN RemoveRow(rows[p], at)
                                           ELSE Reconcile(rows[p], seen[p], at)]), at)

\* put_skills_audit_report_in_transaction
PutReport(candidate) ==
    IF candidate.at < audit.at \/ (candidate.at = audit.at /\ candidate # audit)
    THEN [ok |-> FALSE, audit |-> audit] ELSE [ok |-> TRUE, audit |-> candidate]

-----------------------------------------------------------------------------
\* A scanner.

At(s, pc) == scanner[s].pc = pc

\* discover: the time is taken before anything is read.
Discover(s, audits) ==
    /\ At(s, "idle") /\ Cardinality({t \in Scanners : scanner[t].pc \in {"scan", "evaluated", "list"}}) < MaxRunning
    /\ scanner' = [scanner EXCEPT ![s].pc = "scan", ![s].audits = audits, ![s].at = clock]
    /\ UNCHANGED <<files, last, clock, edits, inventory, observed, audit>>

ReadFile(s) ==
    /\ At(s, "scan") /\ Len(scanner[s].seen) < Cardinality(Paths)
    /\ scanner' = [scanner EXCEPT ![s].seen = Append(@, files[Len(@) + 1])]
    /\ UNCHANGED <<files, last, clock, edits, inventory, observed, audit>>

\* An incomplete scan, or an audit that cannot be built, does not reach the
\* store.  A scanner that is killed takes no further step.
Fail(s) ==
    /\ At(s, "scan") /\ Len(scanner[s].seen) = Cardinality(Paths)
    /\ scanner' = [scanner EXCEPT ![s] = Scanner("failed", 0, {})]
    /\ UNCHANGED <<files, last, clock, edits, inventory, observed, audit>>

\* run_skills_audit: without an evaluator, or when it fails, the report has
\* the footprint alone.
Evaluate(s, outcome) ==
    /\ At(s, "scan") /\ Len(scanner[s].seen) = Cardinality(Paths) /\ scanner[s].audits
    /\ scanner' = [scanner EXCEPT ![s].pc = "evaluated", ![s].evaluation = outcome]
    /\ UNCHANGED <<files, last, clock, edits, inventory, observed, audit>>

\* run_inventory and persist_inventory: the rescan ...
StoreScan(s) ==
    LET result == Rescan(scanner[s].seen, scanner[s].at)
    IN  /\ At(s, "scan") /\ Len(scanner[s].seen) = Cardinality(Paths) /\ ~scanner[s].audits
        /\ scanner' = [scanner EXCEPT ![s] = IF result.ok THEN Scanner("list", @.at, {}) ELSE Scanner("failed", 0, {})]
        /\ inventory' = result.rows /\ observed' = result.observed
        /\ UNCHANGED <<files, last, clock, edits, audit>>

\* ... and the listing, in a transaction of its own.
ListRecords(s) ==
    /\ At(s, "list")
    /\ scanner' = [scanner EXCEPT ![s] = Scanner("done", @.at, Active(inventory))]
    /\ UNCHANGED <<files, last, clock, edits, inventory, observed, audit>>

\* put_skills_audit_snapshot: inventory and report, or neither.
StoreSnapshot(s) ==
    LET result == Rescan(scanner[s].seen, scanner[s].at)
        put == PutReport([at |-> scanner[s].at, footprint |-> Current(scanner[s].seen),
                          evaluation |-> scanner[s].evaluation])
        ok == result.ok /\ put.ok
    IN  /\ At(s, "evaluated")
        /\ scanner' = [scanner EXCEPT ![s] = IF ok THEN Scanner("done", @.at, Current(@.seen))
                                                ELSE Scanner("failed", 0, {})]
        /\ IF ok THEN inventory' = result.rows /\ observed' = result.observed /\ audit' = put.audit
                 ELSE UNCHANGED <<inventory, observed, audit>>
        /\ UNCHANGED <<files, last, clock, edits>>

InventoryNext ==
    \/ \E p \in Paths, c \in 0 .. MaxContent : Edit(p, c)
    \/ Tick
    \/ \E s \in Scanners :
          \/ \E audits \in BOOLEAN : Discover(s, audits)
          \/ ReadFile(s) \/ Fail(s) \/ StoreScan(s) \/ ListRecords(s) \/ StoreSnapshot(s)
          \/ \E outcome \in {"none", "evaluated"} : Evaluate(s, outcome)

-----------------------------------------------------------------------------
\* Every artifact of a listing, and every one it does not have, was so at
\* some moment not before the given time.
Fresh(listing, at) ==
    \A p \in Paths : IF \E c \in 1 .. MaxContent : <<p, c>> \in listing
                     THEN \A c \in 1 .. MaxContent : <<p, c>> \in listing => last[p][c] >= at
                     ELSE last[p][0] >= at

\* No scanner puts back what a later one has replaced: the inventory is as
\* fresh as the latest scan that succeeded, what a scanner shows is as fresh
\* as that scanner, and the timestamps of a row never stop a rescan that its
\* observation time lets through (rescan_skill_inventory_in_transaction).
InventoryIsFresh ==
    /\ \A s \in Scanners : scanner[s].pc \in {"list", "done"} => Fresh(Active(inventory), scanner[s].at)
    /\ \A s \in Scanners : At(s, "done") => Fresh(scanner[s].shown, scanner[s].at)
    /\ \A p \in Paths, c \in 0 .. MaxContent : InTime(inventory[p], c, observed)
    /\ Cardinality({p \in Paths : inventory[p].removed # 0}) <= MaxTombstones

\* The report and the inventory are one snapshot: a report is never ahead of
\* the inventory, and one of the same time counts the artifacts that are
\* listed (put_skills_audit_snapshot).
SnapshotAgrees ==
    /\ audit.at <= observed
    /\ audit # NoAudit /\ audit.at = observed => audit.footprint = Active(inventory)

\* However scanners and changes interleave, the store holds one snapshot, the
\* latest (rescan_skill_inventory_in_transaction, put_skills_audit_snapshot).
InventoryIsOneSnapshot == InventoryIsFresh /\ SnapshotAgrees
=============================================================================
