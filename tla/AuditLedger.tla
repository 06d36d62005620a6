---------------------------- MODULE AuditLedger ----------------------------
(***************************************************************************)
(* The audit ledger of the store (crates/pam_store/src/store.rs) and the   *)
(* three commands that page through it, prune it and empty it              *)
(* (crates/pam_cli/src/app.rs, crates/pam_daemon/src/lifecycle.rs).        *)
(*                                                                         *)
(* Every operation of the daemon or the CLI appends one event per decision *)
(* under an event id nobody used before, so the duplicate-id branch of an  *)
(* append is never met.  An export is a series of commands run by an       *)
(* operator: the first captures the ledger's high-water sequence, and each *)
(* later one passes that sequence and the cursor the page before it        *)
(* printed.  The commands run in processes of their own, beside the daemon *)
(* and beside each other, and may be killed between any two transactions.  *)
(***************************************************************************)
EXTENDS Integers, FiniteSets, SequencesExt, FiniteSetsExt

CONSTANTS
    Projects,       \* the projects with events in the ledger
    PageLimit,      \* --limit of both commands
    Retention,      \* AUDIT_RETENTION_MS, in ticks
    DayLength,      \* DAY_MS, in ticks
    MaxTime,        \* bound: ticks of the clock
    MaxEvents       \* bound: events ever appended

VARIABLES
    time,           \* now_ms
    ledger,         \* audit_events: a set of rows [sequence, id, project, until]
    autoincrement,  \* sqlite_sequence: the largest sequence ever given out
    born,           \* the ids given to events so far
    activity,       \* activity_days
    export,         \* one export an operator carries through
    retention,      \* one pam retention prune
    resetting       \* the project whose history reset is not yet recorded

ledgerVars == <<time, ledger, autoincrement, born, activity, export, retention, resetting>>

\* No page yet: the first command passes no --through.
Capture == -1

\* NoExport: no export is under way.
NoExport == [step |-> "idle", project |-> CHOOSE p \in Projects : TRUE,
             after |-> 0, through |-> Capture, pages |-> <<>>]

NoRetention == [step |-> "idle", project |-> CHOOSE p \in Projects : TRUE, now |-> 0]

LedgerInit ==
    /\ time = 0
    /\ ledger = {}
    /\ autoincrement = 0
    /\ born = 0
    /\ activity = [d \in 0 .. MaxTime \div DayLength |-> 0]
    /\ export = NoExport
    /\ retention = NoRetention
    /\ resetting = {}

LedgerTick ==
    /\ time < MaxTime
    /\ time' = time + 1
    /\ UNCHANGED <<ledger, autoincrement, born, activity, export, retention, resetting>>

\* The rows of a project that a statement ordered by sequence with a LIMIT
\* returns.
First(rows, limit) ==
    {r \in rows : Cardinality({s \in rows : s.sequence < r.sequence}) < limit}

InOrder(rows) == SetToSortSeq(rows, LAMBDA a, b : a.sequence < b.sequence)

\* As a bug would have it: INTEGER PRIMARY KEY without AUTOINCREMENT.
AppendEventReusing(p) ==
    LET next == Max({0} \cup {r.sequence : r \in ledger}) + 1
    IN  /\ born < MaxEvents
        /\ ledger' = ledger \cup {[sequence |-> next, id |-> born + 1, project |-> p, until |-> time + Retention]}
        /\ autoincrement' = next
        /\ born' = born + 1
        /\ activity' = [activity EXCEPT ![time \div DayLength] = @ + 1]

\* append_audit_event_tx: the row and the day's rollup.
AppendEvent(p) ==
    /\ born < MaxEvents
    /\ ledger' = ledger \cup {[sequence |-> autoincrement + 1, id |-> born + 1, project |-> p, until |-> time + Retention]}
    /\ autoincrement' = autoincrement + 1
    /\ born' = born + 1
    /\ activity' = [activity EXCEPT ![time \div DayLength] = @ + 1]

\* Any audited operation of the daemon or another command.
Operate(p) == AppendEvent(p) /\ UNCHANGED <<time, export, retention, resetting>>

\* A history reset deletes every row and leaves the rollup and sqlite_sequence.
\* The daemon carries one out at a time (a bound).
ResetHistory(p) ==
    /\ resetting = {}
    /\ ledger' = {}
    /\ resetting' = {p}
    /\ UNCHANGED <<time, autoincrement, born, activity, export, retention>>

\* handle_reset records it in a transaction of its own, unless the daemon dies
\* before.
RecordReset(p) ==
    /\ p \in resetting
    /\ \/ AppendEvent(p)
       \/ UNCHANGED <<ledger, autoincrement, born, activity>>
    /\ resetting' = {}
    /\ UNCHANGED <<time, export, retention>>

-----------------------------------------------------------------------------
\* pam audit export

\* The operator starts an export, or goes on with it while a page says that
\* there is more.  The decision of authorize_local_operation is an event of
\* its own, before the page is read; a refusal ends the command.
AuthorizeExport(p) ==
    /\ export.step \in {"idle", "more"}
    /\ export.step = "more" => p = export.project
    /\ AppendEvent(p)
    /\ \E allowed \in BOOLEAN :
          export' = IF allowed THEN [export EXCEPT !.step = "allowed", !.project = p] ELSE export
    /\ UNCHANGED <<time, retention, resetting>>

\* The command fails, or is killed, before its page is published; the output
\* file is linked into place as a whole or not at all.
AbandonPage ==
    /\ export.step = "allowed"
    /\ export' = [export EXCEPT !.step = IF export.pages = <<>> THEN "idle" ELSE "more"]
    /\ UNCHANGED <<time, ledger, autoincrement, born, activity, retention, resetting>>

\* export_audit_events: the page, or the error of a cursor that the ledger no
\* longer reaches.
ExportAuditEvents(e) ==
    LET maximum == Max({0} \cup {r.sequence : r \in ledger})
        through == IF e.through = Capture THEN maximum ELSE e.through
        rows == {r \in ledger : r.project = e.project /\ r.sequence > e.after /\ r.sequence <= through}
        events == InOrder(First(rows, PageLimit))
    IN  IF through > maximum THEN [ok |-> FALSE, error |-> "AuditHighWaterAhead"]
        ELSE IF through < e.after THEN [ok |-> FALSE, error |-> "InvalidAuditCursorRange"]
        ELSE [ok |-> TRUE, events |-> events, through |-> through, more |-> Cardinality(rows) > PageLimit,
              next |-> IF events = <<>> THEN e.after ELSE Last(events).sequence]

\* The read, and the page published with write_new_output.  An operator whose
\* cursor is refused has to start again.
ExportPage ==
    /\ export.step = "allowed"
    /\ LET page == ExportAuditEvents(export)
       IN  export' = IF ~page.ok THEN [export EXCEPT !.step = "refused"]
                     ELSE [export EXCEPT !.step = IF page.more THEN "more" ELSE "done",
                                         !.after = page.next, !.through = page.through,
                                         !.pages = Append(@, page.events)]
    /\ UNCHANGED <<time, ledger, autoincrement, born, activity, retention, resetting>>

-----------------------------------------------------------------------------
\* pam retention prune

\* now is read before the command is authorized.
StartPrune(p) ==
    /\ retention.step = "idle"
    /\ retention' = [step |-> "authorize", project |-> p, now |-> time]
    /\ UNCHANGED <<time, ledger, autoincrement, born, activity, export, resetting>>

\* Authorization and, once the evidence is pruned, the record of that: one
\* event each.  The command also ends here when it is refused, the evidence
\* cannot be pruned or the process is killed.
RecordRetention ==
    /\ retention.step \in {"authorize", "evidence", "pruned"}
    /\ \/ /\ AppendEvent(retention.project)
          /\ retention' = IF retention.step = "authorize" THEN [retention EXCEPT !.step = "evidence"]
                          ELSE IF retention.step = "evidence" THEN [retention EXCEPT !.step = "audit"]
                          ELSE NoRetention
       \/ retention' = NoRetention /\ UNCHANGED <<ledger, autoincrement, born, activity>>
    /\ UNCHANGED <<time, export, resetting>>

\* prune_audit_events: the oldest expired rows of the project, as many as the
\* limit allows.
PruneAuditEvents ==
    /\ retention.step = "audit"
    /\ ledger' = ledger \ First({r \in ledger : r.project = retention.project /\ r.until <= retention.now}, PageLimit)
    /\ retention' = [retention EXCEPT !.step = "pruned"]
    /\ UNCHANGED <<time, autoincrement, born, activity, export, resetting>>

LedgerNext ==
    \/ LedgerTick
    \/ \E p \in Projects : Operate(p) \/ ResetHistory(p) \/ RecordReset(p) \/ AuthorizeExport(p) \/ StartPrune(p)
    \/ AbandonPage
    \/ ExportPage
    \/ RecordRetention
    \/ PruneAuditEvents

-----------------------------------------------------------------------------
\* The pages of an export, put one behind the other, are the project's events
\* in order and without repetition, all within the captured high-water mark.
\* Every event of the project that the ledger still holds below the cursor is
\* among them, and once export_audit_events says there is no more, every one
\* below the high-water mark is; appends, pruning and a history reset between
\* the pages notwithstanding.
ExportIsWhole ==
    LET events == FlattenSeq(export.pages)
        below == IF export.step = "done" THEN export.through ELSE export.after
    IN  export.pages # <<>> =>
          /\ \A i \in 1 .. Len(events) - 1 : events[i].sequence < events[i + 1].sequence
          /\ \A r \in ToSet(events) : r.project = export.project /\ r.sequence <= export.through
          /\ {r \in ledger : r.project = export.project /\ r.sequence <= below} \subseteq ToSet(events)
=============================================================================
