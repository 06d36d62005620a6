---------------------------- MODULE EvidenceStore ----------------------------
(***************************************************************************)
(* The evidence store: content-addressed blob files beside the SQLite      *)
(* tables that name them (crates/pam_store/src/evidence.rs), and the loop  *)
(* of the history reset that purges them (crates/pam_daemon/src/reset.rs). *)
(*                                                                         *)
(* Every process that opens the store runs one evidence worker on its own  *)
(* connection: the daemon puts evidence and runs the reset's purge, a CLI  *)
(* process prunes.  A worker takes one command at a time; the steps of two *)
(* workers interleave, a SQLite transaction being one step because it      *)
(* takes the writer lock before it reads.  A worker may die at any point   *)
(* and any file or database call may fail.                                 *)
(*                                                                         *)
(* The evidence_gc_attempts table only orders the page of blobs a cleanup  *)
(* looks at; here a cleanup looks at any page of the right size.           *)
(***************************************************************************)
EXTENDS Naturals, FiniteSets

CONSTANTS
    Daemon,         \* the daemon's evidence worker
    Clis,           \* evidence workers of `pam evidence prune` processes
    Projects,
    Names,          \* handle URIs; the key of a row is a project and a name
    Digests,        \* contents
    None,
    PageLimit,      \* `limit` of a prune or purge
    MaxPuts,        \* bound: install attempts in a behaviour
    MaxRounds       \* EVIDENCE_PURGE_ROUNDS

ASSUME EvidenceAssumption ==
    /\ PageLimit \in Nat \ {0} /\ MaxPuts \in Nat /\ MaxRounds \in Nat
    /\ None \notin Digests /\ IsFiniteSet(Projects \X Names)

VARIABLES
    handles,    \* evidence_handles: key -> row or None
    blobRows,   \* evidence_blobs: digests with a row
    intents,    \* evidence_install_intents: attempt ids with a row
    digestOf,   \* attempt id -> the digest it installs
    stale,      \* attempt ids whose started_at_ms is past the grace period
    files,      \* digests whose blob file exists
    temps,      \* attempt ids whose temporary file exists
    attempts,   \* install attempts made so far
    worker,     \* worker -> the command it is running
    reset,      \* the history reset's purge loop
    outlived    \* digests of a put still running when its intent went stale
                \* (history)

vars == <<handles, blobRows, intents, digestOf, stale, files, temps,
          attempts, worker, reset, outlived>>

Workers == {Daemon} \cup Clis
Keys == Projects \X Names
Retentions == {"session", "persistent"}

Row == [digest : Digests, retention : Retentions]

Idle == [pc |-> "idle", key |-> None, row |-> None, attempt |-> 0,
         todo |-> {}, more |-> FALSE, purge |-> FALSE]

ResetEnd(state) == [state |-> state, rounds |-> 0, doomed |-> {}, fresh |-> {}]

PutStages == {"install", "link", "drop", "commit", "clear"}

Init ==
    /\ handles = [k \in Keys |-> None]
    /\ blobRows = {} /\ intents = {} /\ stale = {} /\ files = {} /\ temps = {}
    /\ digestOf = [a \in 1..MaxPuts |-> None]
    /\ attempts = 0
    /\ worker = [w \in Workers |-> Idle]
    /\ reset = ResetEnd("off")
    /\ outlived = {}

Present == {k \in Keys : handles[k] # None}
Referenced(d) == \E k \in Present : handles[k].digest = d

(***************************************************************************)
(* put.  The early return for a handle already stored changes nothing and  *)
(* is not a step.                                                          *)
(***************************************************************************)
\* record_install_intent, committed on its own before any file is written.
PutStart(w, k, row) ==
    /\ worker[w].pc = "idle"
    /\ attempts < MaxPuts
    /\ handles[k] = None
    /\ attempts' = attempts + 1
    /\ intents' = intents \cup {attempts'}
    /\ digestOf' = [digestOf EXCEPT ![attempts'] = row.digest]
    /\ worker' = [worker EXCEPT ![w] =
            [Idle EXCEPT !.pc = "install", !.key = k, !.row = row,
                         !.attempt = attempts']]
    /\ UNCHANGED <<handles, blobRows, stale, files, temps, reset, outlived>>

\* A verified blob is reused; otherwise the bytes go to a temporary file.
InstallBlob(w) ==
    /\ worker[w].pc = "install"
    /\ IF worker[w].row.digest \in files
       THEN /\ worker' = [worker EXCEPT ![w].pc = "commit"]
            /\ UNCHANGED temps
       ELSE /\ worker' = [worker EXCEPT ![w].pc = "link"]
            /\ temps' = temps \cup {worker[w].attempt}
    /\ UNCHANGED <<handles, blobRows, intents, digestOf, stale, files,
                   attempts, reset, outlived>>

\* hard_link publishes the synced temporary under the digest's name.  It
\* fails when a cleanup has removed the temporary.
LinkBlob(w) ==
    /\ worker[w].pc = "link"
    /\ IF worker[w].attempt \in temps
       THEN /\ files' = files \cup {worker[w].row.digest}
            /\ worker' = [worker EXCEPT ![w].pc = "drop"]
       ELSE /\ worker' = [worker EXCEPT ![w] = Idle]
            /\ UNCHANGED files
    /\ UNCHANGED <<handles, blobRows, intents, digestOf, stale, temps,
                   attempts, reset, outlived>>

\* TemporaryFile::drop removes the temporary name.
DropTemporary(w) ==
    /\ worker[w].pc = "drop"
    /\ temps' = temps \ {worker[w].attempt}
    /\ worker' = [worker EXCEPT ![w].pc = "commit"]
    /\ UNCHANGED <<handles, blobRows, intents, digestOf, stale, files,
                   attempts, reset, outlived>>

\* Mutant: the transaction trusts the optimistic install.
EnsureBlobEntryTrusting(d) == files

\* ensure_blob_entry: reinstall a blob that a cleanup removed meanwhile.
EnsureBlobEntry(d) == files \cup {d}

\* ensure_same_mapping: the handle is new or maps to the same content.
EnsureSameMapping(k, row) == handles[k] \in {None, row}

\* The IMMEDIATE transaction that publishes the handle.  Another mapping of the
\* handle is refused, and the intent stays; that takes a put of another process
\* between the early return and here.
PutCommit(w) ==
    LET k == worker[w].key
        row == worker[w].row
        same == EnsureSameMapping(k, row)
    IN  /\ worker[w].pc = "commit"
        /\ files' = IF same THEN EnsureBlobEntry(row.digest) ELSE files
        /\ blobRows' = IF handles[k] = None THEN blobRows \cup {row.digest} ELSE blobRows
        /\ handles' = IF handles[k] = None THEN [handles EXCEPT ![k] = row] ELSE handles
        /\ worker' = [worker EXCEPT ![w] = IF same THEN [@ EXCEPT !.pc = "clear"] ELSE Idle]
        /\ reset' = IF ~same \/ reset.state \notin {"running", "cleared"} THEN reset
                    ELSE [reset EXCEPT !.doomed = @ \ {k},
                                       !.fresh = @ \cup {row.digest}]
        /\ UNCHANGED <<intents, digestOf, stale, temps, attempts, outlived>>

\* The transaction rolls back after its file work: a failed commit, or a
\* death inside it, which may leave the reinstall's temporary behind.
PutRolledBack(w) ==
    LET d == worker[w].row.digest
    IN  /\ worker[w].pc = "commit"
        /\ files' = EnsureBlobEntry(d)
        /\ temps' \in {temps} \cup
                (IF d \in files THEN {} ELSE {temps \cup {worker[w].attempt}})
        /\ worker' = [worker EXCEPT ![w] = Idle]
        /\ UNCHANGED <<handles, blobRows, intents, digestOf, stale, attempts,
                       reset, outlived>>

ClearInstallIntent(w) ==
    /\ worker[w].pc = "clear"
    /\ intents' = intents \ {worker[w].attempt}
    /\ worker' = [worker EXCEPT ![w] = Idle]
    /\ UNCHANGED <<handles, blobRows, digestOf, stale, files, temps, attempts,
                   reset, outlived>>

\* A file or database error ends the command; the temporary is dropped.
PutFails(w) ==
    /\ worker[w].pc \in PutStages
    /\ temps' = temps \ {worker[w].attempt}
    /\ worker' = [worker EXCEPT ![w] = Idle]
    /\ UNCHANGED <<handles, blobRows, intents, digestOf, stale, files,
                   attempts, reset, outlived>>

\* The process dies; the next one starts idle on the same directory.  The
\* reset's client loses its answer when the purge it waits for dies.
Die(w) ==
    /\ worker[w].pc # "idle"
    /\ worker' = [worker EXCEPT ![w] = Idle]
    /\ reset' = IF worker[w].purge
                THEN ResetEnd("lost") ELSE reset
    /\ UNCHANGED <<handles, blobRows, intents, digestOf, stale, files, temps,
                   attempts, outlived>>

\* The attempts whose put is still running on a worker.
Running(a) == \E v \in Workers : /\ worker[v].pc \in PutStages
                                 /\ worker[v].attempt = a

\* INSTALL_INTENT_GRACE_MS pass since the attempt started, oldest first.
IntentAges(a) ==
    /\ a \in intents \ stale
    /\ \A b \in intents \ stale : a <= b
    /\ stale' = stale \cup {a}
    /\ outlived' = IF Running(a) THEN outlived \cup {digestOf[a]} ELSE outlived
    /\ UNCHANGED <<handles, blobRows, intents, digestOf, files, temps,
                   attempts, worker, reset>>

(***************************************************************************)
(* prune and purge_all.                                                    *)
(***************************************************************************)
\* A page of at most PageLimit members of S, with whether S had more.
Pages(S) ==
    {P \in SUBSET S : Cardinality(P) =
        IF Cardinality(S) < PageLimit THEN Cardinality(S) ELSE PageLimit}
HasMore(S) == Cardinality(S) > PageLimit

\* Mutant: the retention class is not part of the selection.
PruneAnyRetention(w, project, old) ==
    /\ worker[w].pc = "idle"
    /\ old \subseteq {k \in Present : k[1] = project}
    /\ \E page \in Pages(old) :
        handles' = [k \in Keys |-> IF k \in page THEN None ELSE handles[k]]
    /\ worker' = [worker EXCEPT ![w] =
            [Idle EXCEPT !.pc = "select_intents", !.more = HasMore(old)]]
    /\ UNCHANGED <<blobRows, intents, digestOf, stale, files, temps, attempts,
                   reset, outlived>>

\* The rows of a project past the cutoff, never a persistent one.
Prune(w, project, old) ==
    /\ worker[w].pc = "idle"
    /\ old \subseteq {k \in Present : k[1] = project
                                      /\ handles[k].retention # "persistent"}
    /\ \E page \in Pages(old) :
        handles' = [k \in Keys |-> IF k \in page THEN None ELSE handles[k]]
    /\ worker' = [worker EXCEPT ![w] =
            [Idle EXCEPT !.pc = "select_intents", !.more = HasMore(old)]]
    /\ UNCHANGED <<blobRows, intents, digestOf, stale, files, temps, attempts,
                   reset, outlived>>

\* The rows a purge deletes for a page of keys: its DELETE names the handle
\* only, and expects to delete one row.
NamedLike(k) == {j \in Present : j[2] = k[2]}
PurgeRefuses(page) == \E k \in page : Cardinality(NamedLike(k)) # 1

PurgeAll(w) ==
    /\ worker[w].pc = "idle"
    /\ reset.state = "running"
    /\ IF reset.rounds = MaxRounds
       THEN /\ reset' = ResetEnd("exhausted")
            /\ UNCHANGED <<handles, worker>>
       ELSE \E page \in Pages(Present) :
            IF PurgeRefuses(page)
            THEN /\ reset' = ResetEnd("refused")
                 /\ UNCHANGED <<handles, worker>>
            ELSE /\ handles' = [k \in Keys |->
                        IF k \in page THEN None ELSE handles[k]]
                 /\ reset' = [reset EXCEPT !.rounds = @ + 1]
                 /\ worker' = [worker EXCEPT ![w] =
                        [Idle EXCEPT !.pc = "select_intents",
                                     !.more = HasMore(Present), !.purge = TRUE]]
    /\ UNCHANGED <<blobRows, intents, digestOf, stale, files, temps, attempts,
                   outlived>>

\* history_items: the first round of a reset.  `doomed` and `fresh` are
\* history: the rows it must clear, and the digests put since.  One reset in
\* a behaviour.
StartReset ==
    /\ reset.state = "off"
    /\ reset' = [state |-> "running", rounds |-> 0, doomed |-> Present,
                 fresh |-> {}]
    /\ UNCHANGED <<handles, blobRows, intents, digestOf, stale, files, temps,
                   attempts, worker, outlived>>

Select(w, from, candidates, to) ==
    /\ worker[w].pc = from
    /\ \E page \in Pages(candidates) :
        worker' = [worker EXCEPT ![w].pc = to, ![w].todo = page,
                                 ![w].more = @ \/ HasMore(candidates)]
    /\ UNCHANGED <<handles, blobRows, intents, digestOf, stale, files, temps,
                   attempts, reset, outlived>>

\* cleanup_stale_install_intents
SelectIntents(w) ==
    Select(w, "select_intents", intents \cap stale, "intents")

\* cleanup_unreferenced_blobs
SelectBlobs(w) ==
    Select(w, "select_blobs", {d \in blobRows : ~Referenced(d)}, "blobs")

\* Mutant: an unresolved item is forgotten.
RecordForgets(w, item, resolved) ==
    worker' = [worker EXCEPT ![w].todo = @ \ {item}]

\* BlobCleanupOutcome::record
Record(w, item, resolved) ==
    worker' = [worker EXCEPT ![w].todo = @ \ {item},
                             ![w].more = @ \/ ~resolved]

\* Mutant: the stale intent's blob is left on disk.
IntentOrphanKept(a) == {}

\* The files cleanup_stale_install_intent unlinks for attempt a.
IntentOrphan(a) ==
    IF digestOf[a] \notin blobRows
       /\ ~\E b \in intents \ {a} : digestOf[b] = digestOf[a]
    THEN {digestOf[a]} ELSE {}

\* cleanup_stale_install_intent.  An error before the unlinks changes nothing;
\* one after them (directory sync, commit) leaves the intent row.
CleanIntent(w, a, ending) ==
    /\ worker[w].pc = "intents"
    /\ a \in worker[w].todo
    /\ LET found == a \in intents /\ a \in stale
           unlinks == found /\ ending # "failed_before"
       IN  /\ temps' = IF unlinks THEN temps \ {a} ELSE temps
           /\ files' = IF unlinks THEN files \ IntentOrphan(a) ELSE files
           /\ intents' = IF found /\ ending = "committed"
                         THEN intents \ {a} ELSE intents
    /\ Record(w, a, ending = "committed")
    /\ UNCHANGED <<handles, blobRows, digestOf, stale, attempts, reset,
                   outlived>>

IntentsDone(w) ==
    /\ worker[w].pc = "intents"
    /\ worker[w].todo = {}
    /\ worker' = [worker EXCEPT ![w].pc = "select_blobs"]
    /\ UNCHANGED <<handles, blobRows, intents, digestOf, stale, files, temps,
                   attempts, reset, outlived>>

\* cleanup_unreferenced_blob rechecks the references under the writer lock,
\* unlinks the file, then deletes the row; a row already gone is an error
\* after the unlink.
CleanBlob(w, d, ending) ==
    /\ worker[w].pc = "blobs"
    /\ d \in worker[w].todo
    /\ LET unlinks == ~Referenced(d) /\ ending # "failed_before"
           deletes == ~Referenced(d) /\ d \in blobRows /\ ending = "committed"
       IN  /\ files' = IF unlinks THEN files \ {d} ELSE files
           /\ blobRows' = IF deletes THEN blobRows \ {d} ELSE blobRows
           /\ Record(w, d, ending = "committed" /\ (Referenced(d) \/ deletes))
    /\ UNCHANGED <<handles, intents, digestOf, stale, temps, attempts, reset,
                   outlived>>

\* The PruneOutcome is returned; a purge's answer drives the reset's loop.
CleanupDone(w) ==
    /\ worker[w].pc = "blobs"
    /\ worker[w].todo = {}
    /\ reset' = IF worker[w].purge /\ ~worker[w].more
                THEN [reset EXCEPT !.state = "cleared", !.rounds = 0] ELSE reset
    /\ worker' = [worker EXCEPT ![w] = Idle]
    /\ UNCHANGED <<handles, blobRows, intents, digestOf, stale, files, temps,
                   attempts, outlived>>

Endings == {"committed", "failed_before", "failed_after"}

WorkerStep(w) ==
    \/ InstallBlob(w) \/ LinkBlob(w) \/ DropTemporary(w)
    \/ PutCommit(w) \/ PutRolledBack(w)
    \/ ClearInstallIntent(w)
    \/ SelectIntents(w) \/ IntentsDone(w) \/ SelectBlobs(w) \/ CleanupDone(w)
    \/ \E a \in 1..MaxPuts, e \in Endings : CleanIntent(w, a, e)
    \/ \E d \in Digests, e \in Endings : CleanBlob(w, d, e)

Next ==
    \/ \E w \in Workers :
        WorkerStep(w) \/ PutFails(w) \/ Die(w)
    \/ \E k \in Keys, row \in Row : PutStart(Daemon, k, row)
    \/ PurgeAll(Daemon)
    \/ \E w \in Clis, p \in Projects, old \in SUBSET Keys : Prune(w, p, old)
    \/ \E a \in 1..MaxPuts : IntentAges(a)
    \/ StartReset

Spec == Init /\ [][Next]_vars

(***************************************************************************)
(* Properties                                                              *)
(***************************************************************************)
\* A stored handle always has its blob row and its blob file: no cleanup by
\* another process, no death and no late transaction of a put can leave a
\* handle naming bytes that are gone (evidence.rs put_after_blob_installed,
\* cleanup_unreferenced_blob, cleanup_stale_install_intent).
HandleHasBlob ==
    \A k \in Present : /\ handles[k].digest \in blobRows
                       /\ handles[k].digest \in files

\* "A stale intent makes a crash orphan discoverable": a blob file that no row
\* tracks and a leftover temporary are each covered by an intent, unless the
\* put itself outlived the grace period of its own intent.
OrphanDiscoverable ==
    /\ \A d \in files \ (blobRows \cup outlived) :
            \E a \in intents : digestOf[a] = d
    /\ \A a \in temps : a \in intents \/ digestOf[a] \in outlived

\* When a purge reports that nothing more is left, the reset's rows are gone
\* and so are their bytes: every file still on disk belongs to a handle, to
\* an install attempt still on record, or to evidence put since the reset
\* began (reset.rs history_items, evidence.rs purge_all).
ClearedMeansGone ==
    reset.state = "cleared" =>
        /\ reset.doomed \cap Present = {}
        /\ \A d \in files \ (reset.fresh \cup outlived) :
            Referenced(d) \/ \E a \in intents : digestOf[a] = d

\* An action never deletes a persistent handle except the history reset's
\* purge, and never rewrites the mapping of a handle in place.
RetainedUnlessPurged ==
    [][\A k \in Keys : handles[k] # None /\ handles'[k] # handles[k] =>
            /\ handles'[k] = None
            /\ handles[k].retention = "persistent" =>
                    reset.state = "running" /\ reset'.rounds = reset.rounds + 1]_vars

\* The history reset clears every project's evidence: "regardless of project,
\* retention class, or age" it is never refused by what the table holds.
PurgeNeverRefused ==
    reset.state # "refused"

\* No handle without its bytes and no bytes without a trace, whatever two
\* processes put, prune and purge in between and wherever one dies (put,
\* cleanup_unreferenced_blob, cleanup_stale_install_intent).
BytesAreAccountedFor == HandleHasBlob /\ OrphanDiscoverable
=============================================================================
