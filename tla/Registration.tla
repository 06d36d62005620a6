---------------------------- MODULE Registration ----------------------------
(***************************************************************************)
(* How a caller comes by its identity and its credential, and how a reset  *)
(* takes both away.  `pam caller register` resolves the caller's id from   *)
(* its identity file (crates/pam_platform/src/identity.rs), writing the    *)
(* file first when there is none; stores a new credential in the native    *)
(* credential store (secrets.rs) and records its digest in the callers     *)
(* table.  `pam caller revoke` undoes the last two.  The identity tier of  *)
(* a reset and the factory reset (crates/pam_daemon/src/reset.rs) remove   *)
(* credentials and identity files of every caller.                         *)
(*                                                                         *)
(* Commands are processes: their steps interleave, and each may be killed. *)
(* There is one kind of caller, so one identity file with its lock file    *)
(* and the temporaries of its writers.  The n-th command mints id n and    *)
(* credential n when it needs them.                                        *)
(***************************************************************************)
EXTENDS Integers, Sequences, SequencesExt, FiniteSets

CONSTANTS
    Commands,        \* processes that may run a pam command
    MaxCommands,     \* bound: commands run in a behaviour
    MaxWipes         \* bound: resets run in a behaviour

VARIABLES
    hardLinks,    \* whether the file system supports hard links
    callers,      \* the callers directory: [there, lock, file, temps]
    keychain,     \* id -> credential in the native store, None if absent
    rows,         \* id -> [cred, state] in the callers table
    database,     \* [gen, event]: incarnation of state.sqlite3, reset recorded in it
    command,      \* process -> the command it runs
    reset,        \* the reset that is running
    issued,       \* commands started so far
    wipes,        \* resets started so far
    inodes,       \* lock files created so far
    removals,     \* identity or lock files removed by resets so far
    interrupted,  \* what was cut short so far: registrations, factory resets
    overlapped    \* commands or resets ran at the same time

registrationVars ==
    <<hardLinks, callers, keychain, rows, database, command, reset, issued, wipes,
      inodes, removals, interrupted, overlapped>>

None == 0

Ids == 1 .. MaxCommands

NoCommand == [op |-> "none", pc |-> "idle", id |-> None, mint |-> None, inode |-> None,
              prev |-> None, seen |-> 0, gen |-> 0]

NoReset == [kind |-> "none", pc |-> "idle", active |-> {}, locators |-> {}, todo |-> <<>>]

NoCallers == [there |-> FALSE, lock |-> None, file |-> None, temps |-> {}]

Unregistered == [cred |-> None, state |-> "none"]

RegistrationInit ==
    /\ hardLinks \in BOOLEAN
    /\ callers = NoCallers
    /\ keychain = [i \in Ids |-> None]
    /\ rows = [i \in Ids |-> Unregistered]
    /\ database = [gen |-> 1, event |-> FALSE]
    /\ command = [c \in Commands |-> NoCommand]
    /\ reset = NoReset
    /\ issued = 0
    /\ wipes = 0
    /\ inodes = 0
    /\ removals = 0
    /\ interrupted = {}
    /\ overlapped = FALSE

At(c, pc) == command[c].pc = pc

Goto(c, pc) == command' = [command EXCEPT ![c].pc = pc]

\* The command ends; what it learned stays in the record.
End(c) == Goto(c, "idle")

-----------------------------------------------------------------------------
\* caller_id: the identity file.

\* path_exists decides between reading the file and writing a new one.
CallerId(c, op) ==
    /\ At(c, "idle") /\ issued < MaxCommands
    /\ issued' = issued + 1
    /\ command' = [command EXCEPT ![c] =
           [NoCommand EXCEPT !.op = op, !.mint = issued + 1,
                             !.pc = IF callers.file # None THEN "read" ELSE "write"]]
    /\ UNCHANGED <<hardLinks, wipes, callers, keychain, rows, database, reset, inodes, removals, interrupted>>

\* open_persistent_lock creates the lock file unless it exists; it fails in a
\* directory that is gone.
LockInode == IF callers.lock # None THEN callers.lock ELSE inodes + 1

Locked(inode) == \E c \in Commands : At(c, "publish") /\ command[c].inode = inode

\* The id is known.  What is seen is the state of removals it belongs to.
Resolved(c, id) ==
    [command EXCEPT ![c].id = id, ![c].seen = removals, ![c].pc = "open"]

\* read_managed_caller_file: under a shared lock; the file may have gone.
ReadManagedCallerFile(c) ==
    /\ At(c, "read")
    /\ ~Locked(LockInode)
    /\ IF ~callers.there THEN End(c) /\ UNCHANGED <<callers, inodes>>
       ELSE /\ callers' = [callers EXCEPT !.lock = LockInode]
            /\ inodes' = IF callers.lock = None THEN inodes + 1 ELSE inodes
            /\ IF callers.file = None THEN End(c) ELSE command' = Resolved(c, callers.file)
    /\ UNCHANGED <<hardLinks, wipes, keychain, rows, database, reset, issued, removals, interrupted>>

\* Whatever is missing of the path is created.
EnsureDirectoryTree == [callers EXCEPT !.there = TRUE]

\* persist_new_file_with_mode: the directory and the temporary file.
WriteTemporary(c) ==
    /\ At(c, "write")
    /\ callers' = [EnsureDirectoryTree EXCEPT !.temps = @ \cup {command[c].mint}]
    /\ Goto(c, "lock")
    /\ UNCHANGED <<hardLinks, wipes, keychain, rows, database, reset, issued, inodes, removals, interrupted>>

\* The lock file is opened; waiting for the lock is another step.
OpenPersistentLock(c) ==
    /\ At(c, "lock")
    /\ IF callers.there
       THEN /\ callers' = [callers EXCEPT !.lock = LockInode]
            /\ inodes' = IF callers.lock = None THEN inodes + 1 ELSE inodes
            /\ command' = [command EXCEPT ![c].inode = LockInode, ![c].pc = "acquire"]
       ELSE End(c) /\ UNCHANGED <<callers, inodes>>
    /\ UNCHANGED <<hardLinks, wipes, keychain, rows, database, reset, issued, removals, interrupted>>

\* The guard of the temporary file removes it however publication ends.
WithoutTemporary(c) == [callers EXCEPT !.temps = @ \ {command[c].mint}]

\* As a bug would have it: whoever holds the lock publishes.
AcquireUnchecked(c) ==
    /\ At(c, "acquire") /\ ~Locked(command[c].inode)
    /\ Goto(c, "publish") /\ UNCHANGED callers
    /\ UNCHANGED <<hardLinks, wipes, keychain, rows, database, reset, issued, inodes, removals, interrupted>>

\* publish_locked, up to its test of the target: an existing file is validated
\* and kept, and the caller reads it.
Acquire(c) ==
    /\ At(c, "acquire") /\ ~Locked(command[c].inode)
    /\ IF callers.file # None THEN Goto(c, "read") /\ callers' = WithoutTemporary(c)
       ELSE Goto(c, "publish") /\ UNCHANGED callers
    /\ UNCHANGED <<hardLinks, wipes, keychain, rows, database, reset, issued, inodes, removals, interrupted>>

\* The hard link never replaces a file; the rename that stands in for it does.
\* Both fail when the temporary is gone.
PublishLocked(c) ==
    LET mint == command[c].mint
    IN  /\ At(c, "publish")
        /\ IF mint \notin callers.temps THEN End(c) /\ UNCHANGED callers
           ELSE IF hardLinks /\ callers.file # None
           THEN Goto(c, "read") /\ callers' = WithoutTemporary(c)
           ELSE /\ callers' = [WithoutTemporary(c) EXCEPT !.file = mint]
                /\ command' = Resolved(c, mint)
        /\ UNCHANGED <<hardLinks, wipes, keychain, rows, database, reset, issued, inodes, removals, interrupted>>

-----------------------------------------------------------------------------
\* caller_register and caller_revoke, once the id is known.

\* SecretStore::get, set and delete on the entry of one caller.
Get(id) == keychain[id]

Put(id, cred) == keychain' = [keychain EXCEPT ![id] = cred]

Delete(id) == keychain' = [keychain EXCEPT ![id] = None]

\* Store::open, and load_native_credential of a registration; either may fail.
OpenStore(c) ==
    /\ At(c, "open")
    /\ \/ command' = [command EXCEPT
               ![c].gen = database.gen,
               ![c].prev = IF command[c].op = "register" THEN Get(command[c].id) ELSE None,
               ![c].pc = IF command[c].op = "register" THEN "credential" ELSE "revoke"]
       \/ End(c)
    /\ UNCHANGED <<hardLinks, wipes, callers, keychain, rows, database, reset, issued, inodes, removals, interrupted>>

StoreNativeCredential(c) ==
    /\ At(c, "credential")
    /\ \/ Put(command[c].id, command[c].mint) /\ Goto(c, "row")
       \/ End(c) /\ UNCHANGED keychain
    /\ UNCHANGED <<hardLinks, wipes, callers, rows, database, reset, issued, inodes, removals, interrupted>>

\* A row written to a database file that a wipe has unlinked is lost.
SetRow(c, row) ==
    rows' = IF command[c].gen = database.gen THEN [rows EXCEPT ![command[c].id] = row] ELSE rows

\* register_caller_with_kind refuses a caller that is registered and not
\* revoked; that, or a store that fails, sends the registration to undo.
RegisterRow(c) ==
    /\ At(c, "row")
    /\ \/ /\ rows[command[c].id].state # "active"
          /\ SetRow(c, [cred |-> command[c].mint, state |-> "active"])
          /\ End(c)
       \/ Goto(c, "restore") /\ UNCHANGED rows
    /\ UNCHANGED <<hardLinks, wipes, callers, keychain, database, reset, issued, inodes, removals, interrupted>>

\* As a bug would have it: the failed registration leaves its credential.
RestoreNothing(c) ==
    /\ At(c, "restore")
    /\ End(c)
    /\ UNCHANGED <<hardLinks, wipes, callers, keychain, rows, database, reset, issued, inodes, removals, interrupted>>

\* restore_native_credential puts the previous credential back, or deletes the
\* new one; a failure of that is only reported.
RestoreNativeCredential(c) ==
    /\ At(c, "restore")
    /\ \/ Put(command[c].id, command[c].prev) /\ UNCHANGED interrupted
       \/ interrupted' = interrupted \cup {"registration"} /\ UNCHANGED keychain
    /\ End(c)
    /\ UNCHANGED <<hardLinks, wipes, callers, rows, database, reset, issued, inodes, removals>>

RevokeRow(c) ==
    LET row == rows[command[c].id]
    IN  /\ At(c, "revoke")
        /\ \/ row.state # "none" /\ SetRow(c, [row EXCEPT !.state = "revoked"]) /\ Goto(c, "forget")
           \/ End(c) /\ UNCHANGED rows
        /\ UNCHANGED <<hardLinks, wipes, callers, keychain, database, reset, issued, inodes, removals, interrupted>>

\* An entry that is not there is no failure; one that cannot be deleted stays.
DeleteRevokedNativeCredential(c) ==
    /\ At(c, "forget")
    /\ Delete(command[c].id) \/ UNCHANGED keychain
    /\ End(c)
    /\ UNCHANGED <<hardLinks, wipes, callers, rows, database, reset, issued, inodes, removals, interrupted>>

\* A command is killed: its lock is released, its temporary stays.
Kill(c) ==
    /\ ~At(c, "idle")
    /\ End(c)
    /\ interrupted' = IF At(c, "row") \/ At(c, "restore") THEN interrupted \cup {"registration"} ELSE interrupted
    /\ UNCHANGED <<hardLinks, wipes, callers, keychain, rows, database, reset, issued, inodes, removals>>

-----------------------------------------------------------------------------
\* Resets.  Any step of one may fail, and the reset then stops where it is.

Reset(pc) == reset' = [reset EXCEPT !.pc = pc]

ResetFails ==
    /\ reset.pc # "idle"
    /\ reset' = NoReset
    /\ interrupted' = IF reset.kind = "factory" THEN interrupted \cup {"factory"} ELSE interrupted
    /\ UNCHANGED <<hardLinks, wipes, callers, keychain, rows, database, command, issued, inodes, removals>>

\* identity_items: every row names a credential, the active ones are revoked.
IdentityItems ==
    /\ reset.pc = "idle" /\ wipes < MaxWipes
    /\ wipes' = wipes + 1
    /\ reset' = [NoReset EXCEPT !.kind = "identity", !.pc = "revoke",
                                !.active = {i \in Ids : rows[i].state = "active"},
                                !.locators = {i \in Ids : rows[i].state # "none"}]
    /\ UNCHANGED <<hardLinks, callers, keychain, rows, database, command, issued, inodes, removals, interrupted>>

RevokeNext ==
    /\ reset.pc = "revoke"
    /\ IF reset.active = {} THEN Reset("purge") /\ UNCHANGED rows
       ELSE \E i \in reset.active :
                /\ rows' = [rows EXCEPT ![i].state = "revoked"]
                /\ reset' = [reset EXCEPT !.active = @ \ {i}]
    /\ UNCHANGED <<hardLinks, wipes, callers, keychain, database, command, issued, inodes, removals, interrupted>>

\* read_children of the callers directory, sorted: the names that begin with a
\* dot, the lock file before the temporaries, come before the identity file.
Children ==
    (IF callers.lock = None THEN <<>> ELSE <<[kind |-> "lock", id |-> None]>>)
        \o [i \in 1 .. Cardinality(callers.temps) |->
                [kind |-> "temp", id |-> SetToSortSeq(callers.temps, <)[i]]]
        \o (IF callers.file = None THEN <<>> ELSE <<[kind |-> "file", id |-> None]>>)

\* purge_credentials deletes one entry after the other, then the walk begins.
PurgeCredentials ==
    /\ reset.pc = "purge"
    /\ IF reset.locators = {}
       THEN reset' = [reset EXCEPT !.pc = "walk", !.todo = Children] /\ UNCHANGED keychain
       ELSE \E i \in reset.locators :
                Delete(i) /\ reset' = [reset EXCEPT !.locators = @ \ {i}]
    /\ UNCHANGED <<hardLinks, wipes, callers, rows, database, command, issued, inodes, removals, interrupted>>

Unlink(entry) ==
    CASE entry.kind = "lock" -> [callers EXCEPT !.lock = None]
      [] entry.kind = "temp" -> [callers EXCEPT !.temps = @ \ {entry.id}]
      [] entry.kind = "file" -> [callers EXCEPT !.file = None]

\* remove_within on the children that were listed; one that is gone is skipped.
RemoveWithin ==
    /\ reset.pc = "walk" /\ reset.todo # <<>>
    /\ callers' = Unlink(Head(reset.todo))
    /\ reset' = [reset EXCEPT !.todo = Tail(@)]
    /\ removals' = IF Head(reset.todo).kind = "temp" THEN removals ELSE removals + 1
    /\ UNCHANGED <<hardLinks, wipes, keychain, rows, database, command, issued, inodes, interrupted>>

\* The directory goes last, and only when nothing was added meanwhile.
RemoveDirectory ==
    /\ reset.pc = "walk" /\ reset.todo = <<>>
    /\ callers.lock = None /\ callers.file = None /\ callers.temps = {}
    /\ callers' = NoCallers
    /\ reset' = IF reset.kind = "factory" THEN [reset EXCEPT !.pc = "state"] ELSE NoReset
    /\ UNCHANGED <<hardLinks, wipes, keychain, rows, database, command, issued, inodes, removals, interrupted>>

\* run_factory_reset: prepare_factory_reset records the reset and reads the
\* record back before anything is removed.
PrepareFactoryReset ==
    /\ reset.pc = "idle" /\ wipes < MaxWipes
    /\ wipes' = wipes + 1
    /\ database' = [database EXCEPT !.event = TRUE]
    /\ reset' = [NoReset EXCEPT !.kind = "factory", !.pc = "locate"]
    /\ UNCHANGED <<hardLinks, callers, keychain, rows, command, issued, inodes, removals, interrupted>>

\* credential_locators_from_files: whatever file of the directory states an id.
CredentialLocatorsFromFiles ==
    /\ reset.pc = "locate"
    /\ reset' = [reset EXCEPT !.pc = "purge",
                              !.locators = callers.temps \cup ({callers.file} \ {None})]
    /\ UNCHANGED <<hardLinks, wipes, callers, keychain, rows, database, command, issued, inodes, removals, interrupted>>

\* wipe reaches state.sqlite3 last, the ledger with it; the receipt follows.
WipeState ==
    /\ reset.pc = "state"
    /\ rows' = [i \in Ids |-> Unregistered]
    /\ database' = [gen |-> database.gen + 1, event |-> FALSE]
    /\ reset' = NoReset
    /\ UNCHANGED <<hardLinks, wipes, callers, keychain, command, issued, inodes, removals, interrupted>>

-----------------------------------------------------------------------------
CommandStep(c) ==
    \/ \E op \in {"register", "revoke"} : CallerId(c, op)
    \/ ReadManagedCallerFile(c)
    \/ WriteTemporary(c)
    \/ OpenPersistentLock(c)
    \/ Acquire(c)
    \/ PublishLocked(c)
    \/ OpenStore(c)
    \/ StoreNativeCredential(c)
    \/ RegisterRow(c)
    \/ RestoreNativeCredential(c)
    \/ RevokeRow(c)
    \/ DeleteRevokedNativeCredential(c)
    \/ Kill(c)

ResetStep ==
    \/ IdentityItems
    \/ RevokeNext
    \/ PurgeCredentials
    \/ RemoveWithin
    \/ RemoveDirectory
    \/ PrepareFactoryReset
    \/ CredentialLocatorsFromFiles
    \/ WipeState
    \/ ResetFails

Running == {c \in Commands : ~At(c, "idle")}

\* Two commands past their identity, or a reset and any command.
Overlaps ==
    \/ Cardinality({c \in Running : command[c].id # None}) > 1
    \/ reset.pc # "idle" /\ Running # {}

RegistrationNext ==
    /\ ResetStep \/ \E c \in Commands : CommandStep(c)
    /\ overlapped' = (overlapped \/ Overlaps')

-----------------------------------------------------------------------------
\* Commands that resolved their identity since a reset last removed a file hold
\* one id, the one the identity file states, however their steps interleave
\* and whichever of them was killed on the way (caller_id, publish_locked).
\* Without hard links that takes a lock file that no reset has removed.
OneIdentity ==
    \A c \in Commands :
        command[c].id # None /\ command[c].seen = removals /\ (hardLinks \/ removals = 0)
            => command[c].id = callers.file

\* Between commands, as long as none overlapped another and no registration was
\* cut short, every credential in the native store is the one of the identity
\* file, the only entry a factory reset looks for; and a caller that is
\* registered and not revoked has its credential there, unless a factory reset
\* stopped half way.  Revocations that could not delete a credential,
\* registrations that were refused and tier resets that stopped are included
\* (caller_register, restore_native_credential, identity_items, wipe).
CredentialsAreAccountedFor ==
    Running = {} /\ reset.pc = "idle" /\ "registration" \notin interrupted /\ ~overlapped
        => \A i \in Ids :
               /\ keychain[i] # None => callers.file = i
               /\ rows[i].state = "active" => keychain[i] = rows[i].cred \/ "factory" \in interrupted

\* Commands of several processes agree on who calls, and no credential is lost
\* track of (caller_id, caller_register, caller_revoke, reset).
CallersAreSound == OneIdentity /\ CredentialsAreAccountedFor
=============================================================================
