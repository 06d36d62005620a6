----------------------------- MODULE FlowEditor -----------------------------
(***************************************************************************)
(* The flow editor of the desktop (crates/pam_gui/src/flow_editor.rs): how *)
(* a draft of one flow definition is opened, edited, frozen for review and *)
(* saved over the file it was read from.  Each editor is a process of its  *)
(* own; they share the directory .pam/flows, and cooperate through an      *)
(* advisory lock that a process gives up when it dies.  Other programs     *)
(* write to the directory as well and know nothing of the lock.            *)
(*                                                                         *)
(* A version is [rev, body, neat, ok]: the revision, the rest of the text, *)
(* whether it is laid out as the normal form, and whether it is a valid    *)
(* definition of this flow.  A backup is a hard link, so a program that    *)
(* writes the target in place writes the backup too: linked.               *)
(***************************************************************************)
EXTENDS Integers, Sequences, SequencesExt

CONSTANTS Editors, Drafts, NoVersion, NoEditor, MaxWrites, MaxOwnedArtifacts

VARIABLES file,      \* the version under the flow's name, or NoVersion
          lock,      \* who holds .flow-editor.lock
          ed,        \* the document and the save of each editor
          left,      \* the backups that no running save owns: [bytes, linked]
          scraps,    \* how many temporaries no running save owns
          writes,    \* edits and foreign writes so far
          prior      \* the version last replaced, until its save reports success

editorVars == <<file, lock, ed, left, scraps, writes, prior>>

ASSUME MaxWrites \in Nat /\ MaxOwnedArtifacts \in Nat

NoBackup == [bytes |-> NoVersion, linked |-> FALSE]

NoInteraction == [source |-> NoVersion, base |-> NoVersion, ready |-> FALSE]

Closed == [open |-> FALSE, source |-> NoVersion, base |-> NoVersion, inter |-> NoInteraction,
           pc |-> "idle", backup |-> NoBackup, tmp |-> FALSE]

EditorInit ==
    /\ file \in Drafts \cup {NoVersion}
    /\ lock = NoEditor
    /\ ed = [e \in Editors |-> Closed]
    /\ left = <<>> /\ scraps = 0 /\ writes = 0
    /\ prior = NoVersion

Normalized(v) == [v EXCEPT !.neat = TRUE]

\* validate_draft: a changed definition has to carry a later revision.
Validate(source, base) ==
    /\ source.ok
    /\ \/ base = NoVersion
       \/ Normalized(source) = Normalized(base)
       \/ source.rev > base.rev

-----------------------------------------------------------------------------
\* Documents.

\* The files in the directory that the catalog skips because a save owns them.
OwnedArtifacts ==
    Len(left) + scraps
    + Len(SelectSeq(SetToSeq(Editors), LAMBDA e : ed[e].backup # NoBackup))
    + Len(SelectSeq(SetToSeq(Editors), LAMBDA e : ed[e].tmp))

\* One bad definition, or too many leftovers, and the whole catalog fails.
LoadCatalog == OwnedArtifacts <= MaxOwnedArtifacts /\ (file = NoVersion \/ file.ok)

OpenDocument(e) ==
    /\ ed[e].pc = "idle" /\ LoadCatalog /\ file # NoVersion
    /\ ed' = [ed EXCEPT ![e].open = TRUE, ![e].source = file, ![e].base = file,
                        ![e].inter = NoInteraction]
    /\ UNCHANGED <<file, lock, left, scraps, writes, prior>>

NewDocument(e) ==
    /\ ed[e].pc = "idle" /\ LoadCatalog /\ writes < MaxWrites
    /\ \E v \in Drafts : ed' = [ed EXCEPT ![e].open = TRUE, ![e].source = v, ![e].base = NoVersion,
                                          ![e].inter = NoInteraction]
    /\ writes' = writes + 1
    /\ UNCHANGED <<file, lock, left, scraps, prior>>

ReplaceSource(e) ==
    /\ ed[e].pc = "idle" /\ ed[e].open /\ writes < MaxWrites
    /\ \E v \in Drafts \ {ed[e].source} : ed' = [ed EXCEPT ![e].source = v]
    /\ writes' = writes + 1
    /\ UNCHANGED <<file, lock, left, scraps, prior>>

\* The text, the baseline and the normal form are frozen for the user.
PrepareSave(e) ==
    /\ ed[e].pc = "idle" /\ ed[e].open /\ Validate(ed[e].source, ed[e].base)
    /\ ed' = [ed EXCEPT ![e].inter =
                  [source |-> ed[e].source, base |-> ed[e].base, ready |-> TRUE]]
    /\ UNCHANGED <<file, lock, left, scraps, writes, prior>>

\* The interaction is used up, and is refused unless it still matches.
CommitSave(e) ==
    LET i == ed[e].inter
        fresh == i.source = ed[e].source /\ i.base = ed[e].base /\ Validate(ed[e].source, ed[e].base)
    IN  /\ ed[e].pc = "idle" /\ i.ready
        /\ ed' = [ed EXCEPT ![e].inter = NoInteraction, ![e].pc = IF fresh THEN "lock" ELSE "idle"]
        /\ UNCHANGED <<file, lock, left, scraps, writes, prior>>

-----------------------------------------------------------------------------
\* atomic_save, one action per operation on the directory.

\* Leaves the save with its error, removing what it made; the document keeps
\* its text and its baseline.
SaveFails(e) ==
    /\ ed' = [ed EXCEPT ![e].pc = "idle", ![e].backup = NoBackup, ![e].tmp = FALSE]
    /\ lock' = IF lock = e THEN NoEditor ELSE lock
    /\ UNCHANGED <<file, left, scraps, writes, prior>>

Goes(e, pc) == ed' = [ed EXCEPT ![e].pc = pc]

\* As a bug would have it: a lock file that exists is taken for a lock.
AcquireSaveLockUnheld(e) ==
    /\ ed[e].pc = "lock"
    /\ lock' = e
    /\ Goes(e, "verify") /\ UNCHANGED <<file, left, scraps, writes, prior>>

\* A held lock is tried again after a pause and in the end reported as busy.
AcquireSaveLock(e) ==
    /\ ed[e].pc = "lock"
    /\ IF lock = NoEditor
       THEN lock' = e /\ Goes(e, "verify") /\ UNCHANGED <<file, left, scraps, writes, prior>>
       ELSE SaveFails(e)

\* verify_disk_baseline: the exact bytes the document was read from, or no
\* file at all for a new one.
DiskIsBaseline(e) == file = ed[e].base

\* The bytes read back from a backup, for a save that made one.
BackupIsBaseline(e) == ed[e].base = NoVersion \/ ed[e].backup.bytes = ed[e].base

VerifyDiskBaseline(e) ==
    /\ ed[e].pc = "verify"
    /\ IF DiskIsBaseline(e)
       THEN Goes(e, IF ed[e].base = NoVersion THEN "write" ELSE "clean")
            /\ UNCHANGED <<file, lock, left, scraps, writes, prior>>
       ELSE SaveFails(e)

\* What earlier saves of this flow left behind goes, their backups too.
RemovePriorOwnedArtifacts(e) ==
    /\ ed[e].pc = "clean"
    /\ left' = <<>> /\ scraps' = 0 /\ prior' = NoVersion
    /\ Goes(e, "link") /\ UNCHANGED <<file, lock, writes>>

CreateBackupLink(e) ==
    /\ ed[e].pc = "link"
    /\ \/ /\ file # NoVersion
          /\ ed' = [ed EXCEPT ![e].pc = "write", ![e].backup = [bytes |-> file, linked |-> TRUE]]
          /\ UNCHANGED <<file, lock, left, scraps, writes, prior>>
       \/ SaveFails(e)

\* create_temporary_file, then the bytes, then the sync.
WriteTemporary(e) ==
    /\ ed[e].pc = "write"
    /\ \/ /\ ed' = [ed EXCEPT ![e].pc = "recheck", ![e].tmp = TRUE]
          /\ UNCHANGED <<file, lock, left, scraps, writes, prior>>
       \/ SaveFails(e)

Recheck(e) ==
    /\ ed[e].pc = "recheck"
    /\ IF DiskIsBaseline(e) /\ BackupIsBaseline(e)
       THEN Goes(e, "publish") /\ UNCHANGED <<file, lock, left, scraps, writes, prior>>
       ELSE SaveFails(e)

\* No name of the bytes that were there is the target's any more.
Unlinked(b) == [b EXCEPT !.linked = FALSE]

UnlinkAll(eds) == [e \in Editors |-> [eds[e] EXCEPT !.backup = Unlinked(@)]]

UnlinkLeft == [n \in DOMAIN left |-> Unlinked(left[n])]

\* The rename replaces whatever the name holds at that moment.
Publish(e) ==
    /\ ed[e].pc = "publish"
    /\ \/ /\ file' = Normalized(ed[e].source)
          /\ prior' = file
          /\ ed' = UnlinkAll([ed EXCEPT ![e].pc = "confirm", ![e].tmp = FALSE])
          /\ left' = UnlinkLeft
          /\ UNCHANGED <<lock, scraps, writes>>
       \/ SaveFails(e)

Retained(e) == IF ed[e].backup = NoBackup THEN left ELSE Append(left, ed[e].backup)

\* The document now stands for what was published; the backup is kept when the
\* directory could not be synced or the link could not be removed.
Saved(e) ==
    LET v == Normalized(ed[e].source)
    IN  /\ ed' = [ed EXCEPT ![e].source = v, ![e].base = v, ![e].pc = "idle", ![e].backup = NoBackup]
        /\ \E kept \in BOOLEAN :
             /\ left' = IF kept THEN Retained(e) ELSE left
             /\ prior' = IF kept THEN prior ELSE NoVersion
        /\ lock' = NoEditor
        /\ UNCHANGED <<file, scraps, writes>>

\* Both are read back.  On SavePublicationUncertain the backup stays, and the
\* document keeps its old baseline.
Confirm(e) ==
    /\ ed[e].pc = "confirm"
    /\ IF file = Normalized(ed[e].source) /\ BackupIsBaseline(e)
       THEN Saved(e)
       ELSE /\ ed' = [ed EXCEPT ![e].pc = "idle", ![e].backup = NoBackup]
            /\ left' = Retained(e) /\ lock' = NoEditor
            /\ UNCHANGED <<file, scraps, writes, prior>>

-----------------------------------------------------------------------------
\* The process dies: its lock is released, its files stay.
EditorCrashes(e) ==
    /\ ed[e].pc # "idle"
    /\ ed' = [ed EXCEPT ![e] = Closed]
    /\ lock' = IF lock = e THEN NoEditor ELSE lock
    /\ left' = Retained(e) /\ scraps' = scraps + (IF ed[e].tmp THEN 1 ELSE 0)
    /\ UNCHANGED <<file, writes, prior>>

\* The save's contract leaves out a writer that ignores the lock between the
\* last check and the rename.
OutsideWindow == \A e \in Editors : ed[e].pc # "publish"

\* Another program opens the file and writes into it.
ForeignWrite ==
    /\ file # NoVersion /\ writes < MaxWrites /\ OutsideWindow
    /\ \E v \in Drafts :
         LET through(b) == IF b.linked THEN [b EXCEPT !.bytes = v] ELSE b
         IN  /\ file' = v
             /\ ed' = [e \in Editors |-> [ed[e] EXCEPT !.backup = through(@)]]
             /\ left' = [n \in DOMAIN left |-> through(left[n])]
    /\ writes' = writes + 1
    /\ UNCHANGED <<lock, scraps, prior>>

\* Another program creates, replaces or deletes the file.
ForeignReplace ==
    /\ writes < MaxWrites /\ OutsideWindow
    /\ file' \in (Drafts \cup {NoVersion}) \ {file}
    /\ ed' = UnlinkAll(ed) /\ left' = UnlinkLeft
    /\ writes' = writes + 1
    /\ UNCHANGED <<lock, scraps, prior>>

EditorNext ==
    \/ \E e \in Editors :
         \/ OpenDocument(e) \/ NewDocument(e) \/ ReplaceSource(e) \/ PrepareSave(e) \/ CommitSave(e)
         \/ AcquireSaveLock(e) \/ VerifyDiskBaseline(e) \/ RemovePriorOwnedArtifacts(e)
         \/ CreateBackupLink(e) \/ WriteTemporary(e) \/ Recheck(e) \/ Publish(e) \/ Confirm(e)
         \/ EditorCrashes(e)
    \/ ForeignWrite \/ ForeignReplace

EditorSpec == EditorInit /\ [][EditorNext]_editorVars

-----------------------------------------------------------------------------
\* commit_save never destroys a version: from the rename until the save has
\* reported success, or a later save of the flow starts over, the version that
\* was replaced - by this editor, over what another editor or program wrote, or
\* by one that crashed since - is in a backup.  In particular a new document
\* replaces nothing, and no save replaces what it has not read.
PriorBytesAreKept ==
    prior # NoVersion =>
        \/ \E n \in DOMAIN left : left[n].bytes = prior
        \/ \E e \in Editors : ed[e].backup.bytes = prior
=============================================================================
