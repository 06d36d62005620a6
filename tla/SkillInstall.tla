---------------------------- MODULE SkillInstall ----------------------------
(***************************************************************************)
(* Installing an artifact into the skill library (crates/pam_skills/src/   *)
(* install.rs): the bytes are read from a local file that others may be    *)
(* writing, or fetched with git from a repository whose HEAD may move, and *)
(* handed to the library with the provenance recorded for them.  The       *)
(* library's own transaction is SkillLibrary's; here it is one step.       *)
(*                                                                         *)
(* A file is an inode with a sequence of cells and a modification time.    *)
(* Reads return one cell at a time; writes change one.  Every write of     *)
(* bytes the cell held before advances the modification time; a write of   *)
(* new bytes may fall in the same tick of the file system's clock.         *)
(***************************************************************************)
EXTENDS Integers, Sequences, TLC

CONSTANTS
    MaxCells,      \* MAX_LIBRARY_ARTIFACT_BYTES, in cells
    MaxEdits,      \* changes other programs make to the source
    MaxHead        \* commits the remote's HEAD moves through

VARIABLES
    disk,          \* the source: the inode its path names (0: a link), the inodes, edits
    install,       \* the running installation
    during,        \* every content the opened inode had since it was opened
    remote,        \* the commit HEAD names at the remote
    workspace,     \* the private git workspace: on disk, its FETCH_HEAD, strays
    artifact       \* what the library received, with its provenance

installVars == <<disk, install, during, remote, workspace, artifact>>

NoArtifact == [bytes |-> <<>>, from |-> "nothing"]

Inodes == {1, 2}

NoInstall == [pc |-> "idle", examined |-> 0, inode |-> 0, mtime |-> 0, len |-> 0, first |-> <<>>, bytes |-> <<>>,
              commit |-> 0, outcome |-> "none"]

InstallInit ==
    /\ \E path \in {0, 1}, size \in {MaxCells, MaxCells + 1} :
           disk = [path |-> path, cells |-> [i \in Inodes |-> [k \in 1 .. size |-> 0]],
                   mtime |-> [i \in Inodes |-> 0], edits |-> 0]
    /\ install = NoInstall
    /\ during = {}
    /\ remote = 1
    /\ workspace = [there |-> FALSE, head |-> 0, stray |-> FALSE]
    /\ artifact = NoArtifact

\* The installation returns; outcome is its error, or "installed".
InstallEnds(outcome) == install' = [install EXCEPT !.pc = "done", !.outcome = outcome]

-----------------------------------------------------------------------------
\* Other programs.

Edited(d) == disk' = [d EXCEPT !.edits = disk.edits + 1]

\* The opened inode has changed while it is being read.
Watch(d) == during' = IF install.inode = 0 THEN {} ELSE during \cup {d.cells[install.inode]}

\* Overwrite a cell of the inode examined, cut the file short or append to it.
EditInPlace(i) ==
    LET Put(cells, tick) == [disk EXCEPT !.cells[i] = cells, !.mtime[i] = @ + tick]
        old == disk.cells[i]
        New == disk.edits + 1
    IN  \E d \in {Put([old EXCEPT ![k] = New], tick) : k \in DOMAIN old, tick \in {0, 1}}
             \cup {Put([old EXCEPT ![k] = v], 1) : k \in DOMAIN old, v \in 0 .. disk.edits}
             \cup (IF old = <<>> THEN {} ELSE {Put(SubSeq(old, 1, Len(old) - 1), tick) : tick \in {0, 1}})
             \cup (IF Len(old) > MaxCells THEN {} ELSE {Put(Append(old, New), tick) : tick \in {0, 1}}) :
            Edited(d) /\ Watch(d)

\* Rename another inode over the path, or a symbolic link.
EditPath ==
    \E target \in (Inodes \cup {0}) \ {disk.path} :
        Edited([disk EXCEPT !.path = target]) /\ UNCHANGED during

EditSource ==
    /\ disk.edits < MaxEdits
    /\ install.pc \in {"open", "read", "reread", "verify"}
    /\ EditPath \/ EditInPlace(install.examined)
    /\ UNCHANGED <<install, remote, workspace, artifact>>

RemoteMoves ==
    /\ remote < MaxHead
    /\ install.pc \in {"init", "fetch", "resolve", "size", "blob"}
    /\ remote' = remote + 1
    /\ UNCHANGED <<disk, install, during, workspace, artifact>>

-----------------------------------------------------------------------------
\* A local file.

\* The path's metadata: a regular file, not a link, within the limit.
StatLocal ==
    /\ install.pc = "idle"
    /\ IF disk.path = 0 THEN InstallEnds("invalid")
       ELSE LET cells == disk.cells[disk.path]
            IN  IF Len(cells) > MaxCells THEN InstallEnds("too large")
                ELSE install' = [install EXCEPT !.pc = "open", !.examined = disk.path, !.len = Len(cells),
                                     !.mtime = disk.mtime[disk.path]]
    /\ UNCHANGED <<disk, during, remote, workspace, artifact>>

\* same_std_cap_identity, with the length and the modification time beside it.
SameFile(inode) ==
    /\ inode = install.examined
    /\ Len(disk.cells[inode]) = install.len
    /\ disk.mtime[inode] = install.mtime

\* Open without following links; what was opened has to be what was examined.
OpenLocal ==
    /\ install.pc = "open"
    /\ IF disk.path # 0 /\ SameFile(disk.path)
       THEN /\ install' = [install EXCEPT !.pc = "read", !.inode = disk.path]
            /\ during' = {disk.cells[disk.path]}
       ELSE InstallEnds("invalid") /\ UNCHANGED during
    /\ UNCHANGED <<disk, remote, workspace, artifact>>

\* read_to_end under the limit plus one: the next cell, or the end of the file.
ReadCell ==
    LET cells == disk.cells[install.inode]
    IN  /\ Len(install.bytes) < Len(cells) /\ Len(install.bytes) <= MaxCells
        /\ install' = [install EXCEPT !.bytes = Append(@, cells[Len(@) + 1])]

\* As a bug would have it: one reading is enough.
EndOfReadingOnce ==
    IF Len(install.bytes) # install.len THEN InstallEnds("changed")
    ELSE install' = [install EXCEPT !.pc = "verify"]

\* The first reading has to have the length examined, and the second to equal
\* the first.
EndOfReading ==
    IF install.pc = "read"
    THEN IF Len(install.bytes) > MaxCells THEN InstallEnds("too large")
         ELSE IF Len(install.bytes) # install.len THEN InstallEnds("changed")
         ELSE install' = [install EXCEPT !.pc = "reread", !.first = install.bytes, !.bytes = <<>>]
    ELSE IF install.bytes # install.first THEN InstallEnds("changed")
         ELSE install' = [install EXCEPT !.pc = "verify"]

ReadLocal ==
    /\ install.pc \in {"read", "reread"}
    /\ \/ ReadCell
       \/ /\ Len(install.bytes) >= Len(disk.cells[install.inode]) \/ Len(install.bytes) > MaxCells
          /\ EndOfReading
    /\ UNCHANGED <<disk, during, remote, workspace, artifact>>

\* The path, the open handle and the directory entry still show what was
\* examined before the reading.  The four calls are one step: nothing is read
\* after them.
VerifyLocal ==
    /\ install.pc = "verify"
    /\ IF disk.path # 0 /\ SameFile(disk.path)
       THEN install' = [install EXCEPT !.pc = "insert"]
       ELSE InstallEnds("changed")
    /\ UNCHANGED <<disk, during, remote, workspace, artifact>>

-----------------------------------------------------------------------------
\* A git repository.

\* The artifact in a commit.
Blob(commit) == <<100 + commit>>

\* The first executable regular file named git on the absolute directories of
\* the search path, if there is one.
FindGit ==
    /\ install.pc = "idle"
    /\ install' = [install EXCEPT !.pc = "create"] \/ InstallEnds("unavailable")
    /\ UNCHANGED <<disk, during, remote, workspace, artifact>>

\* A fresh private directory; sixteen names taken in a row end the installation.
CreateWorkspace ==
    /\ install.pc = "create"
    /\ \/ /\ workspace' = [workspace EXCEPT !.there = TRUE]
          /\ install' = [install EXCEPT !.pc = "init"]
       \/ InstallEnds("workspace") /\ UNCHANGED workspace
    /\ UNCHANGED <<disk, during, remote, artifact>>

\* rev-parse FETCH_HEAD^{commit}.
ResolveCommit ==
    /\ install.pc = "resolve"
    /\ install' = [install EXCEPT !.pc = "size", !.commit = workspace.head]
    /\ UNCHANGED workspace

\* As a bug would have it: the blob is read at the remote's HEAD of the moment.
CatBlobAtHead ==
    /\ install.pc = "blob"
    /\ install' = [install EXCEPT !.pc = "clean", !.bytes = Blob(remote), !.outcome = "read"]
    /\ UNCHANGED workspace

\* cat-file blob commit:path, in a repository that holds the fetched commit only.
CatBlob ==
    /\ install.pc = "blob" /\ install.commit = workspace.head
    /\ install' = [install EXCEPT !.pc = "clean", !.bytes = Blob(install.commit), !.outcome = "read"]
    /\ UNCHANGED workspace

\* read_git_workspace, command by command, each of them successful.
GitSucceeds ==
    \/ /\ install.pc = "init"
       /\ install' = [install EXCEPT !.pc = "fetch"]
       /\ UNCHANGED workspace
    \/ /\ install.pc = "fetch"
       /\ workspace' = [workspace EXCEPT !.head = remote]
       /\ install' = [install EXCEPT !.pc = "resolve"]
    \/ ResolveCommit
    \/ /\ install.pc = "size" /\ install.commit = workspace.head
       /\ install' = [install EXCEPT !.pc = "blob", !.len = Len(Blob(install.commit))]
       /\ UNCHANGED workspace
    \/ CatBlob

GitStops(outcome) == install' = [install EXCEPT !.pc = "clean", !.outcome = outcome]

\* A command does not start, exits unsuccessfully, prints too much or what is
\* refused, or a pipe of it is never closed.
GitFails == GitStops("git failed") /\ UNCHANGED workspace

\* The deadline passes; the process group is killed.
GitTimesOut == GitStops("deadline") /\ UNCHANGED workspace

\* The workspace outgrows its limits of entries, depth or bytes.
GitOutgrows == GitStops("workspace limit") /\ UNCHANGED workspace

\* On Windows, the supervisor's tree could not be ended.
GitEscapes == GitStops("containment") /\ workspace' = [workspace EXCEPT !.stray = TRUE]

\* A descendant leaves the process group, and so outlives its kill.
GitDetaches == workspace' = [workspace EXCEPT !.stray = TRUE] /\ UNCHANGED install

RunGit ==
    /\ install.pc \in {"init", "fetch", "resolve", "size", "blob"}
    /\ GitSucceeds \/ GitFails \/ GitTimesOut \/ GitOutgrows \/ GitEscapes \/ GitDetaches
    /\ UNCHANGED <<disk, during, remote, artifact>>

\* As a bug would have it: an error returns before the cleanup.
CleanWorkspaceOnSuccess ==
    /\ install.pc = "clean"
    /\ IF install.outcome # "read" THEN InstallEnds(install.outcome) /\ UNCHANGED workspace
       ELSE install' = [install EXCEPT !.pc = "insert"] /\ workspace' = [workspace EXCEPT !.there = FALSE]
    /\ UNCHANGED <<disk, during, remote, artifact>>

\* The workspace is preserved when processes may still be using it, and removed
\* otherwise; a removal that fails, because a stray still writes there, replaces
\* the result, and dropping the workspace tries once more.
CleanWorkspace ==
    /\ install.pc = "clean"
    /\ \/ /\ install.outcome = "containment"
          /\ InstallEnds("containment")
          /\ UNCHANGED workspace
       \/ /\ install.outcome # "containment"
          /\ workspace' = [workspace EXCEPT !.there = FALSE]
          /\ IF install.outcome = "read" THEN install' = [install EXCEPT !.pc = "insert"]
             ELSE InstallEnds(install.outcome)
       \/ /\ install.outcome # "containment" /\ workspace.stray
          /\ \E there \in BOOLEAN : workspace' = [workspace EXCEPT !.there = there]
          /\ InstallEnds("workspace")
    /\ UNCHANGED <<disk, during, remote, artifact>>

-----------------------------------------------------------------------------
\* Library::install_bytes: everything or an error.
InstallBytes ==
    /\ install.pc = "insert"
    /\ \/ /\ artifact' = [bytes |-> install.bytes,
                          from |-> IF install.commit = 0 THEN "local" ELSE ToString(install.commit)]
          /\ InstallEnds("installed")
       \/ InstallEnds("library") /\ UNCHANGED artifact
    /\ UNCHANGED <<disk, during, remote, workspace>>

InstallNext ==
    \/ EditSource \/ RemoteMoves
    \/ StatLocal \/ OpenLocal \/ ReadLocal \/ VerifyLocal
    \/ FindGit \/ CreateWorkspace \/ RunGit \/ CleanWorkspace
    \/ InstallBytes

InstallSpec == InstallInit /\ [][InstallNext]_installVars

-----------------------------------------------------------------------------
\* What read_local_source and read_git_source hand to the library is one
\* version of the source, never a mixture: the bytes of a local file are a
\* content the opened file had at one moment of the reading, whoever wrote to it
\* meanwhile, and the bytes from git are the artifact of the very commit the
\* provenance records, although HEAD moves during the commands.
InstalledIsOneVersion ==
    artifact # NoArtifact =>
        IF artifact.from = "local" THEN artifact.bytes \in during
        ELSE \E c \in 1 .. MaxHead : artifact.from = ToString(c) /\ artifact.bytes = Blob(c)

\* An installation that returns leaves its git workspace behind only to
\* processes it could not end.
WorkspaceIsRemoved == install.pc = "done" /\ workspace.there => workspace.stray

InstallIsSound == InstalledIsOneVersion /\ WorkspaceIsRemoved
=============================================================================
