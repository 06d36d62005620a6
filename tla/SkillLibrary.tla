---------------------------- MODULE SkillLibrary ----------------------------
(***************************************************************************)
(* The canonical skill library, crates/pam_skills/src/library.rs: a chain  *)
(* of manifest generations, each made durable by three immutable files in  *)
(* three directories (pending marker, manifest, commit marker), read back  *)
(* with recovery, and migrated once from the older schemas with an epoch   *)
(* marker that makes everything before it garbage.                         *)
(*                                                                         *)
(* Every operation holds the library's lock from its first read to its     *)
(* last write, so one job at a time is in progress; it can die between any *)
(* two file operations, and a file operation can fail before or after it   *)
(* took effect.  A manifest is its schema, its base generation and its     *)
(* value: the versions it lists, the ones enabled, and the provenances.    *)
(***************************************************************************)
EXTENDS Naturals, FiniteSets, FiniteSetsExt

CONSTANTS Artifacts,     \* contents a version can be made of
          Provenances,
          MaxGeneration, \* bound on the chain
          MaxLibraryFaults,
          NoGen

VARIABLES pending, manifests, commits, epoch, blobs,   \* the directories
          libjob,     \* the operation that holds the lock
          known,      \* the values an honest reopening may return
          libfaults

libraryVars == <<pending, manifests, commits, epoch, blobs, libjob, known, libfaults>>

EmptyValue == [entries |-> {}, enabled |-> {}, installs |-> {}]
NoJob == [pc |-> "idle", op |-> "none", todo |-> {}, gen |-> 0, value |-> EmptyValue,
          want |-> EmptyValue, migrates |-> FALSE, then |-> "none"]

\* LibraryManifest, as encoded: the digest a marker carries is the manifest.
Manifest(schema, base, value) == [schema |-> schema, base |-> base, value |-> value]

NoFiles == [g \in {} |-> NoGen]
With(files, g, content) == [h \in DOMAIN files \cup {g} |-> IF h = g THEN content ELSE files[h]]
Without(files, g) == [h \in DOMAIN files \ {g} |-> files[h]]

\* A new home, or one written by an older release: two generations, one
\* version, no epoch, perhaps a marker its last operation failed to remove.
LegacyValue == [EmptyValue EXCEPT !.entries = {CHOOSE a \in Artifacts : TRUE}]
LegacyFiles ==
    [g \in 0..1 |-> Manifest("legacy", 0, IF g = 0 THEN EmptyValue ELSE LegacyValue)]

LibraryInit ==
    /\ epoch = NoGen /\ libjob = NoJob /\ libfaults = 0
    /\ \/ pending = {} /\ manifests = NoFiles /\ commits = NoFiles /\ blobs = {} /\ known = {EmptyValue}
       \/ /\ pending \in {{}, {1}} /\ manifests = LegacyFiles /\ commits = LegacyFiles
          /\ blobs = LegacyValue.entries /\ known = {LegacyValue}

----------------------------------------------------------------------------
Base == IF epoch = NoGen THEN 0 ELSE epoch.gen
Committed(g) == g \in DOMAIN manifests /\ (g \in DOMAIN commits \/ (epoch # NoGen /\ epoch.gen = g))

Directories == <<pending, manifests, commits, epoch>>

LibFault == libfaults < MaxLibraryFaults /\ libfaults' = libfaults + 1

LibGoes(pc) == libjob' = [libjob EXCEPT !.pc = pc]

\* The operation ends and drops the lock.
LibEnds == libjob' = NoJob
LibFails == LibEnds /\ UNCHANGED known

\* acquire_lock: any public operation, or opening the library.
BeginOperation ==
    /\ libjob.pc = "idle"
    /\ \E op \in {"open", "insert", "install", "enable", "disable"} :
         libjob' = [NoJob EXCEPT !.pc = "recover", !.op = op, !.todo = pending]
    /\ UNCHANGED <<Directories, blobs, known, libfaults>>

----------------------------------------------------------------------------
(* read_latest_manifest.                                                   *)

\* recover_pending_generations: the marker of a committed generation goes, a
\* generation that was not committed goes with its marker.
RecoverPending ==
    /\ libjob.pc = "recover"
    /\ libjob.todo # {}
    /\ LET g == Min(libjob.todo)
       IN  IF g < Base \/ Committed(g)
           THEN /\ \/ pending' = pending \ {g} /\ UNCHANGED libfaults
                   \/ LibFault /\ UNCHANGED pending
                /\ libjob' = [libjob EXCEPT !.todo = @ \ {g}]
           ELSE /\ libjob' = [libjob EXCEPT !.pc = "clean commit", !.gen = g, !.then = "recover"]
                /\ UNCHANGED <<pending, libfaults>>
    /\ UNCHANGED <<manifests, commits, epoch, blobs, known>>

\* cleanup_pending_generation: commit, manifest, marker, in this order, so
\* that what is left of a generation is never a commit without its marker.
CleanupPending ==
    /\ libjob.pc \in {"clean commit", "clean manifest", "clean pending"}
    /\ LET g == libjob.gen
           next == [libjob EXCEPT !.pc = libjob.then, !.todo = @ \ {g}]
       IN  \/ /\ libjob.pc = "clean commit"
              /\ commits' = Without(commits, g)
              /\ LibGoes("clean manifest")
              /\ UNCHANGED <<manifests, pending, libfaults, known>>
           \/ /\ libjob.pc = "clean manifest"
              /\ manifests' = Without(manifests, g)
              /\ LibGoes("clean pending")
              /\ UNCHANGED <<commits, pending, libfaults, known>>
           \/ /\ libjob.pc = "clean pending"
              /\ pending' = pending \ {g}
              /\ IF libjob.then = "fail" THEN LibFails ELSE libjob' = next /\ UNCHANGED known
              /\ UNCHANGED <<commits, manifests, libfaults>>
           \/ /\ LibFault /\ LibFails
              /\ UNCHANGED <<commits, manifests, pending>>
    /\ UNCHANGED <<epoch, blobs>>

\* cleanup_legacy_generations: everything before the epoch, one file at a
\* time.
CleanupLegacy ==
    /\ libjob.pc \in {"recover", "legacy"}
    /\ libjob.pc = "recover" => libjob.todo = {}
    /\ LET old(files) == {g \in files : g < Base}
           next == IF libjob.pc = "legacy" THEN "apply" ELSE "validate"
       IN  \/ /\ old(DOMAIN manifests \cup DOMAIN commits \cup pending) = {}
              /\ LibGoes(next)
              /\ UNCHANGED <<manifests, commits, pending, libfaults>>
           \/ /\ old(DOMAIN manifests) # {}
              /\ manifests' = Without(manifests, Min(old(DOMAIN manifests)))
              /\ UNCHANGED <<commits, pending, libjob, libfaults>>
           \/ /\ old(DOMAIN manifests) = {} /\ old(DOMAIN commits) # {}
              /\ commits' = Without(commits, Min(old(DOMAIN commits)))
              /\ UNCHANGED <<manifests, pending, libjob, libfaults>>
           \/ /\ old(DOMAIN manifests \cup DOMAIN commits) = {} /\ old(pending) # {}
              /\ pending' = pending \ {Min(old(pending))}
              /\ UNCHANGED <<manifests, commits, libjob, libfaults>>
           \/ /\ old(DOMAIN manifests \cup DOMAIN commits \cup pending) # {}
              /\ LibFault /\ LibEnds
              /\ UNCHANGED <<manifests, commits, pending>>
    /\ UNCHANGED <<epoch, blobs, known>>

\* The generations from the base on, as manifests and as commits, must be
\* the same consecutive numbers, and the last manifest, and the epoch's, the
\* ones their markers name.
Chain == {g \in DOMAIN manifests : g >= Base}
Markers == {g \in DOMAIN commits : g >= Base} \cup (IF epoch = NoGen THEN {} ELSE {Base})
Valid ==
    /\ Chain = Markers
    /\ Chain # {} => Chain = Base..Max(Chain)
    /\ epoch # NoGen => Base \notin DOMAIN commits /\ epoch.manifest = manifests[Base]
    /\ Chain # {} => LET last == Max(Chain)
                     IN  /\ manifests[last].base = Base
                         /\ last \in DOMAIN commits => commits[last] = manifests[last]

\* What read_manifest goes on with: the last generation, to be migrated when
\* it has an older schema; nothing at all is only right when opening.
ValidateChain ==
    /\ libjob.pc = "validate"
    /\ IF ~Valid \/ (Chain = {} /\ libjob.op # "open") THEN LibEnds
       ELSE IF Chain = {}
       THEN libjob' = [libjob EXCEPT !.pc = "pending", !.gen = 0, !.want = EmptyValue]
       ELSE LET last == manifests[Max(Chain)]
            IN  libjob' = [libjob EXCEPT
                  !.gen = Max(Chain) + 1, !.value = last.value, !.want = last.value,
                  !.migrates = last.schema = "legacy",
                  !.pc = IF last.schema = "legacy" /\ Max(Chain) < MaxGeneration THEN "pending" ELSE "apply"]
    /\ UNCHANGED <<Directories, blobs, known, libfaults>>

----------------------------------------------------------------------------
(* The operations, from a manifest to the next.                            *)

Listed(value, a) == a \in value.entries

Inserted(value) == {[value EXCEPT !.entries = @ \cup {a}] : a \in Artifacts}

\* A version keeps the provenance it was first installed with: another one is
\* a conflict.
Installed(value) ==
    {[value EXCEPT !.entries = @ \cup {a}, !.installs = @ \cup {<<a, p>>}] :
        <<a, p>> \in {q \in Artifacts \X Provenances :
                        \A i \in value.installs : i[1] = q[1] => i = q}}

SetEnablement(value, on) ==
    {[value EXCEPT !.enabled = IF on THEN @ \cup {a} ELSE @ \ {a}] :
        a \in {b \in Artifacts : Listed(value, b)}}

\* The values an operation may publish; opening and reading publish none.
NextValues(op, value) ==
    CASE op = "insert" -> Inserted(value)
      [] op = "install" -> Installed(value)
      [] op = "enable" -> SetEnablement(value, TRUE)
      [] op = "disable" -> SetEnablement(value, FALSE)
      [] OTHER -> {value}

\* Nothing to change, or a conflict, ends here; a new version publishes its
\* blob first.
ApplyOperation ==
    /\ libjob.pc = "apply"
    /\ \/ /\ libjob.gen <= MaxGeneration
          /\ \E w \in NextValues(libjob.op, libjob.value) \ {libjob.value} :
               /\ libjob' = [libjob EXCEPT !.want = w, !.pc =
                               IF w.entries \subseteq libjob.value.entries THEN "pending" ELSE "blob"]
               /\ UNCHANGED known
       \/ LibEnds /\ known' = {libjob.value}
    /\ UNCHANGED <<Directories, blobs, libfaults>>

\* publish_blob: immutable and named by its digest, so one that is already
\* there is the same.
PublishBlob ==
    /\ libjob.pc = "blob"
    /\ \/ blobs' = blobs \cup libjob.want.entries /\ LibGoes("pending") /\ UNCHANGED <<known, libfaults>>
       \/ \E b \in {blobs, blobs \cup libjob.want.entries} :
            blobs' = b /\ LibFault /\ LibFails
    /\ UNCHANGED Directories

----------------------------------------------------------------------------
(* publish_manifest and publish_migrated_manifest.                         *)

Encoded ==
    Manifest("current", IF libjob.migrates THEN libjob.gen ELSE Base, libjob.want)

\* A file is published by a hard link; an error may come before it or after.
CleansUp == libjob' = [libjob EXCEPT !.pc = "clean commit", !.then = "fail"]

\* A manifest published before anything says that it may be incomplete.
WritePendingLate ==
    /\ libjob.pc = "pending"
    /\ LibGoes("manifest")
    /\ known' = known \cup {libjob.want}
    /\ UNCHANGED <<Directories, blobs, libfaults>>

WritePending ==
    /\ libjob.pc = "pending"
    /\ \/ pending' = pending \cup {libjob.gen} /\ LibGoes("manifest") /\ UNCHANGED libfaults
       \/ /\ pending' \in {pending, pending \cup {libjob.gen}}
          /\ LibFault /\ CleansUp
    /\ known' = known \cup {libjob.want}
    /\ UNCHANGED <<manifests, commits, epoch, blobs>>

WriteManifest ==
    /\ libjob.pc = "manifest"
    /\ \/ /\ manifests' = With(manifests, libjob.gen, Encoded)
          /\ LibGoes(IF libjob.migrates THEN "epoch" ELSE "commit") /\ UNCHANGED libfaults
       \/ /\ manifests' \in {manifests, With(manifests, libjob.gen, Encoded)}
          /\ LibFault /\ CleansUp
    /\ UNCHANGED <<pending, commits, epoch, blobs, known>>

WriteCommit ==
    /\ libjob.pc = "commit"
    /\ \/ /\ commits' = With(commits, libjob.gen, manifests[libjob.gen])
          /\ LibGoes("committed") /\ UNCHANGED libfaults
       \/ /\ commits' \in {commits, With(commits, libjob.gen, manifests[libjob.gen])}
          /\ LibFault /\ CleansUp
    /\ UNCHANGED <<pending, manifests, epoch, blobs, known>>

WriteEpoch ==
    /\ libjob.pc = "epoch"
    /\ LET marker == [gen |-> libjob.gen, manifest |-> manifests[libjob.gen]]
       IN  \/ epoch' = marker /\ LibGoes("committed") /\ UNCHANGED libfaults
           \/ epoch' \in {epoch, marker} /\ LibFault /\ LibGoes("retract")
    /\ UNCHANGED <<pending, manifests, commits, blobs, known>>

\* The epoch marker of a failed migration goes first; whether it went is not
\* asked before the generation is cleaned up.
RetractEpoch ==
    /\ libjob.pc = "retract"
    /\ \E kept \in IF libfaults < MaxLibraryFaults THEN {NoGen, epoch} ELSE {NoGen} :
         /\ epoch' = kept
         /\ libfaults' = IF kept = NoGen THEN libfaults ELSE libfaults + 1
    /\ CleansUp
    /\ UNCHANGED <<pending, manifests, commits, blobs, known>>

\* The marker goes; its removal may fail, and the generation is committed all
\* the same.  A migration goes on with the operation it was part of.
FinishCommit ==
    /\ libjob.pc = "committed"
    /\ \/ pending' = pending \ {libjob.gen} /\ UNCHANGED libfaults
       \/ LibFault /\ UNCHANGED pending
    /\ IF libjob.migrates
       THEN /\ libjob' = [libjob EXCEPT !.pc = "legacy", !.gen = @ + 1, !.migrates = FALSE]
            /\ UNCHANGED known
       ELSE LibEnds /\ known' = {libjob.want}
    /\ UNCHANGED <<manifests, commits, epoch, blobs>>

LibraryDies ==
    /\ libjob.pc # "idle"
    /\ LibFails
    /\ UNCHANGED <<Directories, blobs, libfaults>>

LibraryNext ==
    \/ BeginOperation \/ RecoverPending \/ CleanupPending \/ CleanupLegacy
    \/ ValidateChain \/ ApplyOperation \/ PublishBlob
    \/ WritePending \/ WriteManifest \/ WriteCommit \/ WriteEpoch
    \/ RetractEpoch \/ FinishCommit \/ LibraryDies

LibrarySpec == LibraryInit /\ [][LibraryNext]_libraryVars

----------------------------------------------------------------------------
\* The value that the next operation would read: the generations its recovery
\* keeps, the last of them.
Kept == {g \in Chain : g \in pending => Committed(g)}
Reopened == IF Kept = {} THEN EmptyValue ELSE manifests[Max(Kept)].value

\* "Canonical publication is digest-verified and atomic": wherever the last
\* operation died or failed, the next one finds a chain it accepts, with the
\* value of the last operation that reported success or of one that was
\* begun after it, and a blob for every version it lists.
LibrarySurvives ==
    /\ Kept = Markers \ {g \in pending : ~Committed(g)}
    /\ Kept # {} => Kept = Base..Max(Kept)
    /\ epoch # NoGen => Base \in Kept /\ epoch.manifest = manifests[Base]
    /\ Reopened \in known
    /\ Reopened.entries \subseteq blobs
=============================================================================
