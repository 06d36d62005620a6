----------------------------- MODULE Materialize -----------------------------
(***************************************************************************)
(* Publishing a library version at its place under an agent's root, and    *)
(* taking it away again: crates/pam_skills/src/materialize.rs, called for  *)
(* one project at a time by pam_gui/src/skill_library.rs and the CLI.      *)
(*                                                                         *)
(* One destination under one root, which several projects share (the Codex *)
(* root is the user's).  Pam's operations hold the root's lock; a writer   *)
(* that does not (an editor, the agent) may write or remove the file       *)
(* between any two of their file operations, and each of them can die, or  *)
(* fail, anywhere.  The library's own operations are single steps here:    *)
(* SkillLibrary shows that they are.  A file is what is in it.             *)
(***************************************************************************)
EXTENDS Naturals, FiniteSets

CONSTANTS Owners,        \* projects that enable the skill
          Releases,      \* versions of it in the library
          Texts,         \* what the other writer writes
          MaxWrites, MaxMaterializeFaults, Missing

VARIABLES placed,     \* the destination
          backups,    \* destination.pam-backup-<digest>
          retained,   \* quarantines that no operation holds any more
          enabled, owned,  \* the library's enablements and managed copies
          action,     \* the operation of each project
          rootLock, writes, matFaults,
          precious    \* what the other writer wrote and did not remove

matVars == <<placed, backups, retained, enabled, owned, action, rootLock,
             writes, matFaults, precious>>

NoAction == [pc |-> "idle", kind |-> "none", release |-> Missing, existing |-> Missing,
             backedUp |-> FALSE, held |-> Missing, mutated |-> FALSE, hold |-> Missing]

MatInit ==
    /\ placed \in Texts \cup {Missing}
    /\ precious = {placed} \ {Missing}
    /\ backups = {} /\ retained = {} /\ enabled = {}
    /\ owned = [p \in Owners |-> Missing]
    /\ action = [p \in Owners |-> NoAction]
    /\ rootLock = Missing /\ writes = 0 /\ matFaults = 0

----------------------------------------------------------------------------
Library == <<enabled, owned>>
Outside == <<writes, precious>>

Step(p, pc) == action' = [action EXCEPT ![p].pc = pc]

\* The lock goes with the operation; the quarantines it still holds stay.
Leaves(p) ==
    /\ action' = [action EXCEPT ![p] = NoAction]
    /\ rootLock' = IF rootLock = p THEN Missing ELSE rootLock
    /\ retained' = retained \cup ({action[p].held, action[p].hold} \ {Missing})

MatFault == matFaults < MaxMaterializeFaults /\ matFaults' = matFaults + 1

\* A disabling holds the library's lock until it ends.
LibraryFree == \A p \in Owners : action[p].kind = "disable" => action[p].pc \in {"idle", "lock", "disable"}

Enable(p) ==
    /\ action[p].pc = "idle" /\ LibraryFree
    /\ \E r \in Releases : enabled' = enabled \cup {<<p, r>>}
    /\ UNCHANGED <<placed, backups, retained, owned, action, rootLock, matFaults, Outside>>

\* The plan is what the file and its backup were when it was made: nothing to
\* do, create, or replace.
Planned(p, kind, r) ==
    action' = [action EXCEPT ![p] =
        [NoAction EXCEPT !.pc = "lock", !.kind = kind, !.release = r,
                         !.existing = placed, !.backedUp = placed \in backups]]

\* plan_managed_materialization and its apply, which the control center calls
\* one after the other.
Plan(p) ==
    /\ action[p].pc = "idle" /\ LibraryFree
    /\ \E r \in Releases : <<p, r>> \in enabled /\ Planned(p, "apply", r)
    /\ UNCHANGED <<placed, backups, retained, Library, rootLock, matFaults, Outside>>

\* inspect_materialization_drift.
Drift(p, r) ==
    CASE <<p, r>> \notin enabled -> "disabled"
      [] <<p, r>> \in enabled /\ owned[p] # r -> "unowned"
      [] OTHER -> IF placed = r THEN "clean" ELSE "modified or missing"

PlanResync(p) ==
    /\ action[p].pc = "idle" /\ LibraryFree
    /\ \E r \in Releases :
         Drift(p, r) \notin {"disabled", "unowned"} /\ Planned(p, "resync", r)
    /\ UNCHANGED <<placed, backups, retained, Library, rootLock, matFaults, Outside>>

BeginDisable(p) ==
    /\ action[p].pc = "idle"
    /\ \E r \in Releases :
         action' = [action EXCEPT ![p] = [NoAction EXCEPT !.pc = "lock", !.kind = "disable", !.release = r]]
    /\ UNCHANGED <<placed, backups, retained, Library, rootLock, matFaults, Outside>>

LockRoot(p) ==
    /\ action[p].pc = "lock" /\ rootLock = Missing
    /\ rootLock' = p
    /\ Step(p, IF action[p].kind = "disable" THEN "disable" ELSE "prepare")
    /\ UNCHANGED <<placed, backups, retained, Library, matFaults, Outside>>

----------------------------------------------------------------------------
(* apply_materialization_inner.                                            *)

Replaces(p) == action[p].existing \notin {Missing, action[p].release}

\* revalidate_plan_item: the file, and whether its backup exists, are as
\* planned.
AsPlanned(p) ==
    /\ placed = action[p].existing
    /\ Replaces(p) => (placed \in backups) = action[p].backedUp

\* validate_managed_ownership, then prepare_apply.
Prepare(p) ==
    /\ action[p].pc = "prepare"
    /\ IF /\ <<p, action[p].release>> \in enabled
          /\ action[p].kind = "resync" => owned[p] = action[p].release
          /\ AsPlanned(p)
       THEN /\ Step(p, IF action[p].existing = action[p].release THEN "record" ELSE "backup")
            /\ UNCHANGED <<retained, rootLock>>
       ELSE Leaves(p)
    /\ UNCHANGED <<placed, backups, Library, matFaults, Outside>>

\* revalidate_plan_item once more and create_backup.
CreateBackup(p) ==
    /\ action[p].pc = "backup"
    /\ IF AsPlanned(p)
       THEN /\ backups' = IF Replaces(p) THEN backups \cup {action[p].existing} ELSE backups
            /\ Step(p, IF Replaces(p) THEN "quarantine" ELSE "link")
            /\ UNCHANGED <<retained, rootLock>>
       ELSE Leaves(p) /\ UNCHANGED backups
    /\ UNCHANGED <<placed, Library, matFaults, Outside>>

\* quarantine_replacement_for_publish: the file moves into a private
\* directory, whatever it is by now.
QuarantineReplaced(p) ==
    /\ action[p].pc = "quarantine"
    /\ IF placed = Missing THEN Leaves(p) /\ UNCHANGED placed
       ELSE /\ placed' = Missing
            /\ action' = [action EXCEPT ![p].pc = "verify held", ![p].held = placed]
            /\ UNCHANGED <<retained, rootLock>>
    /\ UNCHANGED <<backups, Library, matFaults, Outside>>

\* What was moved is replaced without being looked at.
VerifyHeldBlindly(p) ==
    /\ action[p].pc = "verify held"
    /\ Step(p, "link")
    /\ UNCHANGED <<placed, backups, retained, Library, rootLock, matFaults, Outside>>

\* Only the planned bytes may be replaced; others go back, and so do the
\* planned ones when a sync fails.
VerifyHeld(p) ==
    /\ action[p].pc = "verify held"
    /\ \/ /\ Step(p, IF action[p].held = action[p].existing THEN "link" ELSE "restore")
          /\ UNCHANGED matFaults
       \/ MatFault /\ Step(p, "restore")
    /\ UNCHANGED <<placed, backups, retained, Library, rootLock, Outside>>

\* The new file is linked to its name, which fails if there is one.
LinkNew(p) ==
    /\ action[p].pc = "link"
    /\ \/ /\ placed = Missing
          /\ placed' = action[p].release
          /\ action' = [action EXCEPT ![p].pc = "verify", ![p].mutated = TRUE]
          /\ UNCHANGED <<retained, rootLock, matFaults>>
       \/ /\ IF placed # Missing THEN UNCHANGED matFaults ELSE MatFault
          /\ IF action[p].held = Missing THEN Leaves(p)
             ELSE Step(p, "restore") /\ UNCHANGED <<retained, rootLock>>
          /\ UNCHANGED placed
    /\ UNCHANGED <<backups, Library, Outside>>

\* The published file is read back, then the quarantine of what it replaced
\* is removed if it is still that.
VerifyPublished(p) ==
    /\ action[p].pc = "verify"
    /\ \/ /\ action' = [action EXCEPT ![p].pc = IF placed = action[p].release THEN "record" ELSE "rollback",
                                      ![p].held = IF placed = action[p].release THEN Missing ELSE @]
          /\ UNCHANGED matFaults
       \/ MatFault /\ Step(p, "rollback")
    /\ UNCHANGED <<placed, backups, retained, Library, rootLock, Outside>>

\* record_managed_ownership: a no-op of an apply only moves an ownership the
\* project has; anything else needs the version to be enabled still.
RecordOwnership(p) ==
    /\ action[p].pc = "record" /\ LibraryFree
    /\ LET r == action[p].release
           failed == IF action[p].mutated THEN Step(p, "rollback") /\ UNCHANGED <<retained, rootLock>>
                     ELSE Leaves(p)
       IN  \/ /\ <<p, r>> \in enabled
              /\ owned' = IF action[p].kind = "apply" /\ ~action[p].mutated /\ owned[p] = Missing
                          THEN owned ELSE [owned EXCEPT ![p] = r]
              /\ Leaves(p) /\ UNCHANGED matFaults
           \/ /\ IF <<p, r>> \notin enabled THEN UNCHANGED matFaults ELSE MatFault
              /\ failed /\ UNCHANGED owned
    /\ UNCHANGED <<placed, backups, enabled, Outside>>

----------------------------------------------------------------------------
(* rollback_mutation.                                                      *)

\* validate_rollback_backup and quarantine_destination_for_rollback.
RollbackQuarantine(p) ==
    /\ action[p].pc = "rollback"
    /\ IF Replaces(p) /\ action[p].existing \notin backups THEN Leaves(p) /\ UNCHANGED placed
       ELSE /\ placed' = Missing
            /\ action' = [action EXCEPT ![p].pc = IF placed \in {Missing, action[p].release}
                                                  THEN "restore previous" ELSE "restore",
                                        ![p].hold = placed]
            /\ UNCHANGED <<retained, rootLock>>
    /\ UNCHANGED <<backups, Library, matFaults, Outside>>

\* restore_previous_no_replace, then both quarantines are removed; a file
\* that came up in the meantime stays, and so do the quarantines.
RestorePrevious(p) ==
    /\ action[p].pc = "restore previous"
    /\ IF Replaces(p) /\ placed # Missing THEN Leaves(p) /\ UNCHANGED placed
       ELSE /\ placed' = IF Replaces(p) THEN action[p].existing ELSE placed
            /\ action' = [action EXCEPT ![p] = NoAction]
            /\ rootLock' = Missing
            /\ UNCHANGED retained
    /\ UNCHANGED <<backups, Library, matFaults, Outside>>

\* restore_quarantined_destination: what was moved is linked back to its
\* name unless there is a file by now.
RestoreMoved(p) ==
    /\ action[p].pc = "restore"
    /\ LET moved == IF action[p].hold # Missing THEN action[p].hold ELSE action[p].held
       IN  \/ /\ placed = Missing /\ placed' = moved
              /\ Step(p, "unhold")
              /\ UNCHANGED <<retained, rootLock, matFaults>>
           \/ /\ IF placed # Missing THEN UNCHANGED matFaults ELSE MatFault
              /\ Leaves(p) /\ UNCHANGED placed
    /\ UNCHANGED <<backups, Library, Outside>>

\* remove_restored_quarantine: the second link to the file goes, unless a
\* sync fails (retain_recovery_link).  What a rollback could not undo keeps
\* the quarantine of the replaced file.
Unhold(p) ==
    /\ action[p].pc = "unhold"
    /\ LET moved == IF action[p].hold # Missing THEN action[p].hold ELSE action[p].held
       IN  \/ /\ placed = moved
              /\ action' = [action EXCEPT ![p] = NoAction]
              /\ rootLock' = Missing
              /\ retained' = IF action[p].hold # Missing /\ action[p].held # Missing
                             THEN retained \cup {action[p].held} ELSE retained
              /\ UNCHANGED matFaults
           \/ /\ IF placed # moved THEN UNCHANGED matFaults ELSE MatFault
              /\ Leaves(p)
    /\ UNCHANGED <<placed, backups, Library, Outside>>

----------------------------------------------------------------------------
(* disable_materialization: under both locks.                              *)

DisableVersion(p) ==
    /\ action[p].pc = "disable"
    /\ enabled' = enabled \ {<<p, action[p].release>>}
    /\ IF owned[p] # action[p].release THEN Leaves(p)
       ELSE Step(p, "take away") /\ UNCHANGED <<retained, rootLock>>
    /\ UNCHANGED <<placed, backups, owned, matFaults, Outside>>

\* quarantine_managed_destination.
QuarantineManaged(p) ==
    /\ action[p].pc = "take away"
    /\ placed' = Missing
    /\ action' = [action EXCEPT ![p].held = placed,
                    ![p].pc = IF placed = Missing THEN "disown" ELSE "verify managed"]
    /\ UNCHANGED <<backups, retained, Library, rootLock, matFaults, Outside>>

\* Only an exact copy of the version is removed.
VerifyManaged(p) ==
    /\ action[p].pc = "verify managed"
    /\ \/ /\ action' = [action EXCEPT
                ![p].pc = IF action[p].held = action[p].release THEN "disown" ELSE "restore",
                ![p].held = IF @ = action[p].release THEN Missing ELSE @]
          /\ UNCHANGED matFaults
       \/ MatFault /\ Step(p, "restore")
    /\ UNCHANGED <<placed, backups, retained, Library, rootLock, Outside>>

Disown(p) ==
    /\ action[p].pc = "disown"
    /\ \/ owned' = [owned EXCEPT ![p] = Missing] /\ UNCHANGED matFaults
       \/ MatFault /\ UNCHANGED owned
    /\ Leaves(p)
    /\ UNCHANGED <<placed, backups, enabled, Outside>>

----------------------------------------------------------------------------
MaterializeDies(p) ==
    /\ action[p].pc # "idle"
    /\ Leaves(p)
    /\ UNCHANGED <<placed, backups, Library, matFaults, Outside>>

\* The writer that takes no lock: it writes the file, or removes it, and
\* with it what it replaces.
ForeignWrite ==
    /\ writes < MaxWrites
    /\ \E t \in Texts \cup Releases \cup {Missing} :
         /\ t # placed
         /\ placed' = t
         /\ precious' = (precious \ {placed}) \cup ({t} \cap Texts)
    /\ writes' = writes + 1
    /\ UNCHANGED <<backups, retained, Library, action, rootLock, matFaults>>

MaterializeStep(p) ==
    \/ Enable(p) \/ Plan(p) \/ PlanResync(p) \/ BeginDisable(p) \/ LockRoot(p) \/ Prepare(p)
    \/ CreateBackup(p) \/ QuarantineReplaced(p) \/ VerifyHeld(p) \/ LinkNew(p)
    \/ VerifyPublished(p) \/ RecordOwnership(p) \/ RollbackQuarantine(p)
    \/ RestorePrevious(p) \/ RestoreMoved(p) \/ Unhold(p)
    \/ DisableVersion(p) \/ QuarantineManaged(p) \/ VerifyManaged(p) \/ Disown(p)
    \/ MaterializeDies(p)

MatNext == (\E p \in Owners : MaterializeStep(p)) \/ ForeignWrite

MatSpec == MatInit /\ [][MatNext]_matVars

----------------------------------------------------------------------------
\* "Pam never trades that recovery copy for silently overwriting a
\* non-cooperating writer": what another writer put at the destination, and
\* did not remove itself, is at the destination, in a backup or in a
\* quarantine, wherever publications, rollbacks and disablings of several
\* projects are, and wherever they died or failed.
ForeignBytesSurvive ==
    precious \subseteq {placed} \cup backups \cup retained
                       \cup {action[p].held : p \in Owners} \cup {action[p].hold : p \in Owners}
=============================================================================
