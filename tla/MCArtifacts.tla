---------------------------- MODULE MCArtifacts ----------------------------
(***************************************************************************)
(* What Pam keeps in files, on small instances: downloaded models, the     *)
(* skill library, what is installed into it and the copies it publishes,   *)
(* and the identity of a caller.  Each behaviour picks one.                *)
(***************************************************************************)
EXTENDS Acquisition, SkillLibrary, SkillInstall, Materialize, Registration, TLC

CONSTANTS j1, j2, p1, p2, k1, k2

VARIABLE subject

\* Two processes download different models to the same destination.
MCWant == (j1 :> "good") @@ (j2 :> "other")

\* Projects differ in nothing but their names.
MCSymmetry == Permutations({p1, p2})

MCArtifactsInit ==
    /\ AcquisitionInit /\ LibraryInit /\ InstallInit /\ MatInit /\ RegistrationInit
    /\ subject \in {"model", "library", "source", "copy", "caller"}
    /\ subject # "library" => manifests = NoFiles
    /\ subject # "source" => disk.path = 1 /\ Len(disk.cells[1]) = MaxCells
    /\ subject # "copy" => placed = Missing
    /\ subject # "caller" => hardLinks

MCArtifactsNext ==
    /\ UNCHANGED subject
    /\ \/ subject = "model" /\ AcquisitionNext
          /\ UNCHANGED <<libraryVars, installVars, matVars, registrationVars>>
       \/ subject = "library" /\ LibraryNext
          /\ UNCHANGED <<acquisitionVars, installVars, matVars, registrationVars>>
       \/ subject = "source" /\ InstallNext
          /\ UNCHANGED <<acquisitionVars, libraryVars, matVars, registrationVars>>
       \/ subject = "copy" /\ MatNext
          /\ UNCHANGED <<acquisitionVars, libraryVars, installVars, registrationVars>>
       \/ subject = "caller" /\ RegistrationNext
          /\ UNCHANGED <<acquisitionVars, libraryVars, installVars, matVars>>

MCArtifactsSpec ==
    MCArtifactsInit
    /\ [][MCArtifactsNext]_<<acquisitionVars, libraryVars, installVars, matVars, registrationVars, subject>>

\* What comes from outside is taken whole: a download that is registered was
\* verified against its checksum, and an artifact that is installed is one
\* version of its source, with nothing left behind.
AcquiredIsWhole == DownloadsAreSound /\ InstallIsSound
=============================================================================
