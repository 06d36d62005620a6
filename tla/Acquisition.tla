---------------------------- MODULE Acquisition ----------------------------
(***************************************************************************)
(* Getting a model onto the machine: the resumable download of             *)
(* crates/pam_model/src/acquisition.rs as the control center runs it       *)
(* (model_download.rs), the import of a local file (model_import.rs), and  *)
(* the registration both end with (store_writes.rs, put_model).            *)
(*                                                                         *)
(* A download lives in four sibling files: the destination, the partial,   *)
(* the checkpoint and the lock.  A file is the sequence of its segments,   *)
(* a segment the version of the upstream file it comes from; a strong      *)
(* entity tag names the version it was sent with.  "broken" is a version   *)
(* that is not a GGUF file.  A process can die between any two steps.      *)
(***************************************************************************)
EXTENDS Naturals, Sequences, FiniteSets

CONSTANTS Jobs,          \* processes that download to this destination
          Want,          \* the version each one's descriptor names
          Size,          \* segments of the expected file
          Versions,      \* what the upstream may hold
          MaxRedirects,
          MaxAttempts,   \* bound on the attempts of all jobs
          MaxChanges,    \* bound on the upstream's changes
          NoFile, NoTag

ASSUME AcquisitionAssumption ==
    /\ Size \in Nat \ {0} /\ MaxRedirects \in Nat
    /\ Want \in [Jobs -> Versions \ {"broken"}]

VARIABLES dest, part, ckpt, lock,   \* the files
          get,         \* the download of every process
          upstream,    \* the version each source holds
          import,      \* the import of the control center, and its file
          registry,    \* the row of this model
          spent        \* attempts and changes so far

acquisitionVars == <<dest, part, ckpt, lock, get, upstream, import, registry, spent>>

NoGet == [pc |-> "idle", offset |-> 0, etag |-> NoTag, version |-> NoTag,
          hops |-> 0, then |-> "none", cancel |-> FALSE, answer |-> "none"]
Whole(v) == [i \in 1..Size |-> v]

AcquisitionInit ==
    /\ dest = NoFile /\ part = NoFile /\ ckpt = NoFile /\ lock = NoFile
    /\ get = [j \in Jobs |-> NoGet]
    /\ upstream = [j \in Jobs |-> Want[j]]
    /\ import = [pc |-> "idle", file |-> "good", digest |-> NoTag]
    /\ registry = NoFile
    /\ spent = [attempts |-> 0, changes |-> 0]

----------------------------------------------------------------------------
Goes(j, pc) == get' = [get EXCEPT ![j].pc = pc]

\* download_https returns: the lock goes with it, and the manager's finish
\* reports an error as a cancellation when one was asked for.
Returns(j, answer) ==
    /\ lock' = NoFile
    /\ get' = [get EXCEPT ![j] =
         [NoGet EXCEPT !.answer =
            IF get[j].cancel /\ answer = "failed" THEN "cancelled" ELSE answer]]

\* discard_partial, and what follows it.
Discards(j, then) == get' = [get EXCEPT ![j].pc = "discard", ![j].then = then]

Files == <<dest, part, ckpt>>
World == <<upstream, import, registry, spent>>

----------------------------------------------------------------------------
(* prepare_download.                                                       *)

\* ModelDownloadManager::start_with: one download at a time.
StartDownload(j) ==
    /\ get[j].pc = "idle"
    /\ spent.attempts < MaxAttempts
    /\ spent' = [spent EXCEPT !.attempts = @ + 1]
    /\ get' = [get EXCEPT ![j] = [NoGet EXCEPT !.pc = "lock"]]
    /\ UNCHANGED <<Files, lock, upstream, import, registry>>

AcquireLock(j) ==
    /\ get[j].pc = "lock"
    /\ IF lock = NoFile
       THEN lock' = j /\ Goes(j, IF dest # NoFile THEN "reconcile" ELSE "checkpoint")
       ELSE /\ get' = [get EXCEPT ![j] = [NoGet EXCEPT !.answer = "busy"]]
            /\ UNCHANGED lock
    /\ UNCHANGED <<Files, World>>

\* reconcile_existing_destination: only an identical file is accepted.
Reconcile(j) ==
    /\ get[j].pc = "reconcile"
    /\ IF dest = Whole(Want[j])
       THEN Discards(j, "register") /\ UNCHANGED lock
       ELSE Returns(j, "failed")
    /\ UNCHANGED <<Files, World>>

ExpectedCheckpoint(j) == [want |-> Want[j], etag |-> NoTag]

\* load_or_create_checkpoint: a checkpoint of another descriptor, or a
\* partial with none, is a conflict; a checkpoint whose partial is gone
\* forgets its tag.
LoadOrCreateCheckpoint(j) ==
    /\ get[j].pc = "checkpoint"
    /\ IF (ckpt # NoFile /\ ckpt.want # Want[j]) \/ (ckpt = NoFile /\ part # NoFile)
       THEN Returns(j, "failed") /\ UNCHANGED ckpt
       ELSE LET stored == IF ckpt = NoFile \/ part = NoFile THEN ExpectedCheckpoint(j) ELSE ckpt
            IN  /\ ckpt' = stored
                /\ get' = [get EXCEPT ![j].pc = "size", ![j].etag = stored.etag]
                /\ UNCHANGED lock
    /\ UNCHANGED <<dest, part, World>>

PartialSize == IF part = NoFile THEN 0 ELSE Len(part)

\* What prepare_download makes of the retained bytes: too many are dropped,
\* all of them are only to be verified, and some without a tag start over.
ResumeAt(j) ==
    /\ get[j].pc = "size"
    /\ IF PartialSize > Size THEN Discards(j, "return")
       ELSE IF PartialSize = Size THEN Goes(j, "inspect")
       ELSE IF PartialSize > 0 /\ get[j].etag = NoTag THEN Discards(j, "reset")
       ELSE get' = [get EXCEPT ![j].pc = "send", ![j].offset = PartialSize]
    /\ UNCHANGED <<Files, lock, World>>

----------------------------------------------------------------------------
(* discard_partial and reset_partial: the partial first.                   *)

RemovePartial(j) ==
    /\ get[j].pc = "discard"
    /\ part' = NoFile
    /\ Goes(j, "discard checkpoint")
    /\ UNCHANGED <<dest, ckpt, lock, World>>

RemoveCheckpoint(j) ==
    /\ get[j].pc = "discard checkpoint"
    /\ ckpt' = NoFile
    /\ \/ get[j].then = "return" /\ Returns(j, "failed")
       \/ get[j].then = "reset" /\ Goes(j, "reset") /\ UNCHANGED lock
       \/ /\ get[j].then = "register"
          /\ Goes(j, "register")
          /\ lock' = NoFile
    /\ UNCHANGED <<dest, part, World>>

ResetPartial(j) ==
    /\ get[j].pc = "reset"
    /\ ckpt' = ExpectedCheckpoint(j)
    /\ get' = [get EXCEPT ![j].pc = "send", ![j].offset = 0, ![j].etag = NoTag,
                          ![j].then = "none", ![j].hops = 0]
    /\ UNCHANGED <<dest, part, lock, World>>

----------------------------------------------------------------------------
(* The transfer.                                                           *)

\* send_with_redirects: an answer, a permitted hop, or an error.
SendFails(j) ==
    /\ get[j].pc = "send"
    /\ Returns(j, "failed")
    /\ UNCHANGED <<Files, World>>

FollowRedirect(j) ==
    /\ get[j].pc = "send"
    /\ get[j].hops < MaxRedirects
    /\ get' = [get EXCEPT ![j].hops = @ + 1]
    /\ UNCHANGED <<Files, lock, World>>

\* A range taken without comparing its tag.
RangeContinuesAlways(j, tag) == tag # NoTag \/ get[j].etag # NoTag

\* A whole answer restarts the file; a range is taken when it starts at the
\* offset and carries the tag that was asked for.
RangeContinues(j, tag) == tag = get[j].etag

Answered(j) ==
    /\ get[j].pc = "send"
    /\ \E tag \in {NoTag, upstream[j]}, status \in {"ok", "partial"} :
         /\ status = "partial" => get[j].offset > 0
         /\ IF status = "partial" /\ ~RangeContinues(j, tag)
            THEN Discards(j, "reset")
            ELSE get' = [get EXCEPT ![j].version = upstream[j], ![j].etag = tag,
                           ![j].pc = IF status = "ok" /\ get[j].offset > 0
                                     THEN "truncate" ELSE "save"]
    /\ UNCHANGED <<Files, lock, World>>

Truncate(j) ==
    /\ get[j].pc = "truncate"
    /\ part' = NoFile
    /\ get' = [get EXCEPT ![j].pc = "save", ![j].offset = 0]
    /\ UNCHANGED <<dest, ckpt, lock, World>>

SaveCheckpoint(j) ==
    /\ get[j].pc = "save"
    /\ ckpt' = [want |-> Want[j], etag |-> get[j].etag]
    /\ Goes(j, "open")
    /\ UNCHANGED <<dest, part, lock, World>>

\* open_partial: a transfer from the start creates the file and fails when
\* there is one, a resumed one appends at the offset.
OpenPartial(j) ==
    /\ get[j].pc = "open"
    /\ \/ /\ get[j].offset = 0 /\ part = NoFile
          /\ part' = <<>>
          /\ Goes(j, "body") /\ UNCHANGED lock
       \/ /\ get[j].offset > 0 /\ PartialSize = get[j].offset
          /\ Goes(j, "body") /\ UNCHANGED <<part, lock>>
       \/ /\ PartialSize # get[j].offset \/ (get[j].offset = 0 /\ part # NoFile)
          /\ Returns(j, "failed") /\ UNCHANGED part
    /\ UNCHANGED <<dest, ckpt, World>>

\* append_response_chunks: a segment more than expected drops everything.
AppendChunk(j) ==
    /\ get[j].pc = "body"
    /\ IF Len(part) = Size
       THEN Discards(j, "return") /\ UNCHANGED part
       ELSE part' = Append(part, get[j].version) /\ UNCHANGED get
    /\ UNCHANGED <<dest, ckpt, lock, World>>

\* The connection ends, fails, or meets the cancel flag: the partial is kept
\* for a resume when there is a tag to resume with.
BodyEnds(j) ==
    /\ get[j].pc = "body"
    /\ \/ Len(part) = Size /\ Goes(j, "inspect") /\ UNCHANGED lock
       \/ Len(part) < Size /\ get[j].etag = NoTag /\ Discards(j, "return") /\ UNCHANGED lock
       \/ Len(part) < Size /\ get[j].etag # NoTag /\ Returns(j, "failed")
    /\ UNCHANGED <<Files, World>>

CancelDownload(j) ==
    /\ get[j].pc \notin {"idle", "register"} /\ ~get[j].cancel
    /\ get' = [get EXCEPT ![j].cancel = TRUE]
    /\ UNCHANGED <<Files, lock, World>>

----------------------------------------------------------------------------
(* finish_download.                                                        *)

\* inspect_gguf on the retained bytes.
Structured(bytes) == \A i \in 1..Len(bytes) : bytes[i] # "broken"

\* A digest no one looks at.
VerifyDescriptorNever(j, bytes) == TRUE

VerifyDescriptor(j, bytes) == bytes = Whole(Want[j])

\* inspect_model reads the structure before the digest, and only the
\* verification of the digest discards what it refuses.
Inspect(j) ==
    /\ get[j].pc = "inspect"
    /\ IF ~Structured(part) THEN Returns(j, "failed")
       ELSE /\ IF VerifyDescriptor(j, part) THEN Goes(j, "publish") ELSE Discards(j, "return")
            /\ UNCHANGED lock
    /\ UNCHANGED <<Files, World>>

\* publish_no_replace: a hard link, which never replaces.
Publish(j) ==
    /\ get[j].pc = "publish"
    /\ IF dest = NoFile
       THEN dest' = part /\ Discards(j, "register")
       ELSE Goes(j, "reconcile") /\ UNCHANGED dest
    /\ UNCHANGED <<part, ckpt, lock, World>>

----------------------------------------------------------------------------
(* Registration.                                                           *)

\* Store::put_model: the identical artifact again is accepted, another one
\* under the same identity is a conflict.
PutModel(row) ==
    registry' = IF registry = NoFile THEN row ELSE registry

Conflicts(row) == registry # NoFile /\ registry # row

Register(j) ==
    /\ get[j].pc = "register"
    /\ LET row == [path |-> "destination", digest |-> Want[j]]
       IN  \/ /\ PutModel(row)
              /\ get' = [get EXCEPT ![j] = [NoGet EXCEPT !.answer =
                           IF Conflicts(row) THEN "failed" ELSE "complete"]]
           \/ /\ get' = [get EXCEPT ![j] = [NoGet EXCEPT !.answer = "failed"]]
              /\ UNCHANGED registry
    /\ UNCHANGED <<Files, lock, upstream, import, spent>>

\* ModelImportManager::start_with and hash_file: the digest the descriptor
\* will name.
HashFile ==
    /\ import.pc = "idle"
    /\ spent.attempts < MaxAttempts
    /\ spent' = [spent EXCEPT !.attempts = @ + 1]
    /\ import' = [import EXCEPT !.pc = "verify", !.digest = import.file]
    /\ UNCHANGED <<Files, lock, get, upstream, registry>>

ImportEnds == import' = [import EXCEPT !.pc = "idle", !.digest = NoTag]

\* import_existing hashes again.
ImportExisting ==
    /\ import.pc = "verify"
    /\ IF import.file = import.digest /\ import.file # "broken"
       THEN import' = [import EXCEPT !.pc = "register"] ELSE ImportEnds
    /\ UNCHANGED <<Files, lock, get, upstream, registry, spent>>

\* The verification outlives MODEL_IMPORT_TIMEOUT: the slot is free again and
\* what the thread still finds goes nowhere.
ImportTimesOut ==
    /\ import.pc = "verify"
    /\ ImportEnds
    /\ UNCHANGED <<Files, lock, get, upstream, registry, spent>>

RegisterImport ==
    /\ import.pc = "register"
    /\ \/ PutModel([path |-> "local", digest |-> import.digest])
       \/ UNCHANGED registry
    /\ ImportEnds
    /\ UNCHANGED <<Files, lock, get, upstream, spent>>

----------------------------------------------------------------------------
(* The world.                                                              *)

\* The process dies; the advisory lock goes with it.
Dies(j) ==
    /\ get[j].pc # "idle"
    /\ lock' = IF lock = j THEN NoFile ELSE lock
    /\ get' = [get EXCEPT ![j] = NoGet]
    /\ UNCHANGED <<Files, World>>

UpstreamChanges(j) ==
    /\ spent.changes < MaxChanges
    /\ spent' = [spent EXCEPT !.changes = @ + 1]
    /\ \E v \in Versions \ {upstream[j]} : upstream' = [upstream EXCEPT ![j] = v]
    /\ UNCHANGED <<Files, lock, get, import, registry>>

\* Somebody puts a file where the download would go, or edits the file that
\* is being imported.
ForeignFile ==
    /\ spent.changes < MaxChanges
    /\ spent' = [spent EXCEPT !.changes = @ + 1]
    /\ \/ dest = NoFile /\ dest' = <<"foreign">> /\ UNCHANGED import
       \/ /\ \E v \in Versions \ {import.file} : import' = [import EXCEPT !.file = v]
          /\ UNCHANGED dest
    /\ UNCHANGED <<part, ckpt, lock, get, upstream, registry>>

GetStep(j) ==
    \/ AcquireLock(j) \/ Reconcile(j) \/ LoadOrCreateCheckpoint(j) \/ ResumeAt(j)
    \/ RemovePartial(j) \/ RemoveCheckpoint(j) \/ ResetPartial(j)
    \/ SendFails(j) \/ FollowRedirect(j) \/ Answered(j) \/ Truncate(j)
    \/ SaveCheckpoint(j) \/ OpenPartial(j) \/ AppendChunk(j) \/ BodyEnds(j)
    \/ Inspect(j) \/ Publish(j) \/ Register(j)

AcquisitionNext ==
    \/ \E j \in Jobs : StartDownload(j) \/ GetStep(j) \/ CancelDownload(j)
                       \/ Dies(j) \/ UpstreamChanges(j)
    \/ HashFile \/ ImportExisting \/ ImportTimesOut \/ RegisterImport
    \/ ForeignFile

AcquisitionSpec == AcquisitionInit /\ [][AcquisitionNext]_acquisitionVars

----------------------------------------------------------------------------
\* "The final path is never overwritten" and holds nothing that was not
\* verified: what is registered as downloaded is, byte for byte, the file its
\* descriptor names, whatever upstream did meanwhile, wherever a process
\* died, and whoever else was downloading to the same place.
DownloadedIsVerified ==
    /\ \A i \in 1..Size : dest \in {NoFile, <<"foreign">>} \/ dest[i] = dest[1]
    /\ registry # NoFile /\ registry.path = "destination" => dest = Whole(registry.digest)

\* "bytes are never appended to that full response": the retained bytes are a
\* prefix of one upstream version, and a checkpoint says whose; without it
\* every later attempt would be a conflict.
PartialIsOneVersion ==
    part # NoFile => ckpt # NoFile /\ \A i \in 1..Len(part) : part[i] = part[1]

\* Downloads are sound at both ends: what is retained can be continued, and
\* what is registered was verified (finish_download, verify_and_register).
DownloadsAreSound == DownloadedIsVerified /\ PartialIsOneVersion
=============================================================================
