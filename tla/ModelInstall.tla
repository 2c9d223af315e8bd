---------------------------- MODULE ModelInstall ----------------------------
(* A model pack from the network to its final path: the resumable download of *)
(* each file (or of one archive), the staged copy or extraction, the          *)
(* activation that replaces an installed pack, the removal of a pack, and a   *)
(* process that may be killed at any of these steps.  The same library code   *)
(* runs in the desktop application (model_install_start) and in the setup     *)
(* wizard (download::start); one of the two runs at a time here.              *)
EXTENDS Naturals, Sequences, FiniteSets, SequencesExt

CONSTANTS
    RequiredFiles,     \* the pack's files, in the order of its manifest
    ArchiveFile,       \* the download that holds them all, when there is one
    Total,             \* length of every download, in read units
    CheckpointUnits,   \* RESUME_CHECKPOINT_BYTES, in read units
    MaximumRetries,    \* DownloadPolicy::maximum_retries
    Pinned, Other,     \* the bytes the manifest pins; bytes a server may serve
    NoFile, NoTag, NoMeta, Absent,
    MaxRuns, MaxFaults \* bounds: installs begun, faults of any kind

ASSUME SizesAssumption ==
    /\ RequiredFiles \in Seq(Range(RequiredFiles)) /\ RequiredFiles # <<>>
    /\ ArchiveFile \notin Range(RequiredFiles)
    /\ Total \in Nat \ {0, 1} /\ CheckpointUnits \in 1 .. Total
    /\ MaximumRetries \in Nat /\ MaxRuns \in Nat /\ MaxFaults \in Nat
    /\ Pinned # Other

VARIABLES
    payload,   \* "loose" or "archive"
    served,    \* the bytes the server holds now
    part,      \* request -> the .part file
    meta,      \* request -> the .part.json file
    dest,      \* request -> the finished download
    stage, final, rollback, \* the three directories of an install
    app,       \* the process that runs: "closed", "desktop" or "setup"
    pc,        \* the install thread
    todo,      \* requests not yet downloaded
    prior,     \* the ResumeMetadata this attempt loaded
    reply,     \* the response being read: whose bytes, and its ETag
    saved,     \* units covered by the last checkpoint of this attempt
    attempts,
    cancelled, slot,    \* the CancelToken, and whether its slot is filled
    arbiter, ui,        \* the exclusive operation, and the remove command
    status,             \* ModelInstallView::state
    outcome,   \* how the last install ended
    had,       \* the pack was whole when this install began
    owned,     \* the pack was installed whole and nobody removed it
    runs, faults

net == <<payload, served>>
files == <<part, meta, dest>>
dirs == <<stage, final, rollback>>
thread == <<todo, prior, reply, saved, attempts>>
shell == <<app, cancelled, slot, arbiter, ui, status, runs>>
ghosts == <<had, owned, outcome>>
vars == <<net, files, dirs, pc, thread, shell, ghosts, faults>>

Files == Range(RequiredFiles)
RequestSet == Files \cup {ArchiveFile}
Versions == {Pinned, Other}
Metas == [received : 1 .. Total, etag : Versions]
Bytes == UNION {[1 .. n -> Versions] : n \in 0 .. Total}
Dirs == [Files -> {"none", "pinned", "wrong"}]

(* The downloads of a pack: its archive, or every file of it. *)
Requests == IF payload = "archive" THEN <<ArchiveFile>> ELSE RequiredFiles

(* A file passes verify_hash when every byte is the pinned one. *)
IsPinned(f) == f # NoFile /\ f = [i \in 1 .. Total |-> Pinned]

EmptyDir == [f \in Files |-> "none"]
WholeDir == [f \in Files |-> "pinned"]

ASSUME ValuesAssumption ==
    /\ Absent \notin Dirs /\ NoFile \notin Bytes
    /\ NoMeta \notin Metas /\ NoTag \notin Versions

(* is_present looks at lengths only; reverify at every byte. *)
Present(d) == d # Absent /\ \A f \in Files : d[f] # "none"
Reverified(d) == d # Absent /\ d = WholeDir

readiness == IF Present(final) THEN "installed_unverified" ELSE "absent"

Current == Head(todo)
received == Len(part[Current])

Fault == faults < MaxFaults /\ faults' = faults + 1

Init ==
    /\ payload \in {"loose", "archive"}
    /\ served = Pinned
    /\ part = [r \in RequestSet |-> NoFile]
    /\ meta = [r \in RequestSet |-> NoMeta]
    /\ dest = [r \in RequestSet |-> NoFile]
    /\ stage = Absent /\ rollback = Absent /\ final \in {Absent, WholeDir}
    /\ app = "closed" /\ pc = "idle" /\ ui = "idle"
    /\ todo = <<>> /\ prior = NoMeta /\ saved = 0 /\ attempts = 0
    /\ reply = [version |-> Pinned, tag |-> NoTag]
    /\ cancelled = FALSE /\ slot = FALSE /\ arbiter = "none"
    /\ status = "absent" /\ outcome = "none"
    /\ had = FALSE /\ owned = (final = WholeDir)
    /\ runs = 0 /\ faults = 0

-----------------------------------------------------------------------------
(* The commands. *)

(* ModelCoordinator::new reads the disk once; the wizard does not. *)
Launch(process) ==
    /\ app = "closed"
    /\ app' = process
    /\ status' = IF process = "desktop" THEN readiness ELSE "absent"
    /\ UNCHANGED <<net, files, dirs, pc, thread, cancelled, slot, arbiter, ui,
                   runs, ghosts, faults>>

BeginInstall ==
    /\ slot' = TRUE /\ cancelled' = FALSE
    /\ todo' = Requests
    /\ had' = Reverified(final)
    /\ outcome' = "none"
    /\ pc' = "open"
    /\ runs' = runs + 1

(* model_install_start: one install at a time, and no other exclusive        *)
(* operation with it.                                                         *)
ModelInstallStart ==
    /\ app = "desktop" /\ pc = "idle" /\ ~slot /\ arbiter = "none"
    /\ runs < MaxRuns
    /\ BeginInstall
    /\ arbiter' = "install"
    /\ status' = "downloading"
    /\ UNCHANGED <<net, files, dirs, app, ui, prior, reply, saved, attempts,
                   owned, faults>>

(* execute of the wizard: an artifact whose bytes are still right is kept.    *)
SetupStart ==
    /\ app = "setup" /\ pc = "idle" /\ runs < MaxRuns
    /\ IF Present(final) /\ Reverified(final)
         THEN /\ outcome' = "installed"
              /\ runs' = runs + 1
              /\ UNCHANGED <<slot, cancelled, todo, had, pc>>
         ELSE BeginInstall
    /\ UNCHANGED <<net, files, dirs, app, ui, arbiter, status, prior, reply,
                   saved, attempts, owned, faults>>

(* model_install_cancel, Run::cancel. *)
ModelInstallCancel ==
    /\ slot /\ ~cancelled
    /\ cancelled' = TRUE
    /\ UNCHANGED <<net, files, dirs, pc, thread, app, slot, arbiter, ui,
                   status, runs, ghosts, faults>>

(* model_remove takes the exclusive operation and deletes file by file.       *)
RemoveBegins ==
    /\ app = "desktop" /\ ui = "idle" /\ arbiter = "none"
    /\ runs < MaxRuns
    /\ arbiter' = "delete" /\ ui' = "removing"
    /\ owned' = FALSE /\ had' = FALSE /\ outcome' = "none"
    /\ runs' = runs + 1
    /\ UNCHANGED <<net, files, dirs, pc, thread, app, cancelled, slot, status,
                   faults>>

RemoveFile ==
    /\ ui = "removing" /\ final # Absent
    /\ \/ /\ final = EmptyDir
          /\ final' = Absent
       \/ \E f \in Files : /\ final[f] # "none"
                           /\ final' = [final EXCEPT ![f] = "none"]
    /\ UNCHANGED <<net, files, stage, rollback, pc, thread, shell, ghosts,
                   faults>>

RemoveEnds ==
    /\ ui = "removing"
    /\ \/ final = Absent /\ UNCHANGED faults
       \/ final # Absent /\ Fault
    /\ ui' = "idle" /\ arbiter' = "none"
    /\ UNCHANGED <<net, files, dirs, pc, thread, app, cancelled, slot, status,
                   runs, ghosts>>

-----------------------------------------------------------------------------
(* One download: download_to_file and the attempts under it. *)

(* A finished download with the right bytes is not fetched again.             *)
OpenRequest ==
    /\ pc = "open" /\ todo # <<>>
    /\ IF IsPinned(dest[Current])
         THEN todo' = Tail(todo) /\ UNCHANGED <<dest, attempts, pc>>
         ELSE /\ dest' = [dest EXCEPT ![Current] = NoFile]
              /\ attempts' = 0
              /\ pc' = "attempt"
              /\ UNCHANGED todo
    /\ UNCHANGED <<net, part, meta, dirs, prior, reply, saved, shell, ghosts,
                   faults>>

(* load_resume trusts the metadata over the file: a longer file is cut back.  *)
Usable(r) ==
    /\ part[r] # NoFile /\ meta[r] # NoMeta
    /\ meta[r].received <= Len(part[r])
    /\ meta[r].received < Total

load_resume ==
    IF Usable(Current)
      THEN /\ prior' = meta[Current]
           /\ part' = [part EXCEPT ![Current] =
                         SubSeq(@, 1, meta[Current].received)]
           /\ UNCHANGED meta
      ELSE /\ prior' = NoMeta
           /\ part' = [part EXCEPT ![Current] = NoFile]
           /\ meta' = [meta EXCEPT ![Current] = NoMeta]

Attempt ==
    /\ pc = "attempt" /\ ~cancelled
    /\ load_resume
    /\ pc' = "send"
    /\ UNCHANGED <<net, dest, dirs, todo, reply, saved, attempts, shell,
                   ghosts, faults>>

(* A retryable error is tried again, at most MaximumRetries times and while   *)
(* the overall deadline leaves room for the pause.                            *)
Retried ==
    /\ attempts < MaximumRetries
    /\ attempts' = attempts + 1
    /\ pc' = "attempt"

GiveUp == pc' = "failed" /\ UNCHANGED attempts

is_retryable == Retried \/ GiveUp

CancelledBetweenAttempts ==
    /\ pc = "attempt" /\ cancelled
    /\ GiveUp
    /\ UNCHANGED <<net, files, dirs, todo, prior, reply, saved, shell, ghosts,
                   faults>>

(* The request itself fails, or the answer is a status worth another try, or  *)
(* one that is not (a redirect that is not allowed, a wrong length).          *)
SendFails ==
    /\ pc = "send" /\ Fault
    /\ prior = NoMeta
    /\ is_retryable
    /\ UNCHANGED <<net, files, dirs, todo, prior, reply, saved, shell, ghosts>>

(* The server cannot be reached for a ranged request: the part is kept.       *)
RangedSendFails ==
    /\ pc = "send" /\ Fault
    /\ prior # NoMeta
    /\ is_retryable
    /\ UNCHANGED <<net, files, dirs, todo, prior, reply, saved, shell, ghosts>>

(* validate_resume_response: the server still holds the version whose ETag    *)
(* was recorded, and answers with the range asked for.                        *)
Append206 ==
    /\ pc = "send" /\ prior # NoMeta
    /\ prior.etag = served
    /\ reply' = [version |-> served, tag |-> served]
    /\ saved' = received
    /\ pc' = "body"
    /\ UNCHANGED <<net, files, dirs, todo, prior, attempts, shell, ghosts,
                   faults>>

(* Mutant: the metadata of the refused range stays. *)
RangeRefusedKeepsMetadata ==
    /\ pc = "send" /\ prior # NoMeta
    /\ \/ prior.etag # served /\ UNCHANGED faults
       \/ Fault
    /\ part' = [part EXCEPT ![Current] = NoFile]
    /\ prior' = NoMeta
    /\ UNCHANGED <<net, meta, dest, dirs, pc, todo, reply, saved, attempts,
                   shell, ghosts>>

(* Any other answer to a ranged request, an error status included, throws the *)
(* partial file away and asks again for the whole.                            *)
RangeRefused ==
    /\ pc = "send" /\ prior # NoMeta
    /\ \/ prior.etag # served /\ UNCHANGED faults
       \/ Fault
    /\ part' = [part EXCEPT ![Current] = NoFile]
    /\ meta' = [meta EXCEPT ![Current] = NoMeta]
    /\ prior' = NoMeta
    /\ UNCHANGED <<net, dest, dirs, pc, todo, reply, saved, attempts, shell,
                   ghosts>>

(* The whole file, from its first byte; the server may leave out the ETag.    *)
Whole200 ==
    /\ pc = "send" /\ prior = NoMeta
    /\ \E tag \in {served, NoTag} : reply' = [version |-> served, tag |-> tag]
    /\ part' = [part EXCEPT ![Current] = <<>>]
    /\ saved' = 0
    /\ pc' = "body"
    /\ UNCHANGED <<net, meta, dest, dirs, todo, prior, attempts, shell, ghosts,
                   faults>>

WriteUnit ==
    /\ pc = "body" /\ ~cancelled
    /\ received < Total
    /\ part' = [part EXCEPT ![Current] = Append(@, reply.version)]
    /\ pc' = IF received + 1 - saved >= CheckpointUnits THEN "checkpoint"
             ELSE "body"
    /\ UNCHANGED <<net, meta, dest, dirs, thread, shell, ghosts, faults>>

(* persist_resume replaces the metadata in one rename, after the data is      *)
(* synced; without an ETag there is nothing to resume by.                     *)
persist_resume ==
    IF reply.tag = NoTag THEN UNCHANGED meta
    ELSE meta' = [meta EXCEPT ![Current] =
                    [received |-> received, etag |-> reply.tag]]

Checkpoint ==
    /\ pc = "checkpoint"
    /\ persist_resume
    /\ saved' = received
    /\ pc' = "body"
    /\ UNCHANGED <<net, part, dest, dirs, todo, prior, reply, attempts, shell,
                   ghosts, faults>>

(* A cancel, the deadline or a broken connection ends the attempt: what       *)
(* arrived since the last checkpoint is recorded first.                       *)
BodyBreaks ==
    /\ pc = "body"
    /\ IF received > saved THEN persist_resume ELSE UNCHANGED meta
    /\ \/ cancelled /\ GiveUp /\ UNCHANGED faults
       \/ ~cancelled /\ Fault /\ is_retryable
    /\ UNCHANGED <<net, part, dest, dirs, todo, prior, reply, saved, shell,
                   ghosts>>

(* The body ends early, or runs past the trusted length. *)
LengthMismatch ==
    /\ pc = "body" /\ ~cancelled /\ Fault
    /\ GiveUp
    /\ UNCHANGED <<net, files, dirs, todo, prior, reply, saved, shell, ghosts>>

(* A digest that does not match fails the install and leaves both files.      *)
Complete ==
    /\ pc = "body" /\ ~cancelled /\ received = Total
    /\ pc' = IF IsPinned(part[Current]) THEN "rename" ELSE "failed"
    /\ UNCHANGED <<net, files, dirs, thread, shell, ghosts, faults>>

RenamePart ==
    /\ pc = "rename"
    /\ dest' = [dest EXCEPT ![Current] = part[Current]]
    /\ part' = [part EXCEPT ![Current] = NoFile]
    /\ pc' = "forget"
    /\ UNCHANGED <<net, meta, dirs, thread, shell, ghosts, faults>>

ForgetMetadata ==
    /\ pc = "forget"
    /\ meta' = [meta EXCEPT ![Current] = NoMeta]
    /\ todo' = Tail(todo)
    /\ pc' = "open"
    /\ UNCHANGED <<net, part, dest, dirs, prior, reply, saved, attempts, shell,
                   ghosts, faults>>

-----------------------------------------------------------------------------
(* The install: install_loose_files and install_archive. *)

(* Everything is downloaded: the status says so and the manager begins.       *)
BeginManager ==
    /\ pc = "open" /\ todo = <<>>
    /\ status' = IF app = "desktop" THEN "installing" ELSE status
    /\ pc' = "prepare"
    /\ UNCHANGED <<net, files, dirs, thread, app, cancelled, slot, arbiter, ui,
                   runs, ghosts, faults>>

(* The archive is digested again, the disk must have room and the artifact's  *)
(* lock must be free (another process may hold it); then an empty stage.      *)
PrepareStage ==
    /\ pc = "prepare"
    /\ payload = "archive" => IsPinned(dest[ArchiveFile])
    /\ stage' = EmptyDir
    /\ pc' = "copy"
    /\ UNCHANGED <<net, files, final, rollback, thread, shell, ghosts, faults>>

PrepareRefused ==
    /\ pc = "prepare"
    /\ \/ payload = "archive" /\ ~IsPinned(dest[ArchiveFile]) /\ UNCHANGED faults
       \/ Fault
    /\ pc' = "failed"
    /\ UNCHANGED <<net, files, dirs, thread, shell, ghosts>>

(* copy_verified_file and extract_one digest what they write, so a file that  *)
(* changed since it was downloaded is refused here.                           *)
Source(f) == IF payload = "archive" THEN dest[ArchiveFile] ELSE dest[f]

copy_verified_file(f) ==
    /\ stage' = [stage EXCEPT ![f] =
                   IF IsPinned(Source(f)) THEN "pinned" ELSE "wrong"]
    /\ pc' = IF IsPinned(Source(f)) THEN "copy" ELSE "failed"

CopyNextFile ==
    /\ pc = "copy" /\ ~cancelled
    /\ \E i \in DOMAIN RequiredFiles :
         /\ stage[RequiredFiles[i]] = "none"
         /\ \A j \in 1 .. i - 1 : stage[RequiredFiles[j]] # "none"
         /\ copy_verified_file(RequiredFiles[i])
    /\ UNCHANGED <<net, files, final, rollback, thread, shell, ghosts, faults>>

CancelledWhileCopying ==
    /\ pc = "copy" /\ cancelled
    /\ \E f \in Files : stage[f] = "none"
    /\ pc' = "failed"
    /\ UNCHANGED <<net, files, dirs, thread, shell, ghosts, faults>>

(* Mutant: the old directory is deleted instead of put aside. *)
PutAsideDeletes ==
    /\ pc = "copy" /\ Present(stage)
    /\ final' = Absent /\ UNCHANGED rollback
    /\ pc' = "activate"
    /\ UNCHANGED <<net, files, stage, thread, shell, ghosts, faults>>

(* activate_stage, in the three steps a crash can fall between.  The old      *)
(* directory becomes the rollback.                                            *)
PutAside ==
    /\ pc = "copy" /\ Present(stage)
    /\ IF final # Absent THEN final' = Absent /\ rollback' = final
       ELSE UNCHANGED <<final, rollback>>
    /\ pc' = "activate"
    /\ UNCHANGED <<net, files, stage, thread, shell, ghosts, faults>>

PutAsideFails ==
    /\ pc = "copy" /\ Present(stage) /\ final # Absent /\ Fault
    /\ rollback' = Absent
    /\ pc' = "failed"
    /\ UNCHANGED <<net, files, stage, final, thread, shell, ghosts>>

(* Mutant: the stage is copied file by file instead of renamed. *)
ActivateByCopy ==
    /\ pc = "activate"
    /\ final' = [EmptyDir EXCEPT ![RequiredFiles[1]] = stage[RequiredFiles[1]]]
    /\ stage' = Absent /\ owned' = TRUE
    /\ pc' = "discard"
    /\ UNCHANGED <<net, files, rollback, thread, shell, had, outcome, faults>>

Activate ==
    /\ pc = "activate"
    /\ final' = stage /\ stage' = Absent
    /\ owned' = TRUE
    /\ pc' = "discard"
    /\ UNCHANGED <<net, files, rollback, thread, shell, had, outcome, faults>>

(* The new directory cannot be renamed: the old one is renamed back, which    *)
(* may fail as well.                                                          *)
ActivateFails ==
    /\ pc = "activate" /\ faults < MaxFaults
    /\ \/ /\ IF rollback # Absent THEN final' = rollback /\ rollback' = Absent
             ELSE UNCHANGED <<final, rollback>>
          /\ faults' = faults + 1
       \/ /\ rollback # Absent /\ faults + 2 <= MaxFaults
          /\ UNCHANGED <<final, rollback>>
          /\ faults' = faults + 2
    /\ pc' = "failed"
    /\ UNCHANGED <<net, files, stage, thread, shell, ghosts>>

(* A rollback that cannot be removed fails an install that took effect.       *)
DiscardRollback ==
    /\ pc = "discard"
    /\ \/ rollback' = Absent /\ pc' = "done" /\ UNCHANGED faults
       \/ rollback # Absent /\ Fault /\ pc' = "failed" /\ UNCHANGED rollback
    /\ UNCHANGED <<net, files, stage, final, thread, shell, ghosts>>

(* The install thread's own variables go with it. *)
ThreadGone ==
    /\ todo' = <<>> /\ prior' = NoMeta /\ saved' = 0 /\ attempts' = 0
    /\ reply' = [version |-> Pinned, tag |-> NoTag]

(* The stage of a failed install is removed and the thread reports.           *)
Settle ==
    /\ pc \in {"done", "failed"}
    /\ stage' = Absent
    /\ outcome' = IF pc = "done" THEN "installed" ELSE "failed"
    /\ status' = IF app = "setup" THEN status
                 ELSE CASE pc = "done" -> "verified_on_disk"
                        [] pc = "failed" /\ cancelled -> "cancelled"
                        [] OTHER -> "failed"
    /\ ThreadGone
    /\ pc' = "release"
    /\ UNCHANGED <<net, files, final, rollback, app, cancelled, slot,
                   arbiter, ui, runs, had, owned, faults>>

(* Mutant: the slot is emptied on success only. *)
ReleaseSlotOnSuccess ==
    /\ pc = "release"
    /\ slot' = (outcome = "failed")
    /\ pc' = "finish"
    /\ UNCHANGED <<net, files, dirs, thread, app, cancelled, arbiter, ui,
                   status, runs, ghosts, faults>>

(* The cancel slot is emptied, then the exclusive operation finishes.         *)
ReleaseSlot ==
    /\ pc = "release"
    /\ slot' = FALSE
    /\ pc' = "finish"
    /\ UNCHANGED <<net, files, dirs, thread, app, cancelled, arbiter, ui,
                   status, runs, ghosts, faults>>

FinishOperation ==
    /\ pc = "finish"
    /\ arbiter' = IF app = "desktop" THEN "none" ELSE arbiter
    /\ pc' = "idle"
    /\ UNCHANGED <<net, files, dirs, thread, app, cancelled, slot, ui, status,
                   runs, ghosts, faults>>

-----------------------------------------------------------------------------
(* What happens to them. *)

(* The process ends, at any point.  Files stay as they are; a stage carries   *)
(* the old process id and no later process looks at it.                       *)
ProcessEnds ==
    /\ app # "closed"
    /\ \/ pc = "idle" /\ ui = "idle" /\ UNCHANGED faults
       \/ ~(pc = "idle" /\ ui = "idle") /\ Fault
    /\ app' = "closed" /\ pc' = "idle" /\ ui' = "idle"
    /\ slot' = FALSE /\ cancelled' = FALSE /\ arbiter' = "none"
    /\ stage' = Absent
    /\ outcome' = "none" /\ had' = FALSE
    /\ ThreadGone
    /\ UNCHANGED <<net, files, final, rollback, status, runs, owned>>

(* The server replaces the file, or puts the pinned one back. *)
ServerChanges ==
    /\ Fault
    /\ \E v \in Versions \ {served} : served' = v
    /\ UNCHANGED <<payload, files, dirs, pc, thread, shell, ghosts>>

(* A finished download is damaged on disk, its length unchanged. *)
DownloadDamaged ==
    /\ Fault
    /\ \E r \in RequestSet :
         /\ dest[r] # NoFile
         /\ dest' = [dest EXCEPT ![r] = [i \in 1 .. Total |-> Other]]
    /\ UNCHANGED <<net, part, meta, dirs, pc, thread, shell, ghosts>>

Download ==
    \/ OpenRequest \/ Attempt \/ CancelledBetweenAttempts \/ SendFails
    \/ RangedSendFails \/ Append206 \/ RangeRefused \/ Whole200 \/ WriteUnit
    \/ Checkpoint \/ BodyBreaks \/ LengthMismatch \/ Complete \/ RenamePart
    \/ ForgetMetadata

Manager ==
    \/ BeginManager \/ PrepareStage \/ PrepareRefused \/ CopyNextFile
    \/ CancelledWhileCopying \/ PutAside \/ PutAsideFails \/ Activate
    \/ ActivateFails \/ DiscardRollback \/ Settle \/ ReleaseSlot
    \/ FinishOperation

Commands ==
    \/ \E process \in {"desktop", "setup"} : Launch(process)
    \/ ModelInstallStart \/ SetupStart \/ ModelInstallCancel
    \/ RemoveBegins \/ RemoveFile \/ RemoveEnds

Next == Download \/ Manager \/ Commands \/ ProcessEnds \/ ServerChanges
        \/ DownloadDamaged

Spec == Init /\ [][Next]_vars

(* The install thread and the remove command run on; nothing else must.       *)
FairSpec == Spec /\ WF_vars(Download \/ Manager)
                 /\ WF_vars(RemoveFile \/ RemoveEnds)

-----------------------------------------------------------------------------
(* Every variable has its type. *)
TypeOK ==
    /\ payload \in {"loose", "archive"} /\ served \in Versions
    /\ part \in [RequestSet -> Bytes \cup {NoFile}]
    /\ meta \in [RequestSet -> Metas \cup {NoMeta}]
    /\ dest \in [RequestSet -> Bytes \cup {NoFile}]
    /\ {stage, final, rollback} \subseteq Dirs \cup {Absent}
    /\ app \in {"closed", "desktop", "setup"}
    /\ pc \in {"idle", "open", "attempt", "send", "body", "checkpoint",
               "rename", "forget", "prepare", "copy", "activate", "discard",
               "done", "failed", "release", "finish"}
    /\ todo \in Seq(RequestSet) /\ prior \in Metas \cup {NoMeta}
    /\ reply \in [version : Versions, tag : Versions \cup {NoTag}]
    /\ saved \in 0 .. Total /\ attempts \in 0 .. MaximumRetries
    /\ {cancelled, slot, had, owned} \subseteq BOOLEAN
    /\ arbiter \in {"none", "install", "delete"} /\ ui \in {"idle", "removing"}
    /\ status \in {"absent", "installed_unverified", "downloading",
                   "installing", "verified_on_disk", "cancelled", "failed"}
    /\ outcome \in {"none", "installed", "failed"}
    /\ runs \in 0 .. MaxRuns /\ faults \in 0 .. MaxFaults

(* Whatever the server served, wherever a transfer was cut, and whatever      *)
(* happened to a finished download, the directory the engine loads from never *)
(* holds a byte the manifest does not pin, and neither does the rollback.     *)
InstalledIsPinned ==
    \A d \in {final, rollback} :
        d # Absent => \A f \in Files : d[f] # "wrong"

(* The bytes the resume metadata vouches for are all of the version whose     *)
(* ETag it names, so appending that version's next range makes one file of    *)
(* one version.                                                               *)
ResumeIsOfOneVersion ==
    \A r \in RequestSet :
        meta[r] # NoMeta /\ part[r] # NoFile =>
            \A i \in 1 .. meta[r].received :
                i <= Len(part[r]) => part[r][i] = meta[r].etag

(* A pack that was installed whole is still whole in its final path or in     *)
(* the rollback after any failure or crash, until the user removes it.        *)
ACopySurvives == owned => final = WholeDir \/ rollback = WholeDir

(* An install that is cancelled, or that a single fault ends, leaves the pack *)
(* that was there in its final path.                                          *)
FailedInstallKeepsTheOld ==
    outcome = "failed" /\ had /\ faults <= 1 => final = WholeDir

(* A finished install means a whole pack, in the wizard and in the desktop.   *)
InstalledMeansWhole ==
    outcome = "installed" => final = WholeDir

(* The store keeps its promise to the rest of the program: see PackStore.     *)
View(d) == IF d = Absent THEN "absent"
           ELSE IF d = WholeDir THEN "whole" ELSE "partial"

Store == INSTANCE PackStore WITH visible <- View(final), aside <- View(rollback),
                               kept <- owned

StoreSpec == Store!Spec

(* An install that was started ends, and gives back the cancel slot and the   *)
(* exclusive operation that keeps dictation out.                              *)
InstallEnds == slot ~> ~slot /\ pc = "idle"
OperationEnds == arbiter # "none" ~> arbiter = "none"

(* The store, whatever failed and wherever the process died: only pinned      *)
(* bytes under an installed name, a whole copy of an installed pack           *)
(* somewhere, the old one in place after a failed install, and a whole one    *)
(* after an install that reported success.                                    *)
StoreIsSound ==
    /\ InstalledIsPinned
    /\ ACopySurvives
    /\ FailedInstallKeepsTheOld
    /\ InstalledMeansWhole

(* Neither an install nor a removal holds its cancel slot, or the exclusive   *)
(* operation that keeps dictation out, for ever.                              *)
StoreOperationsEnd == InstallEnds /\ OperationEnds
=============================================================================
