-------------------------- MODULE ModelInstallProof --------------------------
(* Proofs about ModelInstall, for every pack, every size of a download, every *)
(* number of retries and any number of installs and faults.  What the runs    *)
(* check of the store is not inductive; StoreInv adds to it                   *)
(*   - one operation at a time: while a pack is removed no install of the     *)
(*     application runs, because both take the exclusive operation;           *)
(*   - what each place of the install thread may rely on: a stage that is     *)
(*     complete is whole, since every file was digested as it was copied, and *)
(*     the final path is empty when the stage is renamed into it.             *)
EXTENDS ModelInstall, SequenceTheorems, TLAPS

DownloadPlaces == {"open", "attempt", "send", "body", "checkpoint", "rename", "forget"}

DirsTyped ==
    /\ stage \in Dirs \cup {Absent}
    /\ final \in Dirs \cup {Absent}
    /\ rollback \in Dirs \cup {Absent}
    /\ faults \in Nat /\ owned \in BOOLEAN /\ had \in BOOLEAN

(* An install of the application, and a removal, hold the exclusive operation; *)
(* no process runs without its name.                                           *)
OneOperation ==
    /\ app = "closed" => pc = "idle" /\ ui = "idle"
    /\ app = "desktop" /\ pc # "idle" => arbiter = "install"
    /\ ui = "removing" => app = "desktop" /\ arbiter = "delete"

(* What is on the disk at each place of the thread that installs.              *)
StageIsVerified ==
    /\ pc = "copy" => stage \in [Files -> {"none", "pinned"}]
    /\ pc = "activate" => stage = WholeDir /\ final = Absent
    /\ pc \in {"discard", "done"} => final = WholeDir

(* Nothing is removed while a thread works, and what is being removed is no    *)
(* longer owned.                                                               *)
RemovalIsAlone ==
    ui = "removing" => pc = "idle" /\ ~owned /\ ~had /\ outcome = "none"

(* The whole pack an install found is in its place, or aside for the moment    *)
(* between two renames, unless two faults met.                                 *)
OldIsSafe ==
    had /\ faults <= 1 =>
        IF pc = "activate" THEN rollback = WholeDir ELSE final = WholeDir

(* An outcome belongs to a thread that has settled. *)
OutcomeIsSettled ==
    /\ outcome # "none" => pc \in {"release", "finish", "idle"}
    /\ outcome = "installed" => final = WholeDir

(* A pack that is kept is in its place or, its place being empty, aside.       *)
OwnedIsSomewhere ==
    owned => final = WholeDir \/ (final = Absent /\ rollback = WholeDir)

(* The inductive invariant *)
StoreInv ==
    /\ DirsTyped /\ OneOperation /\ StageIsVerified /\ RemovalIsAlone
    /\ OldIsSafe /\ OutcomeIsSettled /\ OwnedIsSomewhere /\ InstalledIsPinned

-----------------------------------------------------------------------------
(* Directories *)

(* No directory is the absent one, and the empty and whole ones are two. *)
LEMMA DirFacts ==
    /\ Absent \notin Dirs /\ WholeDir \in Dirs /\ EmptyDir \in Dirs
    /\ WholeDir # Absent /\ EmptyDir # Absent
    /\ \A f \in Files : WholeDir[f] = "pinned" /\ EmptyDir[f] = "none"
  BY ValuesAssumption DEF Dirs, WholeDir, EmptyDir

(* A stage of verified files that lacks none is the whole pack. *)
LEMMA CompleteIsWhole ==
  ASSUME NEW d \in [Files -> {"none", "pinned"}], Present(d) PROVE d = WholeDir
<1>1. \A f \in Files : d[f] = "pinned"
  BY DEF Present
<1> QED
  BY <1>1 DEF WholeDir

(* Deleting a file of a directory leaves a directory, less whole than before. *)
LEMMA DeletedFile ==
  ASSUME NEW d \in Dirs, NEW f \in Files, NEW e, e = [d EXCEPT ![f] = "none"]
  PROVE  /\ e \in Dirs /\ e # WholeDir
         /\ \A g \in Files : e[g] = "wrong" => d[g] = "wrong"
  BY DEF Dirs, WholeDir

(* A file that is copied into a stage is the pinned one or ends the install. *)
LEMMA CopiedFile ==
  ASSUME NEW d \in [Files -> {"none", "pinned"}], NEW f \in Files,
         NEW v \in {"pinned", "wrong"}, NEW e, e = [d EXCEPT ![f] = v]
  PROVE  e \in Dirs /\ (v = "pinned" => e \in [Files -> {"none", "pinned"}])
  BY DEF Dirs

(* What the downloads touch: none of the three directories. *)
StoreVars == <<dirs, app, arbiter, ui, ghosts>>
LEMMA DownloadFrame ==
  ASSUME Download, faults \in Nat
  PROVE  /\ UNCHANGED StoreVars
         /\ pc \in DownloadPlaces /\ pc' \in DownloadPlaces \cup {"failed"}
         /\ faults' \in {faults, faults + 1}
<1> USE DEF StoreVars, dirs, shell, ghosts, thread, files, net, DownloadPlaces,
            Fault, GiveUp, Retried, is_retryable
<1>1. CASE OpenRequest BY <1>1 DEF OpenRequest
<1>2. CASE Attempt BY <1>2 DEF Attempt
<1>3. CASE CancelledBetweenAttempts BY <1>3 DEF CancelledBetweenAttempts
<1>4. CASE SendFails BY <1>4 DEF SendFails
<1>5. CASE RangedSendFails BY <1>5 DEF RangedSendFails
<1>6. CASE Append206 BY <1>6 DEF Append206
<1>7. CASE RangeRefused BY <1>7 DEF RangeRefused
<1>8. CASE Whole200 BY <1>8 DEF Whole200
<1>9. CASE WriteUnit BY <1>9 DEF WriteUnit
<1>10. CASE Checkpoint BY <1>10 DEF Checkpoint
<1>11. CASE BodyBreaks BY <1>11 DEF BodyBreaks
<1>12. CASE LengthMismatch BY <1>12 DEF LengthMismatch
<1>13. CASE Complete BY <1>13 DEF Complete
<1>14. CASE RenamePart BY <1>14 DEF RenamePart
<1>15. CASE ForgetMetadata BY <1>15 DEF ForgetMetadata
<1> QED
  BY <1>1, <1>2, <1>3, <1>4, <1>5, <1>6, <1>7, <1>8, <1>9, <1>10, <1>11, <1>12,
     <1>13, <1>14, <1>15 DEF Download

-----------------------------------------------------------------------------
(* Each step keeps the invariant *)

LEMMA InitStore == Init => StoreInv
<1> SUFFICES ASSUME Init PROVE StoreInv
  OBVIOUS
<1> USE DirFacts DEF Init
<1>1. OwnedIsSomewhere /\ owned \in BOOLEAN
  BY Zenon DEF OwnedIsSomewhere
<1>2. OneOperation /\ StageIsVerified /\ RemovalIsAlone /\ OldIsSafe /\ OutcomeIsSettled
  BY DEF OneOperation, StageIsVerified, RemovalIsAlone, OldIsSafe, OutcomeIsSettled
<1>3. DirsTyped
  BY <1>1 DEF DirsTyped
<1>4. InstalledIsPinned
  BY DEF InstalledIsPinned
<1> QED
  BY <1>1, <1>2, <1>3, <1>4 DEF StoreInv

(* The commands and a download leave the directories alone. *)
LEMMA QuietStep ==
  ASSUME StoreInv, Download \/ Commands \/ ServerChanges \/ DownloadDamaged,
         ~RemoveFile
  PROVE  StoreInv'
<1> USE DirFacts DEF StoreInv, DirsTyped, OneOperation, StageIsVerified, RemovalIsAlone,
            OldIsSafe, OutcomeIsSettled, OwnedIsSomewhere, InstalledIsPinned,
            dirs, shell, ghosts, thread, files, net, Fault, BeginInstall, Reverified
<1>1. CASE Download
  BY <1>1, DownloadFrame DEF StoreVars, DownloadPlaces
<1>2. CASE Commands
  <2>1. CASE \E process \in {"desktop", "setup"} : Launch(process)
    BY <2>1 DEF Launch
  <2>2. CASE ModelInstallStart
    BY <2>2 DEF ModelInstallStart
  <2>3. CASE SetupStart
    BY <2>3 DEF SetupStart
  <2>4. CASE ModelInstallCancel
    BY <2>4 DEF ModelInstallCancel
  <2>5. CASE RemoveBegins
    BY <2>5 DEF RemoveBegins
  <2>6. CASE RemoveEnds
    BY <2>6 DEF RemoveEnds
  <2> QED
    BY <1>2, <2>1, <2>2, <2>3, <2>4, <2>5, <2>6 DEF Commands
<1>3. CASE ServerChanges
  BY <1>3 DEF ServerChanges
<1>4. CASE DownloadDamaged
  BY <1>4 DEF DownloadDamaged
<1> QED
  BY <1>1, <1>2, <1>3, <1>4

(* A removal takes one file after the other.                                   *)
LEMMA RemovedFile ==
  ASSUME StoreInv, RemoveFile
  PROVE  /\ final \in Dirs /\ final' \in Dirs \cup {Absent} /\ final' # WholeDir
         /\ final' # Absent => \A f \in Files : final'[f] = "wrong" => final[f] = "wrong"
<1>1. final \in Dirs
  BY DEF RemoveFile, StoreInv, DirsTyped
<1>2. CASE final = EmptyDir /\ final' = Absent
  BY <1>1, <1>2, DirFacts
<1>3. CASE \E f \in Files : final' = [final EXCEPT ![f] = "none"]
  <2>1. /\ final' \in Dirs /\ final' # WholeDir
        /\ \A g \in Files : final'[g] = "wrong" => final[g] = "wrong"
    BY <1>1, <1>3, DeletedFile
  <2> QED
    BY <1>1, <2>1
<1> QED
  BY <1>2, <1>3 DEF RemoveFile

(* The pack a removal takes apart is no longer owned.                          *)
LEMMA RemoveStep ==
  ASSUME StoreInv, RemoveFile PROVE StoreInv'
<1>1. ui = "removing" /\ UNCHANGED <<stage, rollback, pc, shell, ghosts, faults>>
  BY DEF RemoveFile, dirs
<1>2. InstalledIsPinned'
  <2>1. InstalledIsPinned
    BY DEF StoreInv
  <2>2. \A f \in Files : final' # Absent => final'[f] # "wrong"
    BY <2>1, RemovedFile, ValuesAssumption DEF InstalledIsPinned
  <2> QED
    BY <1>1, <2>1, <2>2 DEF InstalledIsPinned
<1> QED
  BY <1>1, <1>2, RemovedFile, DirFacts DEF StoreInv, DirsTyped, OneOperation,
     StageIsVerified, RemovalIsAlone, OldIsSafe, OutcomeIsSettled, OwnedIsSomewhere,
     shell, ghosts

LEMMA RemovedIsLess ==
  ASSUME StoreInv, RemoveFile PROVE View(final') \in {"partial", "absent"}
  BY RemovedFile DEF View

(* The install thread, from its empty stage to its report.                     *)
LEMMA ManagerStep ==
  ASSUME StoreInv, Manager PROVE StoreInv'
<1> USE DirFacts DEF StoreInv, DirsTyped, OneOperation, StageIsVerified, RemovalIsAlone,
            OldIsSafe, OutcomeIsSettled, OwnedIsSomewhere, InstalledIsPinned,
            dirs, shell, ghosts, thread, files, net, Fault
<1>1. CASE BeginManager
  BY <1>1 DEF BeginManager
<1>2. CASE PrepareStage
  BY <1>2 DEF PrepareStage, Dirs
<1>3. CASE PrepareRefused
  BY <1>3 DEF PrepareRefused
<1>4. CASE CopyNextFile
  <2>1. PICK i \in DOMAIN RequiredFiles :
          copy_verified_file(RequiredFiles[i])
    BY <1>4 DEF CopyNextFile
  <2>2. RequiredFiles[i] \in Files
    BY DEF Files, Range
  <2>3. /\ stage' \in Dirs
        /\ pc' = "copy" => stage' \in [Files -> {"none", "pinned"}]
        /\ pc' \in {"copy", "failed"}
    <3>1. pc = "copy" /\ stage \in [Files -> {"none", "pinned"}]
      BY <1>4 DEF CopyNextFile
    <3>2. \E v \in {"pinned", "wrong"} :
             /\ stage' = [stage EXCEPT ![RequiredFiles[i]] = v]
             /\ pc' = IF v = "pinned" THEN "copy" ELSE "failed"
      BY <2>1 DEF copy_verified_file
    <3> QED
      BY <2>2, <3>1, <3>2, CopiedFile
  <2> QED
    BY <1>4, <2>3 DEF CopyNextFile
<1>5. CASE CancelledWhileCopying
  BY <1>5 DEF CancelledWhileCopying
<1>6. CASE PutAside
  BY <1>6, CompleteIsWhole DEF PutAside
<1>7. CASE PutAsideFails
  BY <1>7 DEF PutAsideFails
<1>8. CASE Activate
  BY <1>8 DEF Activate
<1>9. CASE ActivateFails
  BY <1>9 DEF ActivateFails
<1>10. CASE DiscardRollback
  BY <1>10 DEF DiscardRollback
<1>11. CASE Settle
  BY <1>11 DEF Settle, ThreadGone
<1>12. CASE ReleaseSlot
  BY <1>12 DEF ReleaseSlot
<1>13. CASE FinishOperation
  BY <1>13 DEF FinishOperation
<1> QED
  BY <1>1, <1>2, <1>3, <1>4, <1>5, <1>6, <1>7, <1>8, <1>9, <1>10, <1>11, <1>12,
     <1>13 DEF Manager

(* StoreInv holds in every reachable state. *)
LEMMA StepStore == StoreInv /\ [Next]_vars => StoreInv'
<1> SUFFICES ASSUME StoreInv, [Next]_vars PROVE StoreInv'
  OBVIOUS
<1>1. CASE Download \/ Commands \/ ServerChanges \/ DownloadDamaged
  BY <1>1, QuietStep, RemoveStep
<1>2. CASE Manager
  BY <1>2, ManagerStep
<1>3. CASE ProcessEnds
  <2>1. /\ app' = "closed" /\ pc' = "idle" /\ ui' = "idle" /\ outcome' = "none"
        /\ stage' = Absent /\ had' = FALSE /\ UNCHANGED <<final, rollback, owned>>
    BY <1>3 DEF ProcessEnds
  <2>2. faults' \in Nat
    BY <1>3 DEF ProcessEnds, Fault, StoreInv, DirsTyped
  <2>3. InstalledIsPinned'
    BY <2>1 DEF StoreInv, InstalledIsPinned
  <2> QED
    BY <2>1, <2>2, <2>3 DEF StoreInv, DirsTyped, OneOperation, StageIsVerified,
       RemovalIsAlone, OldIsSafe, OutcomeIsSettled, OwnedIsSomewhere
<1>4. CASE UNCHANGED vars
  BY <1>4 DEF vars, StoreInv, DirsTyped, OneOperation, StageIsVerified, RemovalIsAlone,
     OldIsSafe, OutcomeIsSettled, OwnedIsSomewhere, InstalledIsPinned, dirs, ghosts, shell
<1> QED
  BY <1>1, <1>2, <1>3, <1>4 DEF Next

LEMMA StoreInvariance == Spec => []StoreInv
  BY InitStore, StepStore, PTL DEF Spec

(* Only pinned bytes under an installed name, a whole copy of a pack that is    *)
(* installed, the old one in place after a failed install and a whole one       *)
(* after an install that reported success: whatever failed and wherever the     *)
(* process died, for every pack, size, number of installs and of faults         *)
(* (manager.rs activate_stage, install_loose_files, commands/models.rs).        *)
THEOREM StoreStaysSound == Spec => []StoreIsSound
<1>1. StoreInv => StoreIsSound
  BY DirFacts DEF StoreInv, StoreIsSound, OwnedIsSomewhere, ACopySurvives,
     FailedInstallKeepsTheOld, InstalledMeansWhole, OldIsSafe, OutcomeIsSettled
<1> QED
  BY <1>1, StoreInvariance, PTL

-----------------------------------------------------------------------------
(* The install implements the store's promise *)

(* What a directory looks like from outside. *)
LEMMA ViewFacts ==
  /\ View(Absent) = "absent" /\ View(WholeDir) = "whole"
  /\ \A d \in Dirs : View(d) # "absent" /\ (d # WholeDir => View(d) = "partial")
  BY DirFacts DEF View

storeVars == <<View(final), View(rollback), owned>>

LEMMA StoreFrame == UNCHANGED <<final, rollback, owned>> => UNCHANGED storeVars
  BY DEF storeVars

(* Every step of the install is a step of the store, or none of it.             *)
LEMMA StoreRefines == StoreInv /\ [Next]_vars => [Store!Next]_storeVars
<1> SUFFICES ASSUME StoreInv, [Next]_vars PROVE [Store!Next]_storeVars
  OBVIOUS
<1> USE ViewFacts DEF dirs, ghosts, shell, StoreInv, DirsTyped
<1>1. CASE Download
  BY <1>1, DownloadFrame, StoreFrame DEF StoreVars
<1>2. CASE Commands
  <2>1. CASE \E process \in {"desktop", "setup"} : Launch(process)
    BY <2>1, StoreFrame DEF Launch
  <2>2. CASE ModelInstallStart \/ SetupStart \/ ModelInstallCancel \/ RemoveEnds
    BY <2>2, StoreFrame DEF ModelInstallStart, SetupStart, ModelInstallCancel, RemoveEnds
  <2>3. CASE RemoveBegins
    <3>1. Store!Forget
      BY <2>3 DEF RemoveBegins, Store!Forget
    <3> QED
      BY <3>1 DEF Store!Next
  <2>4. CASE RemoveFile
    <3>1. View(final') \in {"partial", "absent"}
      BY <2>4, RemovedIsLess
    <3>2. Store!Remove
      BY <2>4, <3>1 DEF RemoveFile, RemovalIsAlone, Store!Remove
    <3> QED
      BY <3>2 DEF Store!Next
  <2> QED
    BY <1>2, <2>1, <2>2, <2>3, <2>4 DEF Commands
<1>3. CASE Manager
  <2>1. CASE PutAside
    <3>1. CASE final # Absent
      <4>1. Store!PutAside
        BY <2>1, <3>1 DEF PutAside, Store!PutAside
      <4> QED
        BY <4>1 DEF Store!Next
    <3>2. CASE final = Absent
      BY <2>1, <3>2, StoreFrame DEF PutAside
    <3> QED
      BY <3>1, <3>2
  <2>2. CASE PutAsideFails
    <3>1. CASE rollback # Absent
      <4>1. owned => View(final) = "whole"
        BY <2>2 DEF PutAsideFails, OwnedIsSomewhere
      <4>2. Store!Discard
        BY <2>2, <3>1, <4>1 DEF PutAsideFails, Store!Discard
      <4> QED
        BY <4>2 DEF Store!Next
    <3>2. CASE rollback = Absent
      BY <2>2, <3>2, StoreFrame DEF PutAsideFails
    <3> QED
      BY <3>1, <3>2
  <2>3. CASE Activate
    <3>1. Store!Publish
      BY <2>3 DEF Activate, StageIsVerified, Store!Publish
    <3> QED
      BY <3>1 DEF Store!Next
  <2>4. CASE ActivateFails
    <3>1. CASE UNCHANGED <<final, rollback>>
      BY <2>4, <3>1, StoreFrame DEF ActivateFails
    <3>2. CASE rollback # Absent /\ final' = rollback /\ rollback' = Absent
      <4>1. Store!Restore
        BY <2>4, <3>2 DEF ActivateFails, StageIsVerified, Store!Restore
      <4> QED
        BY <4>1 DEF Store!Next
    <3> QED
      BY <2>4, <3>1, <3>2 DEF ActivateFails
  <2>5. CASE DiscardRollback
    <3>1. CASE rollback # Absent /\ rollback' = Absent
      <4>1. Store!Discard
        BY <2>5, <3>1 DEF DiscardRollback, StageIsVerified, Store!Discard
      <4> QED
        BY <4>1 DEF Store!Next
    <3>2. CASE UNCHANGED rollback
      BY <2>5, <3>2, StoreFrame DEF DiscardRollback
    <3> QED
      BY <2>5, <3>1, <3>2 DEF DiscardRollback
  <2>6. CASE BeginManager \/ PrepareStage \/ PrepareRefused \/ CopyNextFile
               \/ CancelledWhileCopying
    BY <2>6, StoreFrame DEF BeginManager, PrepareStage, PrepareRefused, CopyNextFile,
       CancelledWhileCopying
  <2>7. CASE Settle \/ ReleaseSlot \/ FinishOperation
    BY <2>7, StoreFrame DEF Settle, ReleaseSlot, FinishOperation
  <2> QED
    BY <1>3, <2>1, <2>2, <2>3, <2>4, <2>5, <2>6, <2>7 DEF Manager
<1>4. CASE ProcessEnds \/ ServerChanges \/ DownloadDamaged \/ UNCHANGED vars
  BY <1>4, StoreFrame DEF ProcessEnds, ServerChanges, DownloadDamaged, vars
<1> QED
  BY <1>1, <1>2, <1>3, <1>4 DEF Next

(* A process that downloads, copies, renames, fails and dies implements the     *)
(* store that PackStore specifies: a pack becomes visible whole and in one      *)
(* step, and a kept one is never given up.                                      *)
THEOREM InstallImplementsStore == Spec => StoreSpec
<1>1. Init => Store!Init
  BY DirFacts, ViewFacts DEF Init, Store!Init
<1> QED
  BY <1>1, StoreInvariance, StoreRefines, PTL DEF Spec, StoreSpec, Store!Spec, storeVars,
     Store!vars

(* No replacement, failed replacement or clean-up of the store loses a pack     *)
(* that is kept (InstallManager::activate_stage): the abstract store alone says *)
(* so, because a directory is put aside from the visible place only, and given  *)
(* up only for a whole one.                                                     *)
THEOREM NothingIsLost == StoreSpec => []Store!KeptIsSomewhere
<1>1. Store!Init => Store!KeptIsSomewhere
  BY DEF Store!Init, Store!KeptIsSomewhere
<1>2. Store!KeptIsSomewhere /\ [Store!Next]_storeVars => Store!KeptIsSomewhere'
  <2> SUFFICES ASSUME Store!KeptIsSomewhere, [Store!Next]_storeVars
               PROVE  Store!KeptIsSomewhere'
    OBVIOUS
  <2> USE DEF Store!KeptIsSomewhere
  <2>1. CASE Store!PutAside
    BY <2>1 DEF Store!PutAside
  <2>2. CASE Store!Publish
    BY <2>2 DEF Store!Publish
  <2>3. CASE Store!Restore
    BY <2>3 DEF Store!Restore
  <2>4. CASE Store!Discard
    BY <2>4 DEF Store!Discard
  <2>5. CASE Store!Forget
    BY <2>5 DEF Store!Forget
  <2>6. CASE Store!Remove
    BY <2>6 DEF Store!Remove
  <2>7. CASE UNCHANGED storeVars
    BY <2>7 DEF storeVars
  <2> QED
    BY <2>1, <2>2, <2>3, <2>4, <2>5, <2>6, <2>7 DEF Store!Next
<1> QED
  BY <1>1, <1>2, PTL DEF StoreSpec, Store!Spec, storeVars, Store!vars

(* The application's own store keeps that promise, whatever it downloads,       *)
(* copies, renames, fails or leaves behind when it is killed: it implements     *)
(* the abstract store.                                                          *)
THEOREM KeptPackSurvives == Spec => []Store!KeptIsSomewhere
  BY InstallImplementsStore, NothingIsLost, PTL

-----------------------------------------------------------------------------
(* A resumed download is of one version *)

FetchPlaces == {"attempt", "send", "body", "checkpoint", "rename", "forget"}
Records == [received : Nat, etag : Versions]

FilesTyped ==
    /\ todo \in Seq(RequestSet)
    /\ pc \in FetchPlaces => todo # <<>>
    /\ part \in [RequestSet -> Seq(Versions) \cup {NoFile}]
    /\ meta \in [RequestSet -> Records \cup {NoMeta}]
    /\ served \in Versions
    /\ reply \in [version : Versions, tag : Versions \cup {NoTag}]

(* Every byte of a sequence is of one version. *)
AllOf(bytes, v) == bytes \in Seq(Versions) /\ \A i \in 1 .. Len(bytes) : bytes[i] = v

(* A ranged request goes out for the part its metadata describes, and a whole *)
(* one only when no metadata is left.                                          *)
RequestMatches ==
    pc = "send" =>
        IF prior = NoMeta THEN meta[Current] = NoMeta
        ELSE prior = meta[Current] /\ AllOf(part[Current], prior.etag)

(* While a body is written the part is all of the version that is served, and  *)
(* so are the metadata it resumed from and those it may leave.                 *)
BodyMatches ==
    pc \in {"body", "checkpoint"} =>
        /\ AllOf(part[Current], reply.version)
        /\ meta[Current] # NoMeta => meta[Current].etag = reply.version
        /\ reply.tag \in {NoTag, reply.version}

ResumeInv == FilesTyped /\ RequestMatches /\ BodyMatches /\ ResumeIsOfOneVersion

(* Appending a byte of the same version, and cutting a file back. *)
LEMMA AppendOne ==
  ASSUME NEW v \in Versions, NEW bytes, AllOf(bytes, v)
  PROVE  AllOf(Append(bytes, v), v)
  BY AppendProperties DEF AllOf

LEMMA CutBack ==
  ASSUME NEW bytes \in Seq(Versions), NEW n \in Nat, n <= Len(bytes)
  PROVE  LET cut == SubSeq(bytes, 1, n)
         IN  /\ cut \in Seq(Versions) /\ Len(cut) = n
             /\ \A i \in 1 .. n : cut[i] = bytes[i]
<1>1. \A i \in 1 .. n : bytes[i] \in Versions
  BY LenProperties
<1> QED
  BY <1>1, SubSeqProperties

(* The request an attempt is about. *)
LEMMA CurrentFacts ==
  ASSUME FilesTyped, pc \in FetchPlaces
  PROVE  /\ Current \in RequestSet /\ Tail(todo) \in Seq(RequestSet)
         /\ part[Current] \in Seq(Versions) \cup {NoFile}
         /\ meta[Current] \in Records \cup {NoMeta}
  BY HeadTailProperties DEF FilesTyped, Current

LEMMA RequestsTyped == Requests \in Seq(RequestSet)
<1>1. RequiredFiles \in Seq(RequestSet)
  BY SizesAssumption, SeqMonotonic DEF RequestSet, Files
<1>2. <<ArchiveFile>> \in Seq(RequestSet)
  BY DEF RequestSet
<1> QED
  BY <1>1, <1>2 DEF Requests

(* A step that touches neither the files nor the reply, and begins no transfer. *)
LEMMA SameFiles ==
  ASSUME ResumeInv, UNCHANGED <<part, meta, reply>>, served' \in Versions,
         \/ UNCHANGED <<todo, pc, prior>>
         \/ UNCHANGED todo /\ pc \in FetchPlaces /\ pc' \in {"attempt", "rename", "failed"}
         \/ todo' \in Seq(RequestSet) /\ pc' \notin FetchPlaces
  PROVE  ResumeInv'
<1> USE DEF ResumeInv, FetchPlaces
<1>1. FilesTyped'
  BY DEF FilesTyped
<1>2. ResumeIsOfOneVersion'
  BY DEF ResumeIsOfOneVersion
<1>3. RequestMatches' /\ BodyMatches'
  BY DEF RequestMatches, BodyMatches, Current
<1> QED
  BY <1>1, <1>2, <1>3

(* The thread ends, and its variables with it. *)
LEMMA ThreadIsGone ==
  ASSUME ResumeInv, UNCHANGED <<part, meta, served>>, pc' \notin FetchPlaces,
         \/ UNCHANGED <<todo, reply>>
         \/ todo' = <<>> /\ reply' = [version |-> Pinned, tag |-> NoTag]
  PROVE  ResumeInv'
<1>1. todo' \in Seq(RequestSet)
  BY EmptySeq DEF ResumeInv, FilesTyped
<1>2. reply' \in [version : Versions, tag : Versions \cup {NoTag}]
  BY DEF ResumeInv, FilesTyped, Versions
<1>3. FilesTyped'
  BY <1>1, <1>2 DEF ResumeInv, FilesTyped
<1>4. RequestMatches' /\ BodyMatches' /\ ResumeIsOfOneVersion'
  BY DEF ResumeInv, FetchPlaces, RequestMatches, BodyMatches, ResumeIsOfOneVersion
<1> QED
  BY <1>3, <1>4 DEF ResumeInv

(* One transfer: what it writes into the part and its metadata.                *)
(* The files of one request change, and are then of one version. *)
LEMMA OneVersionFor ==
  ASSUME ResumeIsOfOneVersion, NEW c \in RequestSet, NEW v, AllOf(part'[c], v),
         meta'[c] # NoMeta => meta'[c].etag = v,
         \A r \in RequestSet : r # c => part'[r] = part[r] /\ meta'[r] = meta[r]
  PROVE  ResumeIsOfOneVersion'
<1> SUFFICES ASSUME NEW r \in RequestSet, meta'[r] # NoMeta, part'[r] # NoFile,
                    NEW i \in 1 .. meta'[r].received, i <= Len(part'[r])
             PROVE  part'[r][i] = meta'[r].etag
  BY DEF ResumeIsOfOneVersion
<1>1. CASE r = c
  <2>1. Len(part'[c]) \in Nat /\ i \in Int /\ 1 <= i
    BY LenProperties DEF AllOf
  <2> QED
    BY <1>1, <2>1 DEF AllOf
<1>2. CASE r # c
  BY <1>2 DEF ResumeIsOfOneVersion
<1> QED
  BY <1>1, <1>2

(* The metadata of one request is thrown away, and maybe its part. *)
LEMMA ForgottenPart ==
  ASSUME FilesTyped, ResumeIsOfOneVersion, UNCHANGED <<served, todo, reply>>, NEW c \in RequestSet,
         pc' \in FetchPlaces => todo # <<>>,
         part' \in {part, [part EXCEPT ![c] = NoFile]}, meta' = [meta EXCEPT ![c] = NoMeta]
  PROVE  FilesTyped' /\ ResumeIsOfOneVersion'
<1>1. FilesTyped'
  BY DEF FilesTyped
<1>2. \A r \in RequestSet : meta'[r] # NoMeta => meta'[r] = meta[r] /\ part'[r] = part[r]
  BY DEF FilesTyped
<1>3. ResumeIsOfOneVersion'
  BY <1>2 DEF ResumeIsOfOneVersion
<1> QED
  BY <1>1, <1>3

LEMMA TransferStep ==
  ASSUME ResumeInv,
         \/ Attempt \/ Append206 \/ RangeRefused \/ Whole200 \/ WriteUnit
         \/ Checkpoint \/ BodyBreaks \/ RenamePart \/ ForgetMetadata
  PROVE  ResumeInv'
<1> DEFINE c == Current
<1>0. /\ pc \in FetchPlaces /\ FilesTyped
      /\ c \in RequestSet /\ Tail(todo) \in Seq(RequestSet)
      /\ part[c] \in Seq(Versions) \cup {NoFile} /\ meta[c] \in Records \cup {NoMeta}
  <2>1. pc \in FetchPlaces
    BY DEF Attempt, Append206, RangeRefused, Whole200, WriteUnit, Checkpoint, BodyBreaks,
       RenamePart, ForgetMetadata, FetchPlaces
  <2> QED
    BY <2>1, CurrentFacts DEF ResumeInv
<1>1. CASE Attempt
  <2>1. /\ UNCHANGED <<served, todo, reply>> /\ c' = c /\ pc' = "send" /\ load_resume
    BY <1>1 DEF Attempt, Current, net
  <2>2. CASE Usable(c)
    <3> DEFINE n == meta[c].received
    <3>1. /\ prior' = meta[c] /\ meta[c] # NoMeta /\ part[c] # NoFile
          /\ part' = [part EXCEPT ![c] = SubSeq(@, 1, n)] /\ UNCHANGED meta
          /\ n <= Len(part[c])
      BY <2>1, <2>2 DEF load_resume, Usable
    <3>2. part[c] \in Seq(Versions) /\ meta[c] \in Records /\ n \in Nat
      BY <1>0, <3>1 DEF Records
    <3>3. \A i \in 1 .. n : part[c][i] = meta[c].etag
      BY <1>0, <3>1, <3>2, LenProperties DEF ResumeInv, ResumeIsOfOneVersion
    <3>4. /\ part'[c] \in Seq(Versions) /\ Len(part'[c]) = n
          /\ \A i \in 1 .. n : part'[c][i] = part[c][i]
          /\ \A r \in RequestSet : r # c => part'[r] = part[r]
          /\ part' \in [RequestSet -> Seq(Versions) \cup {NoFile}]
      <4>1. /\ SubSeq(part[c], 1, n) \in Seq(Versions) /\ Len(SubSeq(part[c], 1, n)) = n
            /\ \A i \in 1 .. n : SubSeq(part[c], 1, n)[i] = part[c][i]
        BY <3>1, <3>2, CutBack
      <4> HIDE DEF n, c
      <4> QED
        BY <1>0, <3>1, <4>1 DEF FilesTyped
    <3>5. AllOf(part'[c], meta[c].etag)
      BY <3>3, <3>4 DEF AllOf
    <3>6. ResumeIsOfOneVersion'
      <4> SUFFICES ASSUME NEW r \in RequestSet, meta'[r] # NoMeta, part'[r] # NoFile,
                          NEW i \in 1 .. meta'[r].received, i <= Len(part'[r])
                   PROVE  part'[r][i] = meta'[r].etag
        BY DEF ResumeIsOfOneVersion
      <4>1. CASE r = c
        BY <3>1, <3>3, <3>4, <4>1
      <4>2. CASE r # c
        BY <3>1, <3>4, <4>2 DEF ResumeInv, ResumeIsOfOneVersion
      <4> QED
        BY <4>1, <4>2
    <3>7. FilesTyped'
      BY <1>0, <2>1, <3>1, <3>4 DEF FilesTyped
    <3>8. RequestMatches' /\ BodyMatches'
      BY <2>1, <3>1, <3>5 DEF RequestMatches, BodyMatches
    <3> QED
      BY <3>6, <3>7, <3>8 DEF ResumeInv
  <2>3. CASE ~Usable(c)
    <3>1. /\ prior' = NoMeta /\ part' = [part EXCEPT ![c] = NoFile]
          /\ meta' = [meta EXCEPT ![c] = NoMeta]
      BY <2>1, <2>3 DEF load_resume
    <3>2. FilesTyped' /\ ResumeIsOfOneVersion'
      <4>1. todo # <<>> /\ FilesTyped /\ ResumeIsOfOneVersion
        BY <1>0 DEF ResumeInv, FilesTyped
      <4> HIDE DEF c
      <4> QED
        BY <1>0, <2>1, <3>1, <4>1, ForgottenPart
    <3>3. RequestMatches' /\ BodyMatches'
      BY <1>0, <2>1, <3>1 DEF RequestMatches, BodyMatches, FilesTyped
    <3> QED
      BY <3>2, <3>3 DEF ResumeInv
  <2> QED
    BY <2>2, <2>3
<1>2. CASE Append206
  <2>1. /\ UNCHANGED <<served, todo, part, meta>> /\ c' = c /\ pc' = "body"
        /\ reply' = [version |-> served, tag |-> served]
        /\ meta[c].etag = served /\ AllOf(part[c], served)
    BY <1>2 DEF Append206, Current, net, files, ResumeInv, RequestMatches
  <2>2. FilesTyped'
    BY <1>0, <2>1 DEF FilesTyped
  <2>3. RequestMatches' /\ BodyMatches' /\ ResumeIsOfOneVersion'
    BY <2>1 DEF RequestMatches, BodyMatches, ResumeInv, ResumeIsOfOneVersion
  <2> QED
    BY <2>2, <2>3 DEF ResumeInv
<1>3. CASE RangeRefused
  <2>1. /\ UNCHANGED <<served, todo, reply>> /\ c' = c /\ pc' = "send" /\ prior' = NoMeta
        /\ part' = [part EXCEPT ![c] = NoFile] /\ meta' = [meta EXCEPT ![c] = NoMeta]
    BY <1>3 DEF RangeRefused, Current, net
  <2>2. FilesTyped' /\ ResumeIsOfOneVersion'
    <3>1. todo # <<>> /\ FilesTyped /\ ResumeIsOfOneVersion
      BY <1>0 DEF ResumeInv, FilesTyped
    <3> HIDE DEF c
    <3> QED
      BY <1>0, <2>1, <3>1, ForgottenPart
  <2>3. RequestMatches' /\ BodyMatches'
    BY <1>0, <2>1 DEF RequestMatches, BodyMatches, FilesTyped
  <2> QED
    BY <2>2, <2>3 DEF ResumeInv
<1>4. CASE Whole200
  <2>1. /\ UNCHANGED <<served, todo, meta>> /\ c' = c /\ pc' = "body"
        /\ part' = [part EXCEPT ![c] = <<>>] /\ meta[c] = NoMeta
        /\ \E tag \in {served, NoTag} : reply' = [version |-> served, tag |-> tag]
    BY <1>4 DEF Whole200, Current, net, ResumeInv, RequestMatches
  <2>2. AllOf(<<>>, served)
    BY EmptySeq DEF AllOf
  <2>3. part'[c] = <<>> /\ \A r \in RequestSet : meta[r] # NoMeta => part'[r] = part[r]
    BY <1>0, <2>1 DEF FilesTyped
  <2>4. FilesTyped'
    BY <1>0, <2>1, <2>2 DEF FilesTyped, AllOf
  <2>5. RequestMatches' /\ BodyMatches'
    BY <2>1, <2>2, <2>3 DEF RequestMatches, BodyMatches
  <2>6. ResumeIsOfOneVersion'
    BY <2>1, <2>3 DEF ResumeInv, ResumeIsOfOneVersion
  <2> QED
    BY <2>4, <2>5, <2>6 DEF ResumeInv
<1>5. CASE WriteUnit
  <2>1. /\ UNCHANGED <<served, todo, meta, reply, prior>> /\ c' = c
        /\ pc' \in {"body", "checkpoint"}
        /\ part' = [part EXCEPT ![c] = Append(part[c], reply.version)]
        /\ AllOf(part[c], reply.version) /\ reply.tag \in {NoTag, reply.version}
        /\ meta[c] # NoMeta => meta[c].etag = reply.version
    BY <1>5 DEF WriteUnit, Current, net, thread, ResumeInv, BodyMatches
  <2>2. AllOf(Append(part[c], reply.version), reply.version)
    BY <1>0, <2>1, AppendOne DEF FilesTyped
  <2>3. /\ part'[c] = Append(part[c], reply.version)
        /\ \A r \in RequestSet : r # c => part'[r] = part[r]
    BY <1>0, <2>1 DEF FilesTyped
  <2>4. FilesTyped'
    BY <1>0, <2>1, <2>2 DEF FilesTyped, AllOf, FetchPlaces
  <2>5. RequestMatches' /\ BodyMatches'
    BY <2>1, <2>2, <2>3 DEF RequestMatches, BodyMatches
  <2>6. ResumeIsOfOneVersion'
    <3> HIDE DEF c
    <3> QED
      BY <1>0, <2>1, <2>2, <2>3, OneVersionFor DEF ResumeInv
  <2> QED
    BY <2>4, <2>5, <2>6 DEF ResumeInv
<1>6. CASE Checkpoint \/ BodyBreaks
  <2>1. /\ UNCHANGED <<served, todo, part, reply, prior>> /\ c' = c
        /\ pc' \in {"body", "attempt", "failed"}
        /\ AllOf(part[c], reply.version) /\ reply.tag \in {NoTag, reply.version}
        /\ meta[c] # NoMeta => meta[c].etag = reply.version
    BY <1>6 DEF Checkpoint, BodyBreaks, GiveUp, is_retryable, Retried, Current, net,
       ResumeInv, BodyMatches
  <2>2. \/ UNCHANGED meta
        \/ /\ reply.tag # NoTag
           /\ meta' = [meta EXCEPT ![c] = [received |-> Len(part[c]), etag |-> reply.tag]]
    BY <1>6 DEF Checkpoint, BodyBreaks, persist_resume, received
  <2>3. Len(part[c]) \in Nat
    BY <2>1, LenProperties DEF AllOf
  <2>4. FilesTyped'
    BY <1>0, <2>1, <2>2, <2>3 DEF FilesTyped, Records, FetchPlaces
  <2>5. /\ meta'[c] # NoMeta => meta'[c].etag = reply.version
        /\ \A r \in RequestSet : r # c => meta'[r] = meta[r]
    BY <1>0, <2>1, <2>2 DEF FilesTyped
  <2>6. RequestMatches' /\ BodyMatches'
    BY <2>1, <2>5 DEF RequestMatches, BodyMatches
  <2>7. ResumeIsOfOneVersion'
    <3> HIDE DEF c
    <3> QED
      BY <1>0, <2>1, <2>5, OneVersionFor DEF ResumeInv
  <2> QED
    BY <2>4, <2>6, <2>7 DEF ResumeInv
<1>7. CASE RenamePart
  <2>1. /\ UNCHANGED <<served, todo, meta, reply>> /\ pc' = "forget"
        /\ part' = [part EXCEPT ![c] = NoFile]
    BY <1>7 DEF RenamePart, net, thread
  <2>2. FilesTyped'
    BY <1>0, <2>1 DEF FilesTyped
  <2>3. \A r \in RequestSet : part'[r] # NoFile => part'[r] = part[r]
    BY <1>0, <2>1 DEF FilesTyped
  <2>4. RequestMatches' /\ BodyMatches' /\ ResumeIsOfOneVersion'
    BY <2>1, <2>3 DEF RequestMatches, BodyMatches, ResumeInv, ResumeIsOfOneVersion
  <2> QED
    BY <2>2, <2>4 DEF ResumeInv
<1>8. CASE ForgetMetadata
  <2>1. /\ UNCHANGED <<served, part, reply>> /\ pc' = "open" /\ todo' = Tail(todo)
        /\ meta' = [meta EXCEPT ![c] = NoMeta]
    BY <1>8 DEF ForgetMetadata, net
  <2>2. FilesTyped'
    BY <1>0, <2>1 DEF FilesTyped, FetchPlaces
  <2>3. \A r \in RequestSet : meta'[r] # NoMeta => meta'[r] = meta[r]
    BY <1>0, <2>1 DEF FilesTyped
  <2>4. RequestMatches' /\ BodyMatches' /\ ResumeIsOfOneVersion'
    BY <2>1, <2>3 DEF RequestMatches, BodyMatches, ResumeInv, ResumeIsOfOneVersion
  <2> QED
    BY <2>2, <2>4 DEF ResumeInv
<1> QED
  BY <1>1, <1>2, <1>3, <1>4, <1>5, <1>6, <1>7, <1>8

LEMMA InitResume == Init => ResumeInv
<1> SUFFICES ASSUME Init PROVE ResumeInv
  OBVIOUS
<1>1. FilesTyped
  BY EmptySeq DEF Init, FilesTyped, FetchPlaces, Versions
<1>2. RequestMatches /\ BodyMatches /\ ResumeIsOfOneVersion
  BY DEF Init, RequestMatches, BodyMatches, ResumeIsOfOneVersion
<1> QED
  BY <1>1, <1>2 DEF ResumeInv

LEMMA StepResume == ResumeInv /\ [Next]_vars => ResumeInv'
<1> SUFFICES ASSUME ResumeInv, [Next]_vars PROVE ResumeInv'
  OBVIOUS
<1>0. /\ served \in Versions /\ todo \in Seq(RequestSet) /\ <<>> \in Seq(RequestSet)
      /\ reply \in [version : Versions, tag : Versions \cup {NoTag}]
  BY EmptySeq DEF ResumeInv, FilesTyped
<1> USE DEF net, files, thread, shell
<1>1. CASE Download
  <2>1. CASE OpenRequest
    <3>1. /\ todo # <<>> /\ UNCHANGED <<part, meta, reply, served>>
          /\ \/ pc' = "open" /\ todo' = Tail(todo)
             \/ pc' = "attempt" /\ todo' = todo
      BY <2>1 DEF OpenRequest
    <3>2. Tail(todo) \in Seq(RequestSet)
      BY <1>0, <3>1, HeadTailProperties
    <3>3. FilesTyped' /\ RequestMatches' /\ BodyMatches' /\ ResumeIsOfOneVersion'
      BY <1>0, <3>1, <3>2 DEF ResumeInv, FilesTyped, FetchPlaces, RequestMatches,
         BodyMatches, ResumeIsOfOneVersion
    <3> QED
      BY <3>3 DEF ResumeInv
  <2>2. CASE CancelledBetweenAttempts \/ SendFails \/ RangedSendFails
                \/ LengthMismatch \/ Complete
    <3>1. /\ UNCHANGED <<part, meta, reply, served, todo>>
          /\ pc \in FetchPlaces /\ pc' \in {"attempt", "rename", "failed"}
      BY <2>2 DEF CancelledBetweenAttempts, SendFails, RangedSendFails, LengthMismatch,
         Complete, is_retryable, Retried, GiveUp, FetchPlaces
    <3> QED
      BY <1>0, <3>1, SameFiles
  <2> QED
    BY <1>1, <2>1, <2>2, TransferStep DEF Download
<1>2. CASE Manager
  <2>1. /\ UNCHANGED <<part, meta, served>> /\ pc' \notin FetchPlaces
        /\ \/ UNCHANGED <<todo, reply>>
           \/ todo' = <<>> /\ reply' = [version |-> Pinned, tag |-> NoTag]
    BY <1>2 DEF Manager, BeginManager, PrepareStage, PrepareRefused, CopyNextFile,
       copy_verified_file, CancelledWhileCopying, PutAside, PutAsideFails, Activate,
       ActivateFails, DiscardRollback, Settle, ThreadGone, ReleaseSlot, FinishOperation,
       FetchPlaces
  <2> QED
    BY <1>0, <2>1, ThreadIsGone
<1>3. CASE Commands
  <2>1. CASE ModelInstallStart \/ SetupStart
    <3>1. /\ UNCHANGED <<part, meta, served, reply>>
          /\ \/ UNCHANGED <<todo, pc, prior>>
             \/ todo' = Requests /\ pc' = "open"
      BY <2>1 DEF ModelInstallStart, SetupStart, BeginInstall
    <3> QED
      BY <1>0, <3>1, RequestsTyped, SameFiles DEF FetchPlaces
  <2>2. CASE ~(ModelInstallStart \/ SetupStart)
    <3>1. UNCHANGED <<part, meta, served, reply, todo, pc, prior>>
      BY <1>3, <2>2 DEF Commands, Launch, ModelInstallCancel, RemoveBegins, RemoveFile,
         RemoveEnds
    <3> QED
      BY <1>0, <3>1, SameFiles
  <2> QED
    BY <2>1, <2>2
<1>4. CASE ProcessEnds
  <2>1. /\ UNCHANGED <<part, meta, served>> /\ pc' \notin FetchPlaces
        /\ todo' = <<>> /\ reply' = [version |-> Pinned, tag |-> NoTag]
    BY <1>4 DEF ProcessEnds, ThreadGone, FetchPlaces
  <2> QED
    BY <1>0, <2>1, ThreadIsGone
<1>5. CASE ServerChanges \/ DownloadDamaged \/ UNCHANGED vars
  <2>1. UNCHANGED <<part, meta, reply, todo, pc, prior>> /\ served' \in Versions
    BY <1>0, <1>5 DEF ServerChanges, DownloadDamaged, vars
  <2> QED
    BY <2>1, SameFiles
<1> QED
  BY <1>1, <1>2, <1>3, <1>4, <1>5 DEF Next

(* Whatever the server replaces and wherever a transfer is cut, the metadata    *)
(* never vouches for bytes of another version than the one it names, so the     *)
(* range it asks for makes one file of one version (resume.rs, download.rs      *)
(* load_resume, persist_resume, validate_resume_response): for every length,    *)
(* every distance of checkpoints and every number of faults.                    *)
THEOREM ResumeIsSafe == Spec => []ResumeIsOfOneVersion
<1>1. ResumeInv => ResumeIsOfOneVersion
  BY DEF ResumeInv
<1> QED
  BY <1>1, InitResume, StepResume, PTL DEF Spec

-----------------------------------------------------------------------------
(* Every variable has its type *)

(* A file on its way holds at most what the manifest says, metadata vouch for  *)
(* one unit at least, and where a body is written there is a part.             *)
SizesTyped ==
    /\ part \in [RequestSet -> Bytes \cup {NoFile}]
    /\ meta \in [RequestSet -> Metas \cup {NoMeta}]
    /\ dest \in [RequestSet -> Bytes \cup {NoFile}]
    /\ prior \in Metas \cup {NoMeta} /\ saved \in 0 .. Total
    /\ pc \in {"body", "checkpoint", "rename"} \/ (pc = "send" /\ prior # NoMeta) =>
         part[Current] \in Bytes
    /\ pc = "checkpoint" => Len(part[Current]) > 0

Places == {"idle", "open", "attempt", "send", "body", "checkpoint", "rename", "forget",
           "prepare", "copy", "activate", "discard", "done", "failed", "release", "finish"}

ShellTyped ==
    /\ payload \in {"loose", "archive"} /\ app \in {"closed", "desktop", "setup"}
    /\ pc \in Places /\ attempts \in 0 .. MaximumRetries
    /\ cancelled \in BOOLEAN /\ slot \in BOOLEAN
    /\ arbiter \in {"none", "install", "delete"} /\ ui \in {"idle", "removing"}
    /\ status \in {"absent", "installed_unverified", "downloading",
                   "installing", "verified_on_disk", "cancelled", "failed"}
    /\ outcome \in {"none", "installed", "failed"}
    /\ runs \in 0 .. MaxRuns /\ faults \in 0 .. MaxFaults

(* The bytes of a download are short lists of versions. *)
LEMMA BytesAreShort ==
  ASSUME NEW b
  PROVE  b \in Bytes <=> b \in Seq(Versions) /\ Len(b) <= Total
<1>1. Total \in Nat
  BY SizesAssumption
<1>2. ASSUME b \in Bytes PROVE b \in Seq(Versions) /\ Len(b) <= Total
  <2>1. PICK n \in 0 .. Total : b \in [1 .. n -> Versions]
    BY <1>2 DEF Bytes
  <2>2. n \in Nat /\ b \in Seq(Versions)
    BY <1>1, <2>1
  <2>3. Len(b) = n
    BY <2>1, <2>2, LenProperties
  <2> QED
    BY <1>1, <2>1, <2>2, <2>3
<1>3. ASSUME b \in Seq(Versions), Len(b) <= Total PROVE b \in Bytes
  <2>1. Len(b) \in 0 .. Total /\ b \in [1 .. Len(b) -> Versions]
    BY <1>1, <1>3, LenProperties
  <2> QED
    BY <2>1 DEF Bytes
<1> QED
  BY <1>2, <1>3

(* Neither the files nor where the thread is in one change.                    *)
LEMMA SizesKept ==
  ASSUME SizesTyped, UNCHANGED <<part, meta>>,
         dest' \in [RequestSet -> Bytes \cup {NoFile}],
         prior' \in {prior, NoMeta}, saved' \in {saved, 0},
         \/ UNCHANGED <<pc, prior, todo>>
         \/ pc' \notin {"send", "body", "checkpoint", "rename"}
  PROVE  SizesTyped'
<1>1. saved' \in 0 .. Total
  BY SizesAssumption DEF SizesTyped
<1> QED
  BY <1>1 DEF SizesTyped, Current

LEMMA SizesStart ==
  ASSUME Init
  PROVE  SizesTyped /\ ShellTyped
<1>1. SizesTyped
  BY SizesAssumption DEF Init, SizesTyped
<1>2. ShellTyped
  <2>1. 0 \in 0 .. MaximumRetries /\ 0 \in 0 .. MaxRuns /\ 0 \in 0 .. MaxFaults
    BY SizesAssumption
  <2> QED
    BY <2>1 DEF Init, ShellTyped, Places
<1> QED
  BY <1>1, <1>2

(* The metadata a part is recorded by. *)
LEMMA PersistedIsTyped ==
  ASSUME SizesTyped, FilesTyped, Current \in RequestSet, part[Current] \in Bytes,
         Len(part[Current]) > 0, persist_resume
  PROVE  meta' \in [RequestSet -> Metas \cup {NoMeta}]
<1>1. Len(part[Current]) \in 1 .. Total
  <2>1. part[Current] \in Seq(Versions) /\ Len(part[Current]) <= Total
    BY BytesAreShort
  <2>2. Len(part[Current]) \in Nat
    BY <2>1, LenProperties
  <2> QED
    BY <2>1, <2>2, SizesAssumption
<1>2. CASE reply.tag = NoTag
  BY <1>2 DEF persist_resume, SizesTyped
<1>3. CASE reply.tag # NoTag
  <2>1. reply.tag \in Versions
    BY <1>3 DEF FilesTyped
  <2>2. [received |-> received, etag |-> reply.tag] \in Metas
    BY <1>1, <2>1 DEF Metas, received
  <2> QED
    BY <1>3, <2>2 DEF persist_resume, SizesTyped
<1> QED
  BY <1>2, <1>3

(* One transfer keeps the sizes. *)
LEMMA TransferSizes ==
  ASSUME SizesTyped, FilesTyped,
         \/ Attempt \/ Append206 \/ RangeRefused \/ Whole200 \/ WriteUnit
         \/ Checkpoint \/ BodyBreaks \/ Complete \/ RenamePart \/ ForgetMetadata
  PROVE  SizesTyped'
<1> DEFINE c == Current
<1>0. c \in RequestSet
  <2>1. pc \in FetchPlaces
    BY DEF Attempt, Append206, RangeRefused, Whole200, WriteUnit, Checkpoint, BodyBreaks,
       Complete, RenamePart, ForgetMetadata, FetchPlaces
  <2> QED
    BY <2>1, CurrentFacts
<1>t. Total \in Nat \ {0, 1}
  BY SizesAssumption
<1>1. CASE Attempt
  <2>1. /\ UNCHANGED <<dest, saved, todo>> /\ pc' = "send" /\ load_resume
    BY <1>1 DEF Attempt
  <2>2. CASE Usable(c)
    <3>1. /\ prior' = meta[c] /\ meta' = meta
          /\ part' = [part EXCEPT ![c] = SubSeq(part[c], 1, meta[c].received)]
      BY <2>1, <2>2 DEF load_resume
    <3>2. part[c] \in Bytes /\ meta[c] \in Metas
      BY <1>0, <2>2 DEF Usable, SizesTyped
    <3>3. /\ part[c] \in Seq(Versions) /\ Len(part[c]) <= Total
          /\ meta[c].received \in Nat /\ meta[c].received <= Len(part[c])
          /\ meta[c].received <= Total
      BY <2>2, <3>2, <1>t, BytesAreShort DEF Usable, Metas
    <3>4. SubSeq(part[c], 1, meta[c].received) \in Bytes
      <4>1. /\ SubSeq(part[c], 1, meta[c].received) \in Seq(Versions)
            /\ Len(SubSeq(part[c], 1, meta[c].received)) = meta[c].received
        BY <3>3, CutBack
      <4> QED
        BY <3>3, <4>1, BytesAreShort
    <3>5. part' \in [RequestSet -> Bytes \cup {NoFile}] /\ part'[c] \in Bytes
      BY <1>0, <3>1, <3>4 DEF SizesTyped
    <3> QED
      BY <2>1, <3>1, <3>2, <3>5 DEF SizesTyped, Current
  <2>3. CASE ~Usable(c)
    <3>1. /\ prior' = NoMeta /\ meta' = [meta EXCEPT ![c] = NoMeta]
          /\ part' = [part EXCEPT ![c] = NoFile]
      BY <2>1, <2>3 DEF load_resume
    <3> QED
      BY <2>1, <3>1 DEF SizesTyped
  <2> QED
    BY <2>2, <2>3
<1>2. CASE Append206
  <2>1. /\ UNCHANGED <<part, meta, dest, todo, prior>> /\ pc' = "body"
        /\ saved' = Len(part[c]) /\ part[c] \in Bytes
    BY <1>2 DEF Append206, files, SizesTyped, received
  <2>2. saved' \in 0 .. Total
    BY <2>1, <1>t, BytesAreShort, LenProperties
  <2> QED
    BY <2>1, <2>2 DEF SizesTyped, Current
<1>3. CASE RangeRefused
  <2>1. /\ UNCHANGED <<dest, saved>> /\ pc' = "send" /\ prior' = NoMeta
        /\ part' = [part EXCEPT ![c] = NoFile] /\ meta' = [meta EXCEPT ![c] = NoMeta]
    BY <1>3 DEF RangeRefused
  <2> QED
    BY <2>1 DEF SizesTyped
<1>4. CASE Whole200
  <2>1. /\ UNCHANGED <<meta, dest, todo, prior>> /\ pc' = "body" /\ saved' = 0
        /\ part' = [part EXCEPT ![c] = <<>>]
    BY <1>4 DEF Whole200
  <2>2. <<>> \in Bytes
    <3>1. <<>> \in Seq(Versions) /\ Len(<<>>) = 0 /\ 0 <= Total
      BY <1>t, EmptySeq
    <3>2. Len(<<>>) <= Total
      BY <3>1
    <3> QED
      BY <3>1, <3>2, BytesAreShort
  <2>3. part' \in [RequestSet -> Bytes \cup {NoFile}] /\ part'[c] \in Bytes
    BY <1>0, <2>1, <2>2 DEF SizesTyped
  <2> QED
    BY <1>t, <2>1, <2>3 DEF SizesTyped, Current
<1>5. CASE WriteUnit
  <2>1. /\ UNCHANGED <<meta, dest, todo, prior, saved>> /\ pc' \in {"body", "checkpoint"}
        /\ part' = [part EXCEPT ![c] = Append(part[c], reply.version)]
        /\ part[c] \in Bytes /\ Len(part[c]) < Total
    BY <1>5 DEF WriteUnit, thread, SizesTyped, received
  <2>2. reply.version \in Versions
    BY DEF FilesTyped
  <2>3. part[c] \in Seq(Versions) /\ Len(part[c]) \in Nat
    BY <2>1, BytesAreShort, LenProperties
  <2>4. /\ Append(part[c], reply.version) \in Seq(Versions)
        /\ Len(Append(part[c], reply.version)) = Len(part[c]) + 1
    BY <2>2, <2>3, AppendProperties
  <2>5. Append(part[c], reply.version) \in Bytes
    <3>1. Len(Append(part[c], reply.version)) <= Total
      BY <1>t, <2>1, <2>3, <2>4
    <3> QED
      BY <2>4, <3>1, BytesAreShort
  <2>6. /\ part' \in [RequestSet -> Bytes \cup {NoFile}]
        /\ part'[c] = Append(part[c], reply.version)
    BY <1>0, <2>1, <2>5 DEF SizesTyped
  <2>7. Current' = c
    BY <2>1 DEF Current
  <2> QED
    BY <2>1, <2>3, <2>4, <2>5, <2>6, <2>7 DEF SizesTyped
<1>6. CASE Checkpoint
  <2>1. /\ UNCHANGED <<part, dest, todo, prior>> /\ pc' = "body" /\ persist_resume
        /\ saved' = Len(part[c]) /\ part[c] \in Bytes /\ Len(part[c]) > 0
    BY <1>6 DEF Checkpoint, SizesTyped, received
  <2>2. saved' \in 0 .. Total
    BY <2>1, <1>t, BytesAreShort, LenProperties
  <2>3. meta' \in [RequestSet -> Metas \cup {NoMeta}]
    BY <1>0, <2>1, PersistedIsTyped
  <2> QED
    BY <2>1, <2>2, <2>3 DEF SizesTyped, Current
<1>7. CASE BodyBreaks
  <2>1. /\ UNCHANGED <<part, dest, todo, prior, saved>> /\ pc' \in {"attempt", "failed"}
        /\ part[c] \in Bytes
        /\ IF Len(part[c]) > saved THEN persist_resume ELSE UNCHANGED meta
    BY <1>7 DEF BodyBreaks, SizesTyped, received, GiveUp, is_retryable, Retried
  <2>2. Len(part[c]) \in Nat
    BY <2>1, BytesAreShort, LenProperties
  <2>3. meta' \in [RequestSet -> Metas \cup {NoMeta}]
    <3>1. CASE Len(part[c]) > saved
      <4>1. Len(part[c]) > 0 /\ persist_resume
        BY <1>t, <2>1, <2>2, <3>1 DEF SizesTyped
      <4> QED
        BY <1>0, <2>1, <4>1, PersistedIsTyped
    <3>2. CASE ~(Len(part[c]) > saved)
      BY <2>1, <3>2 DEF SizesTyped
    <3> QED
      BY <3>1, <3>2
  <2> QED
    BY <2>1, <2>3 DEF SizesTyped
<1>8. CASE Complete
  <2>1. /\ UNCHANGED <<part, meta, dest, todo, prior, saved>> /\ pc' \in {"rename", "failed"}
        /\ part[c] \in Bytes
    BY <1>8 DEF Complete, files, thread, SizesTyped
  <2> QED
    BY <2>1 DEF SizesTyped, Current
<1>9. CASE RenamePart
  <2>1. /\ UNCHANGED <<meta, prior, saved>> /\ pc' = "forget" /\ part[c] \in Bytes
        /\ dest' = [dest EXCEPT ![c] = part[c]] /\ part' = [part EXCEPT ![c] = NoFile]
    BY <1>9 DEF RenamePart, thread, SizesTyped
  <2> QED
    BY <2>1 DEF SizesTyped
<1>10. CASE ForgetMetadata
  <2>1. /\ UNCHANGED <<part, dest, prior, saved>> /\ pc' = "open"
        /\ meta' = [meta EXCEPT ![c] = NoMeta]
    BY <1>10 DEF ForgetMetadata
  <2> QED
    BY <2>1 DEF SizesTyped
<1> QED
  BY <1>1, <1>2, <1>3, <1>4, <1>5, <1>6, <1>7, <1>8, <1>9, <1>10

LEMMA SizesStep ==
  ASSUME SizesTyped, FilesTyped, [Next]_vars
  PROVE  SizesTyped'
<1> USE DEF net, files, thread, shell
<1>d. dest \in [RequestSet -> Bytes \cup {NoFile}]
  BY DEF SizesTyped
<1>1. CASE Download
  <2>1. CASE OpenRequest
    <3>1. /\ UNCHANGED <<part, meta, prior, saved>> /\ pc' \in {"open", "attempt"}
          /\ dest' \in {dest, [dest EXCEPT ![Current] = NoFile]}
      BY <2>1 DEF OpenRequest
    <3>2. dest' \in [RequestSet -> Bytes \cup {NoFile}]
      BY <1>d, <3>1
    <3> QED
      BY <3>1, <3>2, SizesKept
  <2>2. CASE CancelledBetweenAttempts \/ SendFails \/ RangedSendFails \/ LengthMismatch
    <3>1. UNCHANGED <<part, meta, dest, prior, saved>> /\ pc' \in {"attempt", "failed"}
      BY <2>2 DEF CancelledBetweenAttempts, SendFails, RangedSendFails, LengthMismatch,
         is_retryable, Retried, GiveUp
    <3> QED
      BY <1>d, <3>1, SizesKept
  <2> QED
    BY <1>1, <2>1, <2>2, TransferSizes DEF Download
<1>2. CASE Manager
  <2>1. /\ UNCHANGED <<part, meta, dest>>
        /\ pc' \notin {"send", "body", "checkpoint", "rename"}
        /\ prior' \in {prior, NoMeta} /\ saved' \in {saved, 0}
    BY <1>2 DEF Manager, BeginManager, PrepareStage, PrepareRefused, CopyNextFile,
       copy_verified_file, CancelledWhileCopying, PutAside, PutAsideFails, Activate,
       ActivateFails, DiscardRollback, Settle, ThreadGone, ReleaseSlot, FinishOperation
  <2> QED
    BY <1>d, <2>1, SizesKept
<1>3. CASE Commands
  <2>1. /\ UNCHANGED <<part, meta, dest, prior, saved>>
        /\ UNCHANGED <<pc, todo>> \/ pc' = "open"
    BY <1>3 DEF Commands, ModelInstallStart, SetupStart, BeginInstall, Launch,
       ModelInstallCancel, RemoveBegins, RemoveFile, RemoveEnds
  <2> QED
    BY <1>d, <2>1, SizesKept
<1>4. CASE ProcessEnds
  BY <1>4, <1>d, SizesKept DEF ProcessEnds, ThreadGone
<1>5. CASE DownloadDamaged
  <2>1. PICK r \in RequestSet : dest' = [dest EXCEPT ![r] = [i \in 1 .. Total |-> Other]]
    BY <1>5 DEF DownloadDamaged
  <2>2. [i \in 1 .. Total |-> Other] \in Bytes
    BY SizesAssumption DEF Bytes, Versions
  <2>3. dest' \in [RequestSet -> Bytes \cup {NoFile}]
    BY <1>d, <2>1, <2>2
  <2> QED
    BY <1>5, <2>3, SizesKept DEF DownloadDamaged
<1>6. CASE ServerChanges \/ UNCHANGED vars
  BY <1>6, <1>d, SizesKept DEF ServerChanges, vars
<1> QED
  BY <1>1, <1>2, <1>3, <1>4, <1>5, <1>6 DEF Next

LEMMA ShellStep ==
  ASSUME ShellTyped, [Next]_vars
  PROVE  ShellTyped'
<1> USE DEF net, thread, shell, ghosts
<1>t. MaximumRetries \in Nat /\ MaxRuns \in Nat /\ MaxFaults \in Nat
  BY SizesAssumption
<1>f. Fault => faults' \in 0 .. MaxFaults
  BY <1>t DEF Fault, ShellTyped
<1>r. is_retryable => attempts' \in 0 .. MaximumRetries /\ pc' \in Places
  BY <1>t DEF is_retryable, Retried, GiveUp, ShellTyped, Places
<1>1. CASE Download
  <2>1. UNCHANGED <<payload, app, cancelled, slot, arbiter, ui, status, outcome, runs>>
    BY <1>1 DEF Download, OpenRequest, Attempt, CancelledBetweenAttempts, SendFails,
       RangedSendFails, Append206, RangeRefused, Whole200, WriteUnit, Checkpoint, BodyBreaks,
       LengthMismatch, Complete, RenamePart, ForgetMetadata
  <2>2. faults' \in 0 .. MaxFaults
    BY <1>1, <1>f DEF Download, OpenRequest, Attempt, CancelledBetweenAttempts, SendFails,
       RangedSendFails, Append206, RangeRefused, Whole200, WriteUnit, Checkpoint, BodyBreaks,
       LengthMismatch, Complete, RenamePart, ForgetMetadata, ShellTyped
  <2>3. attempts' \in 0 .. MaximumRetries /\ pc' \in Places
    BY <1>1, <1>r, <1>t DEF Download, OpenRequest, Attempt, CancelledBetweenAttempts, GiveUp,
       SendFails, RangedSendFails, Append206, RangeRefused, Whole200, WriteUnit, Checkpoint,
       BodyBreaks, LengthMismatch, Complete, RenamePart, ForgetMetadata, ShellTyped, Places
  <2> QED
    BY <2>1, <2>2, <2>3 DEF ShellTyped
<1>2. CASE Manager
  <2>1. UNCHANGED <<payload, app, cancelled, ui, runs>> /\ attempts' \in {attempts, 0}
    BY <1>2 DEF Manager, BeginManager, PrepareStage, PrepareRefused, CopyNextFile,
       copy_verified_file, CancelledWhileCopying, PutAside, PutAsideFails, Activate,
       ActivateFails, DiscardRollback, Settle, ThreadGone, ReleaseSlot, FinishOperation
  <2>2. CASE ~ActivateFails /\ ~Settle
    <3>1. /\ faults' \in 0 .. MaxFaults /\ pc' \in Places /\ outcome' = outcome
          /\ slot' \in {slot, FALSE} /\ arbiter' \in {arbiter, "none"}
          /\ status' \in {status, "installing"}
      BY <1>2, <2>2, <1>f DEF Manager, BeginManager, PrepareStage, PrepareRefused,
         CopyNextFile, copy_verified_file, CancelledWhileCopying, PutAside, PutAsideFails,
         Activate, DiscardRollback, ReleaseSlot, FinishOperation, ShellTyped, Places
    <3>2. attempts' \in 0 .. MaximumRetries
      BY <1>t, <2>1 DEF ShellTyped
    <3>3. status' \in {"absent", "installed_unverified", "downloading",
                       "installing", "verified_on_disk", "cancelled", "failed"}
          /\ slot' \in BOOLEAN /\ arbiter' \in {"none", "install", "delete"}
      BY <3>1 DEF ShellTyped
    <3> QED
      BY <2>1, <3>1, <3>2, <3>3 DEF ShellTyped
  <2>3. CASE ActivateFails
    <3>1. /\ UNCHANGED <<slot, arbiter, status, outcome>> /\ pc' \in Places
          /\ faults' \in 0 .. MaxFaults
      BY <1>t, <2>3 DEF ActivateFails, ShellTyped, Places
    <3>2. attempts' \in 0 .. MaximumRetries
      BY <1>t, <2>1 DEF ShellTyped
    <3> QED
      BY <2>1, <3>1, <3>2 DEF ShellTyped
  <2>4. CASE Settle
    <3>1. /\ UNCHANGED <<slot, arbiter, faults>> /\ pc' \in Places
          /\ outcome' \in {"installed", "failed"}
          /\ status' \in {status, "verified_on_disk", "cancelled", "failed"}
      BY <2>4 DEF Settle, Places
    <3>2. attempts' \in 0 .. MaximumRetries
      BY <1>t, <2>1 DEF ShellTyped
    <3>3. status' \in {"absent", "installed_unverified", "downloading",
                       "installing", "verified_on_disk", "cancelled", "failed"}
      BY <3>1 DEF ShellTyped
    <3> QED
      BY <2>1, <3>1, <3>2, <3>3 DEF ShellTyped
  <2> QED
    BY <2>2, <2>3, <2>4
<1>3. CASE Commands
  <2>1. CASE ModelInstallStart \/ SetupStart
    <3>1. /\ UNCHANGED <<payload, app, ui, attempts, faults>>
          /\ slot' \in {slot, TRUE} /\ cancelled' \in {cancelled, FALSE}
          /\ arbiter' \in {arbiter, "install"} /\ status' \in {status, "downloading"}
          /\ outcome' \in {"none", "installed"} /\ pc' \in {pc, "open"}
          /\ runs < MaxRuns /\ runs' = runs + 1
      BY <2>1 DEF ModelInstallStart, SetupStart, BeginInstall
    <3>2. runs' \in 0 .. MaxRuns
      BY <1>t, <3>1 DEF ShellTyped
    <3>3. pc' \in Places /\ slot' \in BOOLEAN /\ cancelled' \in BOOLEAN
      BY <3>1 DEF ShellTyped, Places
    <3> QED
      BY <3>1, <3>2, <3>3 DEF ShellTyped
  <2>2. CASE \E process \in {"desktop", "setup"} : Launch(process)
    BY <2>2 DEF Launch, readiness, ShellTyped
  <2>3. CASE ModelInstallCancel \/ RemoveFile
    BY <2>3 DEF ModelInstallCancel, RemoveFile, ShellTyped
  <2>4. CASE RemoveBegins
    BY <1>t, <2>4 DEF RemoveBegins, ShellTyped
  <2>5. CASE RemoveEnds
    BY <2>5, <1>f DEF RemoveEnds, ShellTyped
  <2> QED
    BY <1>3, <2>1, <2>2, <2>3, <2>4, <2>5 DEF Commands
<1>4. CASE ProcessEnds
  <2>1. /\ app' = "closed" /\ pc' = "idle" /\ ui' = "idle" /\ slot' = FALSE
        /\ cancelled' = FALSE /\ arbiter' = "none" /\ outcome' = "none" /\ attempts' = 0
        /\ UNCHANGED <<payload, status, runs>>
        /\ Fault \/ UNCHANGED faults
    BY <1>4 DEF ProcessEnds, ThreadGone
  <2>2. attempts' \in 0 .. MaximumRetries /\ faults' \in 0 .. MaxFaults
    BY <1>t, <1>f, <2>1 DEF ShellTyped
  <2> QED
    BY <2>1, <2>2 DEF ShellTyped, Places
<1>5. CASE ServerChanges \/ DownloadDamaged \/ UNCHANGED vars
  BY <1>5, <1>f DEF ServerChanges, DownloadDamaged, vars, ShellTyped
<1> QED
  BY <1>1, <1>2, <1>3, <1>4, <1>5 DEF Next

(* Every variable keeps its type (ModelInstall's TypeOK).  In it lie the sizes: *)
(* no part and no finished download is longer than the manifest says, metadata  *)
(* vouch for one unit at least and for no more than there can be, and a request *)
(* is not tried more often than the policy allows (download.rs).                *)
THEOREM InstallIsTyped == Spec => []TypeOK
<1>1. Init => SizesTyped /\ ShellTyped
  BY SizesStart
<1>2. (SizesTyped /\ ShellTyped) /\ ResumeInv /\ [Next]_vars => (SizesTyped /\ ShellTyped)'
  BY SizesStep, ShellStep DEF ResumeInv
<1>3. SizesTyped /\ ShellTyped /\ ResumeInv /\ StoreInv => TypeOK
  <2> SUFFICES ASSUME SizesTyped, ShellTyped, ResumeInv, StoreInv PROVE TypeOK
    OBVIOUS
  <2>1. {stage, final, rollback} \subseteq Dirs \cup {Absent}
    BY DEF StoreInv, DirsTyped
  <2>2. {cancelled, slot, had, owned} \subseteq BOOLEAN
    <3>1. cancelled \in BOOLEAN /\ slot \in BOOLEAN /\ had \in BOOLEAN /\ owned \in BOOLEAN
      BY DEF StoreInv, DirsTyped, ShellTyped
    <3> QED
      BY <3>1
  <2>3. /\ served \in Versions /\ todo \in Seq(RequestSet)
        /\ reply \in [version : Versions, tag : Versions \cup {NoTag}]
    BY DEF ResumeInv, FilesTyped
  <2> QED
    BY <2>1, <2>2, <2>3 DEF SizesTyped, ShellTyped, Places, TypeOK
<1> QED
  BY <1>1, <1>2, <1>3, InitResume, StepResume, StoreInvariance, PTL DEF Spec
=============================================================================
