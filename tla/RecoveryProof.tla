---------------------------- MODULE RecoveryProof ----------------------------
(* Proofs about Recovery, for every set of imported files and contents, any   *)
(* choices and any number of writes of the v1 application, commits, failures  *)
(* and kills.  MaintenanceIsSound is not inductive; RecoveryInv adds to it    *)
(*   - that a copied file is what the first fingerprint read, unless it was   *)
(*     written since and not written back;                                    *)
(*   - what each place of a commit may rely on: the rollback is empty until   *)
(*     the profile is put there, and is then that profile; the stage carries  *)
(*     a report;                                                              *)
(*   - that a bundle with a manifest is all of the profile it was made of.    *)
EXTENDS Recovery, TLAPS

ComparePlaces == {"compare", "stage"}
AsidePlaces == {"recheck", "put_aside"}
StagedPlaces == AsidePlaces \cup {"activate"}
ImportPlaces == ComparePlaces \cup StagedPlaces \cup {"drop_rollback"}

(* ---- The import ---- *)

ImportTyped ==
    /\ source \in Sources /\ writes \in 0 .. MaxWrites
    /\ profile \in Trees \cup {Absent} /\ stage \in Trees \cup {Absent}
    /\ rollback \in Trees \cup {Absent} /\ old \in Trees \cup {Absent}
    /\ choices \in ImportChoices

(* While the source is copied: a file that was copied is as the first          *)
(* fingerprint read it, or is not now, or was written back.                    *)
SnapshotIsOrdered ==
    pc = "snapshot" =>
        /\ snapshot \in Plans
        /\ ~snapshot.returned =>
              \A f \in SourceFiles \ todo : snapshot.files[f] = snapshot.before[f]
                                            \/ source[f] # snapshot.before[f]

(* A plan that was accepted holds the state of the source it names. *)
PlanIsOneState ==
    plan # Absent => plan \in Plans /\ (~plan.returned => plan.files = plan.before)

CommitHasPlan == pc \in ImportPlaces => plan # Absent

(* What ImportedWasTheSource and OwnFilesAreKept say of a tree. *)
OfItsSource(tree) ==
    tree.report # Absent /\ ~tree.returned =>
        \A f \in SourceFiles :
            /\ tree.files[f] \in {FileOf(old, f), tree.report.source[f]}
            /\ tree.copies[f] \in {CopyOf(old, f), tree.report.source[f]}

KeepsOwn(tree) ==
    tree.report # Absent /\ tree.report.choices.collision_policy # "replace_from_v1" =>
        \A f \in SourceFiles : FileOf(old, f) \in {Absent, tree.files[f]}

ProfileIsHonest ==
    profile # Absent => profile = old \/ (OfItsSource(profile) /\ KeepsOwn(profile))

StageIsHonest ==
    pc \in StagedPlaces =>
        stage # Absent /\ stage.report # Absent /\ OfItsSource(stage) /\ KeepsOwn(stage)

OldIsKept ==
    /\ rollback \in {old, Absent}
    /\ pc \in ComparePlaces => rollback = Absent
    /\ pc \in AsidePlaces => profile = old /\ rollback = Absent
    /\ pc = "activate" => rollback = old /\ profile = Absent
    /\ pc = "drop_rollback" => profile # Absent /\ profile.report # Absent
    /\ profile # Absent /\ rollback # Absent => recreated \/ profile.report # Absent

ImportInv ==
    /\ ImportTyped /\ SnapshotIsOrdered /\ PlanIsOneState /\ CommitHasPlan
    /\ ProfileIsHonest /\ StageIsHonest /\ OldIsKept /\ ProfileSurvivesImport

(* ---- The recovery bundle ---- *)

RepairTyped ==
    /\ bundle \in Bundles \cup {Absent} /\ kept \in Files \cup {Absent}
    /\ marker \in Versions \cup {Absent} /\ installed \in Versions
    /\ restored \in Files /\ todo \subseteq SourceFiles
    /\ damaged \in BOOLEAN

BackupFollows ==
    pc = "backup" =>
        /\ bundle # Absent /\ bundle.manifest = Absent /\ marker = Absent
        /\ kept # Absent
        /\ \A f \in SourceFiles \ todo : bundle.files[f] = kept[f]

ManifestIsKept ==
    bundle # Absent /\ bundle.manifest # Absent => kept # Absent /\ bundle.manifest = kept

RestoreFollows ==
    pc = "restore" =>
        /\ bundle # Absent /\ bundle.manifest # Absent /\ bundle.files = bundle.manifest
        /\ \A f \in SourceFiles \ todo : restored[f] = kept[f]

RepairInv ==
    /\ RepairTyped /\ BackupFollows /\ ManifestIsKept /\ RestoreFollows
    /\ MarkerMeansRecoverable

Places ==
    pc \in {"idle", "snapshot", "backup", "restore"} \cup ImportPlaces

(* The inductive invariant *)
RecoveryInv == ImportInv /\ RepairInv /\ Places

-----------------------------------------------------------------------------
(* The values *)

LEMMA AbsentFacts ==
    /\ Absent \notin Trees /\ Absent \notin Plans /\ Absent \notin Reports
    /\ Absent \notin Bundles /\ Absent \notin Versions /\ Absent \notin Files
    /\ Absent \notin Contents /\ Absent # Own
    /\ NoFiles \in Files /\ \A f \in SourceFiles : NoFiles[f] = Absent
  BY AbsentAssumption, FilesAssumption DEF NoFiles, Bytes, Files

(* A profile of the application's own has no report to be held to. *)
LEMMA OwnIsTree ==
  ASSUME NEW own
  PROVE  OwnProfile(own) \in Trees /\ OwnProfile(own) # Absent /\ OwnProfile(own).report = Absent
<1> DEFINE files == [f \in SourceFiles |-> IF f \in own THEN Own ELSE Absent]
<1>1. files \in Files
  BY DEF Files, Bytes
<1>2. OwnProfile(own) = [files |-> files, copies |-> NoFiles, report |-> Absent, returned |-> FALSE]
  BY DEF OwnProfile
<1> HIDE DEF files
<1>3. OwnProfile(own) \in Trees /\ OwnProfile(own).report = Absent
  BY <1>1, <1>2, AbsentFacts DEF Trees
<1> QED
  BY <1>3, AbsentFacts

(* What is staged over a tree is of it and of the source its report names, and *)
(* keeps its files unless the policy replaces them.                            *)
LEMMA MergedIsHonest ==
  ASSUME NEW tree \in Trees \cup {Absent}, plan \in Plans, choices \in ImportChoices,
         ~plan.returned => plan.files = plan.before, old' = tree
  PROVE  /\ Merged(tree) \in Trees /\ Merged(tree).report # Absent
         /\ Merged(tree).report.choices = choices
         /\ ~Merged(tree).returned =>
               \A f \in SourceFiles :
                  /\ Merged(tree).files[f] \in {FileOf(tree, f), Merged(tree).report.source[f]}
                  /\ Merged(tree).copies[f] \in {CopyOf(tree, f), Merged(tree).report.source[f]}
         /\ choices.collision_policy # "replace_from_v1" =>
               \A f \in SourceFiles : FileOf(tree, f) \in {Absent, Merged(tree).files[f]}
<1> DEFINE files == IF tree = Absent THEN NoFiles ELSE tree.files
           copies == IF tree = Absent THEN NoFiles ELSE tree.copies
           imported == {f \in SourceFiles : Chosen(f) /\ plan.files[f] # Absent}
           written == {f \in imported : \/ files[f] = Absent
                                        \/ choices.collision_policy = "replace_from_v1"}
           renamed == {f \in imported \ (written \cup {Settings}) :
                          choices.collision_policy = "rename_v1"}
           newFiles == [f \in SourceFiles |-> IF f \in written THEN plan.files[f] ELSE files[f]]
           newCopies == [f \in SourceFiles |-> IF f \in renamed THEN plan.files[f] ELSE copies[f]]
           report == [source |-> plan.before, choices |-> choices]
<1>1. Merged(tree) = [files |-> newFiles, copies |-> newCopies, report |-> report,
                      returned |-> plan.returned]
  BY DEF Merged
<1>2. /\ files \in Files /\ copies \in Files
      /\ \A f \in SourceFiles : files[f] = FileOf(tree, f) /\ copies[f] = CopyOf(tree, f)
  BY AbsentFacts DEF Trees, FileOf, CopyOf
<1>3. /\ plan.files \in Files /\ plan.before \in Sources /\ plan.returned \in BOOLEAN
      /\ report \in Reports
  BY DEF Plans, Sources, Files, Bytes, Reports
<1>4. newFiles \in Files /\ newCopies \in Files
  <2>1. \A f \in SourceFiles : /\ (IF f \in written THEN plan.files[f] ELSE files[f]) \in Bytes
                               /\ (IF f \in renamed THEN plan.files[f] ELSE copies[f]) \in Bytes
    <3> HIDE DEF files, copies, written, renamed
    <3> QED
      BY <1>2, <1>3 DEF Files
  <2> HIDE DEF files, copies, written, renamed
  <2> QED
    BY <2>1 DEF Files
<1>5. \A f \in SourceFiles : /\ newFiles[f] \in {files[f], plan.files[f]}
                             /\ newCopies[f] \in {copies[f], plan.files[f]}
  OBVIOUS
<1>6. choices.collision_policy # "replace_from_v1" =>
         \A f \in SourceFiles : files[f] \in {Absent, newFiles[f]}
  OBVIOUS
<1> HIDE DEF files, copies, newFiles, newCopies, report
<1>7. /\ Merged(tree) \in Trees /\ Merged(tree).files = newFiles
      /\ Merged(tree).copies = newCopies /\ Merged(tree).report = report
      /\ Merged(tree).returned = plan.returned
  BY <1>1, <1>3, <1>4 DEF Trees
<1>8. report # Absent /\ report.choices = choices /\ report.source = plan.before
  BY <1>3, AbsentFacts DEF report
<1>9. ASSUME ~plan.returned, NEW f \in SourceFiles
      PROVE  /\ newFiles[f] \in {FileOf(tree, f), plan.before[f]}
             /\ newCopies[f] \in {CopyOf(tree, f), plan.before[f]}
  BY <1>2, <1>5, <1>9
<1>10. choices.collision_policy # "replace_from_v1" =>
          \A f \in SourceFiles : FileOf(tree, f) \in {Absent, newFiles[f]}
  BY <1>2, <1>6
<1> QED
  BY <1>7, <1>8, <1>9, <1>10

(* A source that reads as it did before, and was not written back, was never   *)
(* written meanwhile.                                                          *)
LEMMA UnchangedIsOneState ==
  ASSUME SnapshotIsOrdered, pc = "snapshot", todo = {}, source = snapshot.before
  PROVE  snapshot \in Plans /\ (~snapshot.returned => snapshot.files = snapshot.before)
<1>1. snapshot \in Plans
      /\ (~snapshot.returned => \A f \in SourceFiles : snapshot.files[f] = snapshot.before[f])
  BY DEF SnapshotIsOrdered
<1> QED
  BY <1>1 DEF Plans, Sources

-----------------------------------------------------------------------------
(* The steps of an import keep its invariant *)

ImportStep ==
    \/ SourceChanges \/ InspectBegins \/ InspectEnds \/ CommitBegins \/ Compare
    \/ StageImport \/ Recheck \/ PutAside \/ Activate \/ DropRollback \/ DropPlan
    \/ RecreateProfile \/ \E f \in SourceFiles : SnapshotFile(f)

LEMMA InitImport == Init => ImportInv
<1> SUFFICES ASSUME Init PROVE ImportInv
  OBVIOUS
<1> USE AbsentFacts, FilesAssumption DEF Init
<1>1. profile = Absent \/ (profile \in Trees /\ profile.report = Absent)
  BY OwnIsTree
<1>2. ImportTyped
  BY <1>1 DEF ImportTyped, ImportChoices, CollisionPolicies, DefaultChoices
<1>3. ProfileIsHonest
  BY <1>1 DEF ProfileIsHonest, OfItsSource, KeepsOwn
<1>4. /\ SnapshotIsOrdered /\ PlanIsOneState /\ CommitHasPlan /\ StageIsHonest /\ OldIsKept
      /\ ProfileSurvivesImport
  BY DEF SnapshotIsOrdered, PlanIsOneState, CommitHasPlan, StageIsHonest, OldIsKept,
     ProfileSurvivesImport, ImportPlaces, ComparePlaces, AsidePlaces, StagedPlaces
<1> QED
  BY <1>2, <1>3, <1>4 DEF ImportInv

(* What the trees' part of the invariant reads is left alone by these. *)
LEMMA TreesFrame ==
  ASSUME ImportInv, treesUnchanged' = treesUnchanged, pc' \notin ImportPlaces
  PROVE  CommitHasPlan' /\ ProfileIsHonest' /\ StageIsHonest' /\ OldIsKept' /\ ProfileSurvivesImport'
  BY DEF treesUnchanged, ImportInv, CommitHasPlan, ProfileIsHonest, StageIsHonest, OldIsKept,
     ProfileSurvivesImport, OfItsSource, KeepsOwn, FileOf, CopyOf, ImportPlaces, ComparePlaces,
     AsidePlaces, StagedPlaces

(* A write that brings a file back while it is copied is noted. *)
LEMMA SourceChangesKeeps == ImportInv /\ SourceChanges => ImportInv'
<1> SUFFICES ASSUME ImportInv, SourceChanges PROVE ImportInv'
  OBVIOUS
<1> USE DEF ImportInv
<1>1. PICK g \in SourceFiles, c \in Contents \cup {Absent} :
         /\ source' = [source EXCEPT ![g] = c]
         /\ IF pc = "snapshot" /\ c = snapshot.before[g]
            THEN snapshot' = [snapshot EXCEPT !.returned = TRUE]
            ELSE UNCHANGED snapshot
  BY DEF SourceChanges
<1>2. /\ UNCHANGED <<plan, profile, stage, rollback, old, recreated, choices, pc, todo>>
      /\ writes' \in 0 .. MaxWrites
  BY FilesAssumption DEF SourceChanges, treesUnchanged, ImportTyped
<1>3. source \in Sources /\ source' \in Sources
      /\ \A f \in SourceFiles : source'[f] = IF f = g THEN c ELSE source[f]
  BY <1>1 DEF ImportTyped, Sources
<1>4. ImportTyped'
  BY <1>2, <1>3 DEF ImportTyped
<1>5. SnapshotIsOrdered'
  <2> SUFFICES ASSUME pc = "snapshot" PROVE SnapshotIsOrdered'
    BY <1>2 DEF SnapshotIsOrdered
  <2>1. snapshot \in Plans /\ (~snapshot.returned =>
           \A f \in SourceFiles \ todo : snapshot.files[f] = snapshot.before[f]
                                         \/ source[f] # snapshot.before[f])
    BY DEF SnapshotIsOrdered
  <2>2. CASE c = snapshot.before[g]
    <3>1. snapshot' \in Plans /\ snapshot'.returned
      BY <1>1, <2>1, <2>2 DEF Plans
    <3> QED
      BY <3>1 DEF SnapshotIsOrdered
  <2>3. CASE c # snapshot.before[g]
    <3>1. snapshot' = snapshot
      BY <1>1, <2>3
    <3> QED
      BY <1>2, <1>3, <2>1, <2>3, <3>1 DEF SnapshotIsOrdered
  <2> QED
    BY <2>2, <2>3
<1>6. PlanIsOneState' /\ CommitHasPlan' /\ ProfileIsHonest' /\ StageIsHonest' /\ OldIsKept'
      /\ ProfileSurvivesImport'
  BY <1>2 DEF PlanIsOneState, CommitHasPlan, ProfileIsHonest, StageIsHonest, OldIsKept,
     ProfileSurvivesImport, OfItsSource, KeepsOwn, FileOf, CopyOf
<1> QED
  BY <1>4, <1>5, <1>6

(* The inspection, whose plan is the snapshot of a source that stood still. *)
LEMMA InspectKeeps ==
  ASSUME ImportInv,
         InspectBegins \/ InspectEnds \/ DropPlan \/ \E f \in SourceFiles : SnapshotFile(f)
  PROVE  ImportInv'
<1> USE DEF ImportInv, importUnchanged, commitUnchanged
<1>0. /\ UNCHANGED <<source, writes>> /\ UNCHANGED treesUnchanged /\ pc' \notin ImportPlaces
  BY DEF InspectBegins, InspectEnds, DropPlan, SnapshotFile, Return, ImportPlaces, ComparePlaces,
     AsidePlaces, StagedPlaces, Idle
<1>1. ImportTyped'
  BY <1>0 DEF ImportTyped, treesUnchanged
<1>2. CommitHasPlan' /\ ProfileIsHonest' /\ StageIsHonest' /\ OldIsKept' /\ ProfileSurvivesImport'
  BY <1>0, TreesFrame
<1>3. SnapshotIsOrdered' /\ PlanIsOneState'
  <2>1. CASE InspectBegins
    <3>1. /\ snapshot' = [before |-> source, files |-> NoFiles, returned |-> FALSE]
          /\ todo' = SourceFiles /\ UNCHANGED plan
      BY <2>1 DEF InspectBegins
    <3>2. snapshot' \in Plans
      BY <3>1 DEF ImportTyped, Plans, Sources, NoFiles
    <3> QED
      BY <3>1, <3>2 DEF SnapshotIsOrdered, PlanIsOneState
  <2>2. CASE InspectEnds
    <3>1. /\ pc = "snapshot" /\ todo = {} /\ pc' = "idle"
          /\ UNCHANGED plan \/ (source = snapshot.before /\ plan' = snapshot)
      BY <2>2 DEF InspectEnds, Return
    <3> QED
      BY <3>1, UnchangedIsOneState DEF SnapshotIsOrdered, PlanIsOneState
  <2>3. CASE DropPlan
    BY <2>3 DEF DropPlan, Idle, SnapshotIsOrdered, PlanIsOneState
  <2>4. ASSUME NEW g \in SourceFiles, SnapshotFile(g) PROVE SnapshotIsOrdered' /\ PlanIsOneState'
    <3>1. /\ pc = "snapshot" /\ snapshot' = [snapshot EXCEPT !.files[g] = source[g]]
          /\ todo' = todo \ {g} /\ UNCHANGED plan
      BY <2>4 DEF SnapshotFile
    <3>2. snapshot \in Plans /\ source[g] \in Contents \cup {Absent}
      BY <3>1 DEF SnapshotIsOrdered, ImportTyped, Sources
    <3>3. /\ snapshot' \in Plans /\ snapshot'.before = snapshot.before
          /\ snapshot'.returned = snapshot.returned
          /\ \A f \in SourceFiles : snapshot'.files[f] = IF f = g THEN source[g] ELSE snapshot.files[f]
      BY <3>1, <3>2 DEF Plans, Sources
    <3> QED
      BY <1>0, <3>1, <3>3 DEF SnapshotIsOrdered, PlanIsOneState
  <2> QED
    BY <2>1, <2>2, <2>3, <2>4
<1> QED
  BY <1>1, <1>2, <1>3

(* The application that makes a profile of its own has none: what it may hide  *)
(* is the one moved aside.                                                     *)
LEMMA RecreateKeeps == ImportInv /\ RecreateProfile => ImportInv'
<1> SUFFICES ASSUME ImportInv, RecreateProfile PROVE ImportInv'
  OBVIOUS
<1> USE DEF ImportInv
<1>1. /\ UNCHANGED <<source, writes, snapshot, plan, stage, rollback, old, choices, pc, todo>>
      /\ pc = "idle" /\ profile = Absent /\ recreated' = (recreated \/ rollback # Absent)
      /\ profile' \in Trees /\ profile' # Absent /\ profile'.report = Absent
  BY OwnIsTree DEF RecreateProfile, Idle, commitUnchanged, importUnchanged
<1>2. ImportTyped' /\ SnapshotIsOrdered' /\ PlanIsOneState'
  BY <1>1 DEF ImportTyped, SnapshotIsOrdered, PlanIsOneState
<1>3. CommitHasPlan' /\ StageIsHonest'
  BY <1>1 DEF CommitHasPlan, StageIsHonest, ImportPlaces, ComparePlaces, AsidePlaces, StagedPlaces
<1>4. ProfileIsHonest'
  BY <1>1 DEF ProfileIsHonest, OfItsSource, KeepsOwn
<1>5. OldIsKept'
  BY <1>1 DEF OldIsKept, ComparePlaces, AsidePlaces
<1>6. ProfileSurvivesImport'
  BY <1>1 DEF ProfileSurvivesImport
<1> QED
  BY <1>2, <1>3, <1>4, <1>5, <1>6

CommitStep ==
    \/ CommitBegins \/ Compare \/ StageImport \/ Recheck \/ PutAside \/ Activate \/ DropRollback

(* What no step of a commit touches. *)
LEMMA CommitFrame ==
  ASSUME ImportInv, CommitStep
  PROVE  /\ UNCHANGED <<source, writes, snapshot, plan>> /\ plan # Absent
         /\ choices' \in ImportChoices
         /\ SnapshotIsOrdered' /\ PlanIsOneState' /\ CommitHasPlan'
<1>1. /\ UNCHANGED <<source, writes, snapshot, plan>> /\ pc' # "snapshot"
      /\ choices' \in ImportChoices
  BY ChoicesAssumption DEF CommitStep, CommitBegins, Compare, StageImport, Recheck, PutAside, Activate,
     DropRollback, commitUnchanged, importUnchanged, treesUnchanged, Return, ImportInv, ImportTyped
<1>2. plan # Absent
  <2>1. CASE CommitBegins
    BY <2>1 DEF CommitBegins
  <2>2. CASE ~CommitBegins
    BY <2>2 DEF CommitStep, Compare, StageImport, Recheck, PutAside, Activate, DropRollback,
       ImportInv, CommitHasPlan, ImportPlaces, ComparePlaces, AsidePlaces, StagedPlaces
  <2> QED
    BY <2>1, <2>2
<1> QED
  BY <1>1, <1>2 DEF ImportInv, SnapshotIsOrdered, PlanIsOneState, CommitHasPlan

(* The rest of the invariant reads the trees and the place only. *)
LEMMA CommitKeeps ==
  ASSUME ImportInv, CommitStep
  PROVE  ImportInv'
<1> DEFINE Typed4 == {profile, stage, rollback, old} \subseteq Trees \cup {Absent}
<1> SUFFICES Typed4' /\ ProfileIsHonest' /\ StageIsHonest' /\ OldIsKept' /\ ProfileSurvivesImport'
  BY CommitFrame DEF ImportInv, ImportTyped
<1>0. Typed4 /\ ProfileIsHonest /\ StageIsHonest /\ OldIsKept /\ ProfileSurvivesImport
      /\ plan \in Plans /\ choices \in ImportChoices /\ (~plan.returned => plan.files = plan.before)
  BY CommitFrame DEF ImportInv, ImportTyped, PlanIsOneState
<1> USE <1>0 DEF ProfileIsHonest, StageIsHonest, OldIsKept, ProfileSurvivesImport, ComparePlaces,
        AsidePlaces, StagedPlaces
<1>1. CASE CommitBegins
  <2>1. /\ pc = "idle" /\ pc' = "compare" /\ UNCHANGED <<old, recreated>>
        /\ rollback' = Absent /\ stage' = Absent
        /\ profile' = IF profile = Absent /\ rollback # Absent THEN rollback ELSE profile
    BY <1>1 DEF CommitBegins, Idle
  <2>2. CASE profile = Absent /\ rollback # Absent
    BY <2>1, <2>2
  <2>3. CASE ~(profile = Absent /\ rollback # Absent)
    BY <2>1, <2>3 DEF OfItsSource, KeepsOwn, FileOf, CopyOf
  <2> QED
    BY <2>2, <2>3
<1>2. CASE Compare
  <2>1. /\ UNCHANGED <<profile, stage, rollback, old, recreated>> /\ pc = "compare"
        /\ pc' \in {"idle", "stage"}
    BY <1>2 DEF Compare, Return, treesUnchanged
  <2> QED
    BY <2>1 DEF OfItsSource, KeepsOwn, FileOf, CopyOf
<1>3. CASE StageImport
  <2>1. /\ UNCHANGED <<profile, rollback>> /\ pc = "stage"
        /\ \/ /\ stage' = Merged(profile) /\ old' = profile /\ pc' = "recheck"
           \/ UNCHANGED <<stage, old, recreated>> /\ pc' = "idle"
    BY <1>3 DEF StageImport, Return
  <2>2. CASE stage' = Merged(profile) /\ old' = profile /\ pc' = "recheck"
    <3>1. /\ stage' \in Trees /\ stage'.report # Absent /\ stage'.report.choices = choices
          /\ ~stage'.returned =>
                \A f \in SourceFiles :
                   /\ stage'.files[f] \in {FileOf(profile, f), stage'.report.source[f]}
                   /\ stage'.copies[f] \in {CopyOf(profile, f), stage'.report.source[f]}
          /\ choices.collision_policy # "replace_from_v1" =>
                \A f \in SourceFiles : FileOf(profile, f) \in {Absent, stage'.files[f]}
      BY <2>2, MergedIsHonest
    <3>2. stage' # Absent /\ OfItsSource(stage)' /\ KeepsOwn(stage)'
      BY <2>2, <3>1, AbsentFacts DEF OfItsSource, KeepsOwn, FileOf, CopyOf
    <3> QED
      BY <2>1, <2>2, <3>1, <3>2
  <2>3. CASE UNCHANGED <<stage, old, recreated>> /\ pc' = "idle"
    BY <2>1, <2>3 DEF OfItsSource, KeepsOwn, FileOf, CopyOf
  <2> QED
    BY <2>1, <2>2, <2>3
<1>4. CASE Recheck
  <2>1. /\ UNCHANGED <<profile, rollback, old, recreated>> /\ pc = "recheck"
        /\ \/ stage' = stage /\ pc' = "put_aside"
           \/ stage' = Absent /\ pc' = "idle"
    BY <1>4 DEF Recheck, Return
  <2> QED
    BY <2>1 DEF OfItsSource, KeepsOwn, FileOf, CopyOf
<1>5. CASE PutAside
  <2>1. /\ UNCHANGED <<stage, old, recreated>> /\ pc = "put_aside"
        /\ \/ UNCHANGED <<profile, rollback>> /\ pc' = "idle"
           \/ rollback' = profile /\ profile' = Absent /\ pc' = "activate"
    BY <1>5 DEF PutAside, Return
  <2> QED
    BY <2>1 DEF OfItsSource, KeepsOwn, FileOf, CopyOf
<1>6. CASE Activate
  <2>1. /\ UNCHANGED <<old, recreated>> /\ pc = "activate"
        /\ \/ profile' = stage /\ stage' = Absent /\ UNCHANGED rollback /\ pc' = "drop_rollback"
           \/ profile' = rollback /\ rollback' = Absent /\ UNCHANGED stage /\ pc' = "idle"
           \/ UNCHANGED <<profile, rollback, stage>> /\ pc' = "idle"
    BY <1>6 DEF Activate, Return
  <2> QED
    BY <2>1 DEF OfItsSource, KeepsOwn, FileOf, CopyOf
<1>7. CASE DropRollback
  <2>1. /\ UNCHANGED <<profile, stage, old, recreated>> /\ pc = "drop_rollback" /\ pc' = "idle"
        /\ rollback' \in {Absent, rollback}
    BY <1>7 DEF DropRollback, Return
  <2> QED
    BY <2>1 DEF OfItsSource, KeepsOwn, FileOf, CopyOf
<1> QED
  BY <1>1, <1>2, <1>3, <1>4, <1>5, <1>6, <1>7 DEF CommitStep

(* A process that dies leaves the trees as they are; no repair touches them. *)
RepairStep ==
    \/ BackupBegins \/ WriteManifest \/ RestoreBegins \/ RestoreEnds
    \/ \E f \in SourceFiles : BackupFile(f) \/ RestoreFile(f)
    \/ \E v \in Versions : MarkPending(v)
    \/ Upgrade \/ StartApplication \/ Reinstall \/ DamageBundle

RepairPlaces == {"idle", "backup", "restore"}

LEMMA RepairLeavesImport ==
  ASSUME ImportInv, RepairStep \/ Kill \/ UNCHANGED vars PROVE ImportInv'
<1>1. CASE RepairStep
  <2>1. UNCHANGED import /\ pc' \in RepairPlaces
    BY <1>1 DEF RepairStep, BackupBegins, WriteManifest, RestoreBegins, RestoreEnds, BackupFile,
       RestoreFile, MarkPending, Upgrade, StartApplication, Reinstall, DamageBundle,
       recoveryUnchanged, Idle, Return, RepairPlaces
  <2>2. UNCHANGED treesUnchanged /\ pc' \notin ImportPlaces
    BY <2>1 DEF import, treesUnchanged, RepairPlaces, ImportPlaces, ComparePlaces, AsidePlaces,
       StagedPlaces
  <2>3. ImportTyped' /\ SnapshotIsOrdered' /\ PlanIsOneState'
    BY <2>1 DEF import, RepairPlaces, ImportInv, ImportTyped, SnapshotIsOrdered, PlanIsOneState
  <2> QED
    BY <2>2, <2>3, TreesFrame DEF ImportInv
<1>2. CASE Kill
  <2>1. UNCHANGED <<source, writes>> /\ UNCHANGED treesUnchanged /\ pc' = "idle" /\ plan' = Absent
    BY <1>2 DEF Kill, Return, importUnchanged
  <2>2. ImportTyped' /\ SnapshotIsOrdered' /\ PlanIsOneState' /\ pc' \notin ImportPlaces
    BY <2>1 DEF treesUnchanged, ImportInv, ImportTyped, SnapshotIsOrdered, PlanIsOneState,
       ImportPlaces, ComparePlaces, AsidePlaces, StagedPlaces
  <2> QED
    BY <2>1, <2>2, TreesFrame DEF ImportInv
<1>3. CASE UNCHANGED vars
  BY <1>3 DEF vars, import, ImportInv, ImportTyped, SnapshotIsOrdered, PlanIsOneState, CommitHasPlan,
     ProfileIsHonest, StageIsHonest, OldIsKept, ProfileSurvivesImport, OfItsSource, KeepsOwn, FileOf,
     CopyOf
<1> QED
  BY <1>1, <1>2, <1>3

-----------------------------------------------------------------------------
(* The steps of the repair verbs keep theirs *)

LEMMA InitRepair == Init => RepairInv
  BY AbsentFacts DEF Init, RepairInv, RepairTyped, BackupFollows, ManifestIsKept, RestoreFollows,
     MarkerMeansRecoverable, Versions

(* A new bundle, its files one by one, and its manifest last. *)
LEMMA BackupKeeps ==
  ASSUME ImportInv, RepairInv,
         BackupBegins \/ WriteManifest \/ \E f \in SourceFiles : BackupFile(f)
  PROVE  RepairInv'
<1> USE AbsentFacts DEF recoveryUnchanged
<1>1. CASE BackupBegins
  <2>1. /\ bundle' = [files |-> NoFiles, manifest |-> Absent, version |-> installed]
        /\ kept' = profile.files /\ profile # Absent /\ marker = Absent
        /\ damaged' = FALSE /\ todo' = SourceFiles /\ pc' = "backup"
        /\ UNCHANGED <<marker, restored, installed>>
    BY <1>1 DEF BackupBegins
  <2>2. profile.files \in Files /\ installed \in Versions
    BY <2>1 DEF ImportInv, ImportTyped, Trees, RepairInv, RepairTyped
  <2>3. bundle' \in Bundles /\ kept' \in Files
    BY <2>1, <2>2 DEF Bundles
  <2>4. RepairTyped'
    BY <2>1, <2>3 DEF RepairInv, RepairTyped
  <2> QED
    BY <2>1, <2>3, <2>4 DEF RepairInv, BackupFollows, ManifestIsKept, RestoreFollows,
       MarkerMeansRecoverable
<1>2. CASE WriteManifest
  <2>1. /\ pc = "backup" /\ todo = {} /\ bundle' = [bundle EXCEPT !.manifest = bundle.files]
        /\ pc' = "idle" /\ todo' = {} /\ UNCHANGED <<kept, damaged, marker, restored, installed>>
    BY <1>2 DEF WriteManifest, Return
  <2>2. /\ bundle \in Bundles /\ kept \in Files /\ marker = Absent
        /\ \A f \in SourceFiles : bundle.files[f] = kept[f]
    BY <2>1 DEF RepairInv, RepairTyped, BackupFollows
  <2>3. bundle.files = kept
    BY <2>2 DEF Bundles, Files
  <2>4. bundle' \in Bundles /\ bundle'.files = kept /\ bundle'.manifest = kept
    BY <2>1, <2>2, <2>3 DEF Bundles
  <2>5. RepairTyped'
    BY <2>1, <2>4 DEF RepairInv, RepairTyped
  <2> QED
    BY <2>1, <2>2, <2>4, <2>5 DEF RepairInv, BackupFollows, ManifestIsKept, RestoreFollows,
       MarkerMeansRecoverable
<1>3. ASSUME NEW g \in SourceFiles, BackupFile(g) PROVE RepairInv'
  <2>1. /\ pc = "backup" /\ UNCHANGED <<kept, damaged, marker, restored, installed>>
        /\ \/ /\ bundle' = [bundle EXCEPT !.files[g] = kept[g]]
              /\ todo' = todo \ {g} /\ pc' = "backup"
           \/ UNCHANGED bundle /\ pc' = "idle" /\ todo' = {}
    BY <1>3 DEF BackupFile, Return
  <2>2. /\ bundle \in Bundles /\ kept \in Files /\ marker = Absent
        /\ bundle.manifest = Absent
        /\ \A f \in SourceFiles \ todo : bundle.files[f] = kept[f]
    BY <2>1 DEF RepairInv, RepairTyped, BackupFollows
  <2>3. /\ bundle' \in Bundles /\ bundle'.manifest = Absent
        /\ pc' = "backup" => \A f \in SourceFiles \ todo' : bundle'.files[f] = kept[f]
    BY <2>1, <2>2 DEF Bundles, Files
  <2>4. RepairTyped'
    BY <2>1, <2>3 DEF RepairInv, RepairTyped
  <2> QED
    BY <2>1, <2>2, <2>3, <2>4 DEF RepairInv, BackupFollows, ManifestIsKept, RestoreFollows,
       MarkerMeansRecoverable
<1> QED
  BY <1>1, <1>2, <1>3

(* A bundle that verifies holds the profile it was made of. *)
LEMMA VerifiedIsKept ==
  ASSUME RepairInv, verify_recovery_bundle
  PROVE  /\ bundle # Absent /\ bundle.manifest # Absent /\ bundle.files = bundle.manifest
         /\ bundle.files = kept /\ kept \in Files
  BY DEF RepairInv, RepairTyped, ManifestIsKept, verify_recovery_bundle

LEMMA RestoreKeeps ==
  ASSUME RepairInv,
         RestoreBegins \/ RestoreEnds \/ \E f \in SourceFiles : RestoreFile(f)
  PROVE  RepairInv'
<1>0. UNCHANGED <<bundle, kept, damaged, marker, installed>> /\ pc' # "backup"
  BY DEF recoveryUnchanged, RestoreBegins, RestoreEnds, RestoreFile, Return
<1>1. BackupFollows' /\ ManifestIsKept' /\ MarkerMeansRecoverable'
  BY <1>0 DEF RepairInv, BackupFollows, ManifestIsKept, MarkerMeansRecoverable,
     verify_recovery_bundle
<1>2. RepairTyped' /\ RestoreFollows'
  <2>1. CASE RestoreBegins
    <3>1. /\ restored = NoFiles /\ UNCHANGED restored /\ verify_recovery_bundle
          /\ todo' = {f \in SourceFiles : bundle.manifest[f] # Absent}
      BY <2>1 DEF RestoreBegins
    <3>2. \A f \in SourceFiles \ todo' : restored'[f] = kept'[f]
      BY <1>0, <3>1, VerifiedIsKept, AbsentFacts
    <3> QED
      BY <1>0, <3>1, <3>2, VerifiedIsKept DEF RepairInv, RepairTyped, RestoreFollows
  <2>2. CASE RestoreEnds
    BY <1>0, <2>2 DEF RestoreEnds, Return, RepairInv, RepairTyped, RestoreFollows
  <2>3. ASSUME NEW g \in SourceFiles, RestoreFile(g) PROVE RepairTyped' /\ RestoreFollows'
    <3>1. /\ pc = "restore"
          /\ \/ /\ restored' = [restored EXCEPT ![g] = bundle.files[g]]
                /\ todo' = todo \ {g}
             \/ UNCHANGED restored /\ pc' = "idle" /\ todo' = {}
      BY <2>3 DEF RestoreFile, Return
    <3>2. /\ bundle \in Bundles /\ bundle.manifest # Absent /\ bundle # Absent
          /\ bundle.files = bundle.manifest /\ bundle.files = kept
          /\ \A f \in SourceFiles \ todo : restored[f] = kept[f]
          /\ restored \in Files /\ todo \subseteq SourceFiles
      BY <3>1 DEF RepairInv, RepairTyped, RestoreFollows, ManifestIsKept
    <3>3. /\ restored' \in Files /\ todo' \subseteq SourceFiles
          /\ pc' = "restore" => \A f \in SourceFiles \ todo' : restored'[f] = kept[f]
      BY <3>1, <3>2 DEF Bundles, Files
    <3> QED
      BY <1>0, <3>2, <3>3 DEF RepairInv, RepairTyped, RestoreFollows
  <2> QED
    BY <2>1, <2>2, <2>3
<1> QED
  BY <1>1, <1>2 DEF RepairInv

(* The marker, the installer and what happens to a bundle that nobody uses. *)
LEMMA MarkerKeeps ==
  ASSUME RepairInv,
         \/ \E v \in Versions : MarkPending(v)
         \/ Upgrade \/ StartApplication \/ Reinstall \/ DamageBundle
  PROVE  RepairInv'
<1>0. /\ pc = "idle" /\ UNCHANGED <<pc, todo, kept, restored>>
      /\ ~DamageBundle => UNCHANGED <<bundle, damaged>>
  BY DEF MarkPending, Upgrade, StartApplication, Reinstall, DamageBundle, Idle, recoveryUnchanged
<1>1. CASE \E v \in Versions : MarkPending(v)
  <2>1. /\ verify_recovery_bundle /\ marker' \in Versions /\ marker' # bundle.version
        /\ UNCHANGED <<bundle, damaged, installed>>
    BY <1>1 DEF MarkPending, recoveryUnchanged
  <2> QED
    BY <1>0, <2>1, VerifiedIsKept DEF RepairInv, RepairTyped, BackupFollows, ManifestIsKept,
       RestoreFollows, MarkerMeansRecoverable, verify_recovery_bundle
<1>2. CASE Upgrade \/ StartApplication \/ Reinstall
  <2>1. UNCHANGED <<bundle, damaged>> /\ marker' \in {marker, Absent} /\ installed' \in Versions
    <3>1. CASE Upgrade
      BY <3>1 DEF Upgrade, RepairInv, RepairTyped, Versions
    <3>2. CASE StartApplication
      BY <3>2 DEF StartApplication, RepairInv, RepairTyped, recoveryUnchanged
    <3>3. CASE Reinstall
      BY <3>3 DEF Reinstall, verify_recovery_bundle, RepairInv, RepairTyped, Bundles
    <3> QED
      BY <1>2, <3>1, <3>2, <3>3
  <2> QED
    BY <1>0, <2>1 DEF RepairInv, RepairTyped, BackupFollows, ManifestIsKept, RestoreFollows,
       MarkerMeansRecoverable, verify_recovery_bundle
<1>3. CASE DamageBundle
  <2>1. PICK g \in SourceFiles : bundle' = [bundle EXCEPT !.files[g] = Absent]
    BY <1>3 DEF DamageBundle
  <2>2. bundle \in Bundles /\ damaged' = TRUE /\ UNCHANGED <<marker, installed>>
    BY <1>3 DEF DamageBundle, RepairInv, RepairTyped, recoveryUnchanged
  <2>3. bundle' \in Bundles /\ bundle'.manifest = bundle.manifest /\ bundle # Absent
    BY <2>1, <2>2, AbsentFacts DEF Bundles, Files, Bytes
  <2> QED
    BY <1>0, <2>2, <2>3 DEF RepairInv, RepairTyped, BackupFollows, ManifestIsKept, RestoreFollows,
       MarkerMeansRecoverable
<1> QED
  BY <1>1, <1>2, <1>3

(* An import leaves the bundle alone, and no verb is in the middle of it. *)
LEMMA ImportLeavesRepair ==
  ASSUME RepairInv, ImportStep \/ Kill \/ UNCHANGED vars PROVE RepairInv'
<1>1. UNCHANGED recovery /\ todo' \subseteq SourceFiles
  <2>1. CASE ImportStep
    BY <2>1 DEF ImportStep, importUnchanged, commitUnchanged, Return, SourceChanges, InspectBegins,
       InspectEnds, CommitBegins, Compare, StageImport, Recheck, PutAside, Activate, DropRollback,
       DropPlan, RecreateProfile, SnapshotFile, RepairInv, RepairTyped
  <2>2. CASE Kill \/ UNCHANGED vars
    BY <2>2 DEF Kill, Return, importUnchanged, vars, RepairInv, RepairTyped
  <2> QED
    BY <2>1, <2>2
<1>2. pc' \notin {"backup", "restore"} \/ UNCHANGED <<pc, todo>>
  <2>1. CASE ImportStep
    BY <2>1 DEF ImportStep, Return, SourceChanges, InspectBegins,
       InspectEnds, CommitBegins, Compare, StageImport, Recheck, PutAside, Activate, DropRollback,
       DropPlan, RecreateProfile, SnapshotFile, Idle
  <2>2. CASE Kill \/ UNCHANGED vars
    BY <2>2 DEF Kill, Return, vars
  <2> QED
    BY <2>1, <2>2
<1> QED
  BY <1>1, <1>2 DEF recovery, RepairInv, RepairTyped, BackupFollows, ManifestIsKept, RestoreFollows,
     MarkerMeansRecoverable, verify_recovery_bundle

-----------------------------------------------------------------------------
(* The theorems *)

LEMMA PlacesStep == Places /\ [Next]_vars => Places'
  BY DEF Places, ImportPlaces, ComparePlaces, AsidePlaces, StagedPlaces, Next, vars, Return,
     SourceChanges, InspectBegins, InspectEnds, CommitBegins, Compare, StageImport, Recheck, PutAside, Activate, DropRollback,
     DropPlan, RecreateProfile, SnapshotFile, BackupBegins, WriteManifest, RestoreBegins,
     RestoreEnds, BackupFile,
     RestoreFile, MarkPending, Upgrade, StartApplication, Reinstall, DamageBundle, Kill

LEMMA RecoveryInvariant == Spec => []RecoveryInv
<1>1. Init => RecoveryInv
  BY InitImport, InitRepair DEF RecoveryInv, Places, Init
<1>2. RecoveryInv /\ [Next]_vars => RecoveryInv'
  <2> SUFFICES ASSUME RecoveryInv, [Next]_vars PROVE ImportInv' /\ RepairInv'
    BY PlacesStep DEF RecoveryInv
  <2> USE DEF RecoveryInv
  <2>1. CASE ImportStep
    <3>1. ImportInv'
      BY <2>1, SourceChangesKeeps, InspectKeeps, RecreateKeeps, CommitKeeps
         DEF ImportStep, CommitStep
    <3> QED
      BY <2>1, <3>1, ImportLeavesRepair
  <2>2. CASE RepairStep
    <3>1. RepairInv'
      BY <2>2, BackupKeeps, RestoreKeeps, MarkerKeeps DEF RepairStep
    <3> QED
      BY <2>2, <3>1, RepairLeavesImport
  <2>3. CASE Kill \/ UNCHANGED vars
    BY <2>3, RepairLeavesImport, ImportLeavesRepair
  <2> QED
    BY <2>1, <2>2, <2>3 DEF Next, ImportStep, RepairStep
<1> QED
  BY <1>1, <1>2, PTL DEF Spec

(* Maintenance is sound (importer.rs, recovery.rs): an import is of one state  *)
(* of its source, keeps what the policy keeps and leaves the old profile or    *)
(* the import, and a pending update keeps a backup that restores: whatever is  *)
(* imported and chosen, however often the v1 application writes, whatever      *)
(* fails and dies.  Excepted are the imports whose source was written back     *)
(* while it was copied, and the profile that the application replaced while it *)
(* lay aside.                                                                  *)
THEOREM MaintenanceStaysSound == Spec => []MaintenanceIsSound
<1>1. RecoveryInv => MaintenanceIsSound
  <2> SUFFICES ASSUME RecoveryInv PROVE MaintenanceIsSound
    OBVIOUS
  <2> USE DEF RecoveryInv
  <2>1. TypeOK
    BY DEF TypeOK, ImportInv, ImportTyped, RepairInv, RepairTyped, Places, ImportPlaces, ComparePlaces,
       AsidePlaces, StagedPlaces
  <2>2. ImportedWasTheSource
    BY DEF ImportedWasTheSource, ImportInv, ProfileIsHonest, OfItsSource, FileOf, CopyOf
  <2>3. OwnFilesAreKept
    BY DEF OwnFilesAreKept, ImportInv, ProfileIsHonest, KeepsOwn
  <2> QED
    BY <2>1, <2>2, <2>3 DEF MaintenanceIsSound, ImportInv, RepairInv
<1> QED
  BY <1>1, RecoveryInvariant, PTL

(* A restore that reports success wrote exactly the profile its bundle was     *)
(* made of (recovery.rs restore_recovery_bundle), wherever the backup was cut  *)
(* short before and whatever was damaged since.                                *)
THEOREM RestoreIsExact == Spec => RestoredIsTheBackup
<1> DEFINE Exact == pc = "restore" /\ pc' = "idle" /\ outcome' = "restored" => restored' = kept
<1>1. RecoveryInv /\ [Next]_vars => [Exact]_vars
  <2> SUFFICES ASSUME RecoveryInv, Next, pc = "restore", pc' = "idle", outcome' = "restored"
               PROVE  restored' = kept
    OBVIOUS
  <2>1. RestoreEnds
    BY DEF Next, Return, SourceChanges, InspectBegins, InspectEnds, CommitBegins, Compare,
       StageImport, Recheck, PutAside, Activate, DropRollback, DropPlan, RecreateProfile, SnapshotFile,
       BackupBegins, WriteManifest, RestoreBegins, BackupFile, RestoreFile, MarkPending, Upgrade,
       StartApplication, Reinstall, DamageBundle, Kill, Idle
  <2>2. /\ todo = {} /\ UNCHANGED restored /\ restored \in Files
        /\ kept \in Files /\ \A f \in SourceFiles : restored[f] = kept[f]
    BY <2>1 DEF RestoreEnds, RecoveryInv, RepairInv, RepairTyped, RestoreFollows, ManifestIsKept
  <2> QED
    BY <2>2 DEF Files
<1> QED
  BY <1>1, RecoveryInvariant, PTL DEF Spec, RestoredIsTheBackup
=============================================================================
