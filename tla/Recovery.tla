------------------------------ MODULE Recovery ------------------------------
(* The repair verbs and the importer of an older profile: a recovery bundle   *)
(* written file by file and verified, the marker of a pending update and the  *)
(* health check that clears it, the restore into an empty directory, and the  *)
(* import of a v1 profile that its own application may still be changing.     *)
(* One verb runs at a time; it may fail at any file operation and be killed   *)
(* between two of them.                                                       *)
EXTENDS Naturals, Sequences, FiniteSets

CONSTANTS
    SourceFiles,     \* what is imported: config/settings.json and presets
    Settings,        \* the one of them that is config/settings.json
    Contents,        \* what a file of the v1 application may hold
    Choices,         \* the choices a user makes of it
    Absent,          \* no such file, directory, bundle, plan or marker
    Own,             \* the bytes of a file the v2 profile already has
    MaxWrites,       \* bound on the writes of the v1 application
    MaxCommits,      \* bound on the commits tried
    MaxTroubles      \* bound on failures, kills and damage together

ASSUME FilesAssumption ==
    /\ IsFiniteSet(SourceFiles) /\ Settings \in SourceFiles
    /\ MaxWrites \in Nat /\ MaxCommits \in Nat /\ MaxTroubles \in Nat
    /\ Own \notin Contents /\ Absent # Own

VARIABLES
    source, writes,        \* the v1 files, and how often they were written
    snapshot, plan,        \* ProductionImportPlan: the copy, and the accepted one
    profile, stage, rollback, \* the destination tree and its two siblings
    old, recreated,        \* the profile the last import was staged over; the
                           \* application made a new one while it lay aside
    bundle, kept,          \* the recovery bundle, and the bytes it was made of
    marker, installed,     \* pending-update.json, and the version installed
    restored,              \* the directory of the last restore
    pc, todo,              \* the verb running, and the files left of it
    outcome, choices, commits, troubles,
    damaged,               \* the bundle was damaged after it was made
    tool                   \* "import" or "repair": one of the two runs

import == <<source, writes, snapshot, plan, profile, stage, rollback, old, recreated,
            choices, commits>>
recovery == <<bundle, kept, damaged, marker, installed, restored>>
vars == <<import, recovery, pc, todo, outcome, troubles, tool>>

Versions == {1, 2}
Bytes == Contents \cup {Own, Absent}
Files == [SourceFiles -> Bytes]

CollisionPolicies == {"keep_v2", "replace_from_v1", "rename_v1"}
ImportChoices == [settings : BOOLEAN, presets : BOOLEAN, collision_policy : CollisionPolicies]
ASSUME ChoicesAssumption == Choices \subseteq ImportChoices
DefaultChoices == [settings |-> TRUE, presets |-> TRUE, collision_policy |-> "keep_v2"]

(* A file of the source is one of its contents, or nothing that parses: it is *)
(* missing, or its application is in the middle of writing it.                *)
Sources == [SourceFiles -> Contents \cup {Absent}]
Reports == [source : Sources, choices : ImportChoices]

(* `returned`: while the files were copied, one of them was changed and then   *)
(* written back to what the first fingerprint had read.                        *)
Plans == [before : Sources, files : Sources, returned : BOOLEAN]

(* A profile: its files, the "<name> (v1).json" copies beside them, and the   *)
(* report of the import that made it, if any.                                 *)
Trees == [files : Files, copies : Files, report : Reports \cup {Absent},
          returned : BOOLEAN]
Bundles == [files : Files, manifest : Files \cup {Absent}, version : Versions]
NoFiles == [f \in SourceFiles |-> Absent]

(* Absent is none of the values it stands for the lack of. *)
ASSUME AbsentAssumption ==
    Absent \notin Contents \cup Versions \cup Reports \cup Plans
                  \cup Trees \cup Bundles \cup Files

(* A profile of the v2 application, which nothing was imported into. *)
OwnProfile(own) ==
    [files |-> [f \in SourceFiles |-> IF f \in own THEN Own ELSE Absent],
     copies |-> NoFiles, report |-> Absent, returned |-> FALSE]

Idle == pc = "idle"
Trouble == troubles < MaxTroubles /\ troubles' = troubles + 1
Smooth == UNCHANGED troubles
Return(result) == pc' = "idle" /\ todo' = {} /\ outcome' = result

Init ==
    /\ source \in Sources /\ writes = 0
    /\ snapshot = Absent /\ plan = Absent
    /\ \E own \in SUBSET SourceFiles : profile \in {Absent, OwnProfile(own)}
    /\ stage = Absent /\ rollback = Absent /\ old = Absent /\ recreated = FALSE
    /\ bundle = Absent /\ kept = Absent /\ marker = Absent /\ installed = 1
    /\ restored = NoFiles
    /\ pc = "idle" /\ todo = {} /\ outcome = "none"
    /\ choices = DefaultChoices /\ commits = 0 /\ troubles = 0 /\ damaged = FALSE
    /\ tool \in {"import", "repair"}

-----------------------------------------------------------------------------
(* ProductionImportPlan::inspect. *)

treesUnchanged == <<profile, stage, rollback, old, recreated, choices, commits>>

(* The v1 application writes one of its files: with new contents, or by       *)
(* cutting it and writing it again, which is two writes.                      *)
SourceChanges ==
    /\ tool = "import" /\ writes < MaxWrites
    /\ writes' = writes + 1
    /\ \E f \in SourceFiles, c \in Contents \cup {Absent} :
          /\ c # source[f]
          /\ source' = [source EXCEPT ![f] = c]
          /\ IF pc = "snapshot" /\ c = snapshot.before[f]
             THEN snapshot' = [snapshot EXCEPT !.returned = TRUE]
             ELSE UNCHANGED snapshot
    /\ UNCHANGED <<plan, treesUnchanged, recovery, pc, todo, outcome, troubles, tool>>

importUnchanged == <<source, writes, recovery, tool>>

(* `before` is the fingerprint of the surface; the files are copied one by   *)
(* one after it.  Equal fingerprints are equal contents.                     *)
InspectBegins ==
    /\ tool = "import" /\ Idle /\ plan = Absent
    /\ snapshot' = [before |-> source, files |-> NoFiles, returned |-> FALSE]
    /\ pc' = "snapshot" /\ todo' = SourceFiles
    /\ UNCHANGED <<importUnchanged, plan, treesUnchanged, outcome, troubles>>

SnapshotFile(f) ==
    /\ pc = "snapshot" /\ f \in todo
    /\ snapshot' = [snapshot EXCEPT !.files[f] = source[f]]
    /\ todo' = todo \ {f}
    /\ UNCHANGED <<importUnchanged, plan, treesUnchanged, pc, outcome, troubles>>

(* The snapshot is kept only if the source reads the same afterwards.        *)
InspectEnds ==
    /\ pc = "snapshot" /\ todo = {}
    /\ \/ source = snapshot.before /\ plan' = snapshot /\ Return("inspected")
       \/ source # snapshot.before /\ UNCHANGED plan /\ Return("source_changed")
    /\ snapshot' = Absent
    /\ UNCHANGED <<importUnchanged, treesUnchanged, troubles>>

-----------------------------------------------------------------------------
(* ProductionImportPlan::commit. *)

commitUnchanged == <<importUnchanged, snapshot, commits>>

(* What an interrupted commit left is put right first: a profile that was    *)
(* only moved aside comes back, an old rollback and an old stage go.         *)
CommitBegins ==
    /\ Idle /\ plan # Absent
    /\ choices' \in Choices /\ commits < MaxCommits /\ commits' = commits + 1
    /\ IF profile = Absent /\ rollback # Absent
       THEN profile' = rollback ELSE UNCHANGED profile
    /\ rollback' = Absent /\ stage' = Absent
    /\ pc' = "compare" /\ todo' = {}
    /\ UNCHANGED <<importUnchanged, snapshot, plan, old, recreated, outcome, troubles>>

(* A source that changed since the preview is refused; an import already     *)
(* made from this source with these choices is not made again.               *)
Compare ==
    /\ pc = "compare" /\ Smooth
    /\ IF source # plan.before THEN Return("source_changed")
       ELSE IF profile # Absent
               /\ profile.report = [source |-> plan.before, choices |-> choices]
       THEN Return("imported")
       ELSE pc' = "stage" /\ UNCHANGED <<todo, outcome>>
    /\ UNCHANGED <<commitUnchanged, plan, treesUnchanged>>

Chosen(f) == IF f = Settings THEN choices.settings ELSE choices.presets

(* The stage is the profile there is, with the chosen files that parsed       *)
(* written over it as the collision policy says, and the report last.  A     *)
(* preset that is renamed overwrites the copy of an earlier import; settings *)
(* are replaced or kept, never renamed.                                      *)
Merged(tree) ==
    LET files == IF tree = Absent THEN NoFiles ELSE tree.files
        copies == IF tree = Absent THEN NoFiles ELSE tree.copies
        imported == {f \in SourceFiles : Chosen(f) /\ plan.files[f] # Absent}
        written == {f \in imported : \/ files[f] = Absent
                                     \/ choices.collision_policy = "replace_from_v1"}
        renamed == {f \in imported \ (written \cup {Settings}) :
                       choices.collision_policy = "rename_v1"}
    IN  [files |-> [f \in SourceFiles |-> IF f \in written THEN plan.files[f] ELSE files[f]],
         copies |-> [f \in SourceFiles |-> IF f \in renamed THEN plan.files[f] ELSE copies[f]],
         report |-> [source |-> plan.before, choices |-> choices],
         returned |-> plan.returned]

StageImport ==
    /\ pc = "stage"
    /\ \/ /\ Smooth /\ stage' = Merged(profile)
          /\ old' = profile /\ recreated' = FALSE
          /\ pc' = "recheck" /\ UNCHANGED <<todo, outcome>>
       \/ /\ Trouble /\ UNCHANGED <<stage, old, recreated>> /\ Return("failed")
    /\ UNCHANGED <<commitUnchanged, plan, profile, rollback, choices>>

Recheck ==
    /\ pc = "recheck" /\ Smooth
    /\ \/ source = plan.before /\ pc' = "put_aside" /\ UNCHANGED <<stage, todo, outcome>>
       \/ source # plan.before /\ stage' = Absent /\ Return("source_changed")
    /\ UNCHANGED <<commitUnchanged, plan, profile, rollback, old, recreated, choices>>

(* Mutant: the profile is removed instead of moved aside.                    *)
PutAsideRemoves ==
    /\ pc = "put_aside"
    /\ \/ Trouble /\ Return("failed") /\ UNCHANGED <<profile, rollback>>
       \/ /\ Smooth /\ profile' = Absent
          /\ pc' = "activate" /\ UNCHANGED <<rollback, todo, outcome>>
    /\ UNCHANGED <<commitUnchanged, plan, stage, old, recreated, choices>>

PutAside ==
    /\ pc = "put_aside"
    /\ \/ Trouble /\ Return("failed") /\ UNCHANGED <<profile, rollback>>
       \/ /\ Smooth /\ rollback' = profile /\ profile' = Absent
          /\ pc' = "activate" /\ UNCHANGED <<todo, outcome>>
    /\ UNCHANGED <<commitUnchanged, plan, stage, old, recreated, choices>>

(* A refused activation moves the old profile back, which may be refused too. *)
Activate ==
    /\ pc = "activate"
    /\ \/ /\ Smooth /\ profile' = stage /\ stage' = Absent
          /\ pc' = "drop_rollback" /\ UNCHANGED <<rollback, todo, outcome>>
       \/ /\ Trouble /\ UNCHANGED stage /\ Return("failed")
          /\ \/ rollback # Absent /\ profile' = rollback /\ rollback' = Absent
             \/ UNCHANGED <<profile, rollback>>
    /\ UNCHANGED <<commitUnchanged, plan, old, recreated, choices>>

DropRollback ==
    /\ pc = "drop_rollback"
    /\ \/ Smooth /\ rollback' = Absent /\ Return("imported")
       \/ Trouble /\ UNCHANGED rollback /\ Return("failed")
    /\ UNCHANGED <<commitUnchanged, plan, profile, stage, old, recreated, choices>>

(* Drop for ProductionImportPlan. *)
DropPlan ==
    /\ Idle /\ plan # Absent
    /\ plan' = Absent
    /\ UNCHANGED <<commitUnchanged, treesUnchanged, pc, todo, outcome, troubles>>

(* The application starts without a profile, and makes one of its own.       *)
RecreateProfile ==
    /\ tool = "import" /\ Idle /\ profile = Absent
    /\ \E own \in SUBSET {Settings} : profile' = OwnProfile(own)
    /\ recreated' = (recreated \/ rollback # Absent)
    /\ UNCHANGED <<commitUnchanged, plan, stage, rollback, old, choices, pc, todo,
                   outcome, troubles>>

-----------------------------------------------------------------------------
(* The repair verbs. *)

recoveryUnchanged == <<import, installed, tool>>

(* create_recovery_bundle wants a new directory; the manifest is the last    *)
(* file it writes, after the bytes it lists.  The bundle here is the one the *)
(* marker names, so none is made while a marker stands.                      *)
BackupBegins ==
    /\ tool = "repair" /\ Idle /\ profile # Absent /\ marker = Absent
    /\ damaged' = FALSE
    /\ bundle' = [files |-> NoFiles, manifest |-> Absent, version |-> installed]
    /\ kept' = profile.files
    /\ pc' = "backup" /\ todo' = SourceFiles
    /\ UNCHANGED <<recoveryUnchanged, marker, restored, outcome, troubles>>

BackupFile(f) ==
    /\ pc = "backup" /\ f \in todo
    /\ \/ /\ Smooth /\ bundle' = [bundle EXCEPT !.files[f] = kept[f]]
          /\ todo' = todo \ {f} /\ UNCHANGED <<pc, outcome>>
       \/ Trouble /\ Return("failed") /\ UNCHANGED bundle
    /\ UNCHANGED <<recoveryUnchanged, kept, damaged, marker, restored>>

WriteManifest ==
    /\ pc = "backup" /\ todo = {}
    /\ bundle' = [bundle EXCEPT !.manifest = bundle.files]
    /\ Return("backed_up")
    /\ UNCHANGED <<recoveryUnchanged, kept, damaged, marker, restored, troubles>>

(* verify_recovery_bundle: there is a manifest and every recorded file has   *)
(* the bytes it records.                                                     *)
(* Mutant: the manifest's presence is enough.                                *)
VerifyPresence == bundle # Absent /\ bundle.manifest # Absent

verify_recovery_bundle ==
    bundle # Absent /\ bundle.manifest # Absent /\ bundle.files = bundle.manifest

(* mark_update_pending: one marker at a time, for another version than the   *)
(* one the bundle restores.                                                  *)
MarkPending(target) ==
    /\ Idle /\ verify_recovery_bundle
    /\ target # bundle.version /\ marker = Absent
    /\ marker' = target /\ outcome' = "marked"
    /\ UNCHANGED <<recoveryUnchanged, bundle, kept, damaged, restored, pc, todo, troubles>>

(* The installer of another version runs. *)
Upgrade ==
    /\ tool = "repair" /\ Idle /\ installed' = 3 - installed
    /\ UNCHANGED <<import, tool, bundle, kept, damaged, marker, restored, pc, todo, outcome,
                   troubles>>

(* clear_pending_update_after_health_checks: without a marker the start goes *)
(* on; a marker for another version, or a bundle that no longer verifies,    *)
(* ends it.                                                                  *)
StartApplication ==
    /\ tool = "repair" /\ Idle
    /\ \/ marker = Absent /\ outcome' = "started" /\ UNCHANGED marker
       \/ /\ marker = installed /\ verify_recovery_bundle
          /\ marker' = Absent /\ outcome' = "started"
       \/ /\ marker # Absent /\ ~(marker = installed /\ verify_recovery_bundle)
          /\ outcome' = "refused" /\ UNCHANGED marker
    /\ UNCHANGED <<recoveryUnchanged, bundle, kept, damaged, restored, pc, todo, troubles>>

(* restore_recovery_bundle: into an empty directory, file by file. *)
RestoreBegins ==
    /\ Idle /\ verify_recovery_bundle /\ restored = NoFiles
    /\ pc' = "restore" /\ todo' = {f \in SourceFiles : bundle.manifest[f] # Absent}
    /\ UNCHANGED <<recoveryUnchanged, bundle, kept, damaged, marker, restored, outcome,
                   troubles>>

RestoreFile(f) ==
    /\ pc = "restore" /\ f \in todo
    /\ \/ /\ Smooth /\ restored' = [restored EXCEPT ![f] = bundle.files[f]]
          /\ todo' = todo \ {f} /\ UNCHANGED <<pc, outcome>>
       \/ Trouble /\ Return("failed") /\ UNCHANGED restored
    /\ UNCHANGED <<recoveryUnchanged, bundle, kept, damaged, marker>>

RestoreEnds ==
    /\ pc = "restore" /\ todo = {}
    /\ Return("restored")
    /\ UNCHANGED <<recoveryUnchanged, bundle, kept, damaged, marker, restored, troubles>>

(* reinstall launches the installer the bundle holds, once it verifies. *)
Reinstall ==
    /\ Idle /\ verify_recovery_bundle
    /\ installed' = bundle.version /\ outcome' = "reinstalled"
    /\ UNCHANGED <<import, tool, bundle, kept, damaged, marker, restored, pc, todo, troubles>>

(* A file of the bundle is damaged while no verb runs. *)
DamageBundle ==
    /\ Idle /\ bundle # Absent /\ Trouble
    /\ \E f \in SourceFiles :
          /\ bundle.files[f] # Absent
          /\ bundle' = [bundle EXCEPT !.files[f] = Absent]
    /\ damaged' = TRUE
    /\ UNCHANGED <<recoveryUnchanged, kept, marker, restored, pc, todo, outcome>>

Kill ==
    /\ ~Idle /\ Trouble
    /\ Return("killed")
    /\ plan' = Absent /\ snapshot' = Absent
    /\ UNCHANGED <<importUnchanged, treesUnchanged>>

Next ==
    \/ SourceChanges \/ InspectBegins \/ InspectEnds \/ CommitBegins \/ Compare
    \/ StageImport \/ Recheck \/ PutAside \/ Activate \/ DropRollback \/ DropPlan
    \/ RecreateProfile \/ BackupBegins \/ WriteManifest \/ RestoreBegins \/ RestoreEnds
    \/ \E f \in SourceFiles : SnapshotFile(f) \/ BackupFile(f) \/ RestoreFile(f)
    \/ \E v \in Versions : MarkPending(v)
    \/ Upgrade \/ StartApplication \/ Reinstall \/ DamageBundle \/ Kill

Spec == Init /\ [][Next]_vars

-----------------------------------------------------------------------------
TypeOK ==
    /\ source \in Sources /\ writes \in 0 .. MaxWrites
    /\ {profile, stage, rollback, old} \subseteq Trees \cup {Absent}
    /\ marker \in Versions \cup {Absent} /\ installed \in Versions
    /\ restored \in Files /\ todo \subseteq SourceFiles
    /\ pc \in {"idle", "snapshot", "compare", "stage", "recheck", "put_aside",
               "activate", "drop_rollback", "backup", "restore"}

FileOf(tree, f) == IF tree = Absent THEN Absent ELSE tree.files[f]
CopyOf(tree, f) == IF tree = Absent THEN Absent ELSE tree.copies[f]

(* An imported profile is the one it was staged over and the source its report *)
(* names: no file of another state of a source that changed while it was read  *)
(* (ProductionImportPlan::inspect and commit).  The fingerprints see contents, *)
(* so a file written back to what it was while the others were copied is not   *)
(* seen, nor a file rewritten in place with the same contents: `returned`      *)
(* excepts the plans made in such a time.                                      *)
ImportedWasTheSource ==
    profile # Absent /\ profile.report # Absent /\ ~profile.returned =>
        \A f \in SourceFiles :
            /\ profile.files[f] \in {FileOf(old, f), profile.report.source[f]}
            /\ profile.copies[f] \in {CopyOf(old, f), profile.report.source[f]}

(* Only the policy that replaces changes a file the profile had, whatever the  *)
(* source (the collision policies of commit).  The copies of an earlier import *)
(* are not kept: rename_v1 overwrites them.                                    *)
OwnFilesAreKept ==
    /\ profile # Absent /\ profile # old /\ profile.report # Absent
    /\ profile.report.choices.collision_policy # "replace_from_v1"
    => \A f \in SourceFiles : FileOf(old, f) \in {Absent, profile.files[f]}

(* A profile that an import was staged over is there afterwards, at its place  *)
(* or moved aside, or the import is: whatever failed and wherever the process  *)
(* died.  Excepted is the application that starts while the profile lies moved *)
(* aside and makes a new one: the next commit takes that for the profile and   *)
(* removes the old one (importer.rs:344).                                      *)
ProfileSurvivesImport ==
    old # Absent /\ ~recreated =>
        \/ old \in {profile, rollback}
        \/ profile # Absent /\ profile.report # Absent

(* A pending update can be undone: as long as the marker is there and the    *)
(* bundle was not damaged since, the bundle verifies, holds exactly the      *)
(* profile it was made of, and restores another version than the target.     *)
MarkerMeansRecoverable ==
    marker # Absent /\ ~damaged =>
        verify_recovery_bundle /\ bundle.files = kept /\ marker # bundle.version

(* A restore that reports success wrote exactly the profile the bundle was   *)
(* made of, even when the backup was cut short before or the bundle damaged. *)
RestoredIsTheBackup ==
    [][pc = "restore" /\ pc' = "idle" /\ outcome' = "restored"
          => restored' = kept]_vars

(* Maintenance is sound: an import is of one state of its source and neither   *)
(* overwrites what it was told to keep nor loses the old profile, and a        *)
(* pending update keeps a backup that restores, with the exceptions that the   *)
(* parts name.                                                                 *)
MaintenanceIsSound ==
    /\ TypeOK
    /\ ImportedWasTheSource
    /\ OwnFilesAreKept
    /\ ProfileSurvivesImport
    /\ MarkerMeansRecoverable
=============================================================================
