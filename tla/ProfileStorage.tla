--------------------------- MODULE ProfileStorage ---------------------------
(* What the desktop application keeps on disk between runs: the settings file *)
(* and its backup, the personalization file and its backup, the history       *)
(* database, and the seeds the installer left.  The commands that change them *)
(* are synchronous and run one at a time on the main thread, as jobs of       *)
(* several file operations; a finished dictation is listed and then stored by *)
(* another thread; any file operation may fail and the process may be killed  *)
(* between two of them.                                                       *)
EXTENDS Naturals, Sequences, FiniteSets, SequencesExt

CONSTANTS
    Terms,           \* dictionary entries and snippets
    LogLimit,        \* SESSION_TRANSCRIPT_LIMIT
    NoSettings,      \* the value of a settings file that holds none
    MaxDictations, MaxJobs, MaxLaunches, MaxFaults, MaxKills, MaxDamage \* bounds

ASSUME BoundsAssumption ==
    /\ IsFiniteSet(Terms) /\ Terms # {} /\ LogLimit \in Nat \ {0}
    /\ {MaxDictations, MaxJobs, MaxLaunches, MaxFaults, MaxKills, MaxDamage}
           \subseteq Nat

VARIABLES
    sfile, sbak,   \* config/settings.json and its .bak
    pfile, pbak,   \* config/personalization.json and its .bak
    rows,          \* transcript_history in data/speakeasy.sqlite3
    seeds,         \* the installer's seed files not yet consumed
    app,           \* "down", "starting" or "up"
    job,           \* the main thread: the command and the steps left of it
    mem, loadError,       \* ProfileCoordinator
    words, pendingImport, \* PersonalizationRepository
    slot, initializationError, \* HistoryCoordinator: the policy of the open
                               \* repository, and the error it started with
    log,           \* SessionTranscriptCoordinator::entries
    coordinator, registered,   \* the binding in use, and the one Windows has
    storing,       \* the dictation listed whose row is not yet written
    taken,         \* bindings another application holds
    acked, before, asked, \* the settings of the last command that succeeded,
                          \* of those before it since a reset emptied both
                          \* files, and of the last command asked
    dictations, jobs, launches, faults, kills, damage

disk == <<sfile, sbak, pfile, pbak, rows, seeds>>
profile == <<mem, loadError>>
person == <<words, pendingImport>>
history == <<slot, initializationError>>
hotkey == <<coordinator, registered, taken>>
ghosts == <<acked, before, asked>>
bounds == <<dictations, jobs, launches, faults, kills, damage>>
vars == <<disk, app, job, profile, person, history, log, hotkey, storing,
          ghosts, bounds>>

Bindings == {"ctrl_space", "ctrl_alt_d"}
NoBinding == "none"

(* The privacy settings: history off; on without the plaintext disclosure,   *)
(* which only the installer's seed can write; or on with a short or a long    *)
(* retention.                                                                 *)
HistoryModes == {"off", "unconsented", "short", "long"}

(* `other` stands for every setting that no other component reads back:      *)
(* logging, delivery, feedback, device, dock, engine and startup.             *)
Settings == [history : HistoryModes, hotkey : Bindings, other : BOOLEAN]
DefaultSettings == [history |-> "off", hotkey |-> "ctrl_space", other |-> FALSE]

permits_persistence(mode) == mode \in {"short", "long"}

Good(v) == [is |-> "good", value |-> v]
Absent == [is |-> "absent", value |-> NoSettings]
Corrupt == [is |-> "corrupt", value |-> NoSettings]
TooNew == [is |-> "newer", value |-> NoSettings]

SettingsFiles == [is : {"good"}, value : Settings] \cup {Absent, Corrupt, TooNew}
WordFiles == [is : {"good"}, value : SUBSET Terms] \cup {Absent}

SeedKinds == {"hotkey", "logging", "retention_on", "retention_off", "vocabulary"}

Rows == [id : 1 .. MaxDictations, old : BOOLEAN]
NoSlot == "none"
Idle == [kind |-> "none", todo |-> <<>>, cand |-> NoSettings, terms |-> {},
         undo |-> NoSettings]

Kinds == {"edit", "hotkey", "history", "delete", "words", "import", "reset",
          "start"}

(* SettingsStore::save, and PersonalizationRepository's write_atomic. *)
SaveSteps == <<"write_tmp", "copy_backup", "replace">>
WordSteps == <<"words_tmp", "drop_backup", "retire", "place", "sync",
               "words_commit">>

Begin(kind, todo, cand, terms) ==
    job' = [kind |-> kind, todo |-> todo, cand |-> cand, terms |-> terms,
            undo |-> [slot |-> slot, binding |-> coordinator]]

At(step) == app # "down" /\ job.todo # <<>> /\ Head(job.todo) = step

(* The next step of the command, or the command's return. *)
Advance ==
    job' = IF Len(job.todo) = 1 THEN Idle ELSE [job EXCEPT !.todo = Tail(@)]

(* The ghosts of a profile that was reported saved, or loaded. *)
Acknowledge(settings) ==
    /\ acked' = settings
    /\ before' = IF settings = acked THEN before ELSE before \cup {acked}

Fault == faults < MaxFaults /\ faults' = faults + 1
NoFault == UNCHANGED faults

Init ==
    /\ sbak = Absent /\ pfile = Absent /\ pbak = Absent
    /\ rows = {}
    /\ \/ /\ sfile = Absent
          /\ seeds \in {{"hotkey", "retention_on", "vocabulary"}, {}}
       \/ sfile = Corrupt /\ seeds = {"hotkey", "logging", "retention_off"}
    /\ app = "down" /\ job = Idle
    /\ mem = DefaultSettings /\ loadError = FALSE
    /\ words = {} /\ pendingImport = FALSE
    /\ slot = NoSlot /\ initializationError = FALSE
    /\ log = <<>>
    /\ coordinator = "ctrl_space" /\ registered = NoBinding
    /\ taken \in IF seeds = {} THEN {{}} ELSE {{}, {"ctrl_alt_d"}}
    /\ storing = <<>>
    /\ acked = DefaultSettings /\ before = {}
    /\ asked = DefaultSettings
    /\ dictations = 0 /\ jobs = 0 /\ launches = 0
    /\ faults = 0 /\ kills = 0 /\ damage = 0

-----------------------------------------------------------------------------
(* SettingsStore. *)

(* load: the primary, else the backup, else an error; the defaults only when *)
(* neither file is there.                                                    *)
(* Mutant: a corrupt profile without a backup is replaced by the defaults.   *)
LoadDefaulting ==
    IF sfile = Absent /\ sbak = Absent THEN Good(DefaultSettings)
    ELSE IF sfile.is = "good" \/ sfile = TooNew THEN sfile
    ELSE IF sbak = Absent THEN Good(DefaultSettings) ELSE sbak

load ==
    IF sfile \notin {Absent, Corrupt} THEN sfile
    ELSE IF sbak # Absent THEN sbak
    ELSE IF sfile = Absent THEN Good(DefaultSettings) ELSE Corrupt

saveUnchanged == <<pfile, pbak, rows, seeds, app, profile, person, log, storing>>

(* File::create, write_all and sync_all of settings.json.tmp; the temporary  *)
(* file is the job's candidate, which nothing reads before the rename.       *)
WriteTemporary ==
    /\ At("write_tmp") /\ Advance /\ NoFault
    /\ UNCHANGED <<sfile, sbak, history, hotkey, saveUnchanged>>

(* The primary is copied over the backup before it is replaced.              *)
CopyBackup ==
    /\ At("copy_backup") /\ Advance /\ NoFault
    /\ sbak' = IF sfile = Absent THEN sbak ELSE sfile
    /\ UNCHANGED <<sfile, history, hotkey, saveUnchanged>>

(* fs::rename over the primary: the old file or the new one, never half.     *)
Replace ==
    /\ At("replace") /\ Advance /\ NoFault
    /\ sfile' = Good(job.cand)
    /\ UNCHANGED <<sbak, history, hotkey, saveUnchanged>>

(* What a command does when its save failed: the history policy and the      *)
(* shortcut are put back, the startup ignores it, a reset stops where it is. *)
Abandon ==
    \/ /\ job.kind = "start"
       /\ job' = [job EXCEPT !.todo = SubSeq(@, SelectInSeq(@, LAMBDA s : s = "adopt"),
                                             Len(@))]
       /\ UNCHANGED <<history, hotkey>>
    \/ /\ job.kind = "history"
       /\ slot' = job.undo.slot /\ job' = Idle
       /\ UNCHANGED <<initializationError, hotkey>>
    \/ /\ job.kind = "hotkey"
       /\ coordinator' = job.undo.binding
       /\ registered' = IF job.undo.binding \in taken THEN NoBinding
                        ELSE job.undo.binding
       /\ job' = Idle /\ UNCHANGED <<taken, history>>
    \/ /\ job.kind \in {"edit", "reset"}
       /\ job' = Idle /\ UNCHANGED <<history, hotkey>>

(* A failing save: the temporary cannot be written, the copy fails with the  *)
(* backup untouched, torn or complete, or the rename is refused.             *)
SaveFails ==
    /\ \/ At("write_tmp") /\ UNCHANGED sbak
       \/ At("copy_backup") /\ sfile # Absent /\ sbak' \in {sbak, Corrupt, sfile}
       \/ At("replace") /\ UNCHANGED sbak
    /\ Fault /\ Abandon
    /\ UNCHANGED <<sfile, saveUnchanged>>

(* ProfileCoordinator::save refuses while the profile could not be loaded;   *)
(* reset_commit calls the store itself and is not refused.                   *)
SaveRefused ==
    /\ At("write_tmp") /\ loadError /\ job.kind # "reset"
    /\ NoFault /\ Abandon
    /\ UNCHANGED <<sfile, sbak, saveUnchanged>>

SaveAllowed == loadError => job.kind = "reset"

Save ==
    /\ \/ SaveAllowed /\ (WriteTemporary \/ CopyBackup \/ Replace \/ SaveFails)
       \/ SaveRefused
    /\ UNCHANGED <<ghosts, dictations, jobs, launches, kills, damage>>

-----------------------------------------------------------------------------
(* The commands that change a setting. *)

Ready == app = "up" /\ job = Idle /\ jobs < MaxJobs

commandUnchanged == <<disk, app, profile, person, history, log, storing, acked,
                      before, dictations, launches, faults, kills, damage>>

(* disk_logging_configure, auto_paste_configure, delivery_configure,         *)
(* recording_feedback_configure, capture_device_configure,                   *)
(* hud_dock_placement_configure, startup_configure, switch_engine_provider.  *)
EditSetting ==
    /\ Ready
    /\ LET cand == [mem EXCEPT !.other = ~@]
       IN  /\ Begin("edit", SaveSteps \o <<"commit">>, cand, {})
           /\ asked' = cand
    /\ jobs' = jobs + 1
    /\ UNCHANGED <<commandUnchanged, hotkey>>

(* hotkey_configure, up to the save: the old binding is given up, the        *)
(* coordinator takes the candidate, and the registration reads it.  A        *)
(* registration that fails puts the old binding back.                        *)
HotkeyConfigure(binding) ==
    /\ Ready
    /\ IF binding \in taken
       THEN /\ registered' = IF coordinator \in taken THEN NoBinding ELSE coordinator
            /\ UNCHANGED <<job, coordinator, asked>>
       ELSE LET cand == [mem EXCEPT !.hotkey = binding]
            IN  /\ coordinator' = binding /\ registered' = binding
                /\ Begin("hotkey", SaveSteps \o <<"commit">>, cand, {})
                /\ asked' = cand
    /\ jobs' = jobs + 1
    /\ UNCHANGED <<commandUnchanged, taken>>

(* history_configure: refused while the database could not be opened.  With  *)
(* an open repository its policy and its rows go first, under the lock of    *)
(* the slot; with an empty slot only the profile is saved.                   *)
HistoryConfigure(mode) ==
    /\ Ready /\ ~initializationError /\ mode # "unconsented"
    /\ LET cand == [mem EXCEPT !.history = mode]
           first == IF slot = NoSlot THEN <<>> ELSE <<"policy", "retain">>
       IN  /\ Begin("history", first \o SaveSteps \o <<"unlock", "commit">>,
                    cand, {})
           /\ asked' = cand
    /\ jobs' = jobs + 1
    /\ UNCHANGED <<commandUnchanged, hotkey>>

(* The rows apply_retention keeps under a policy. *)
Retained(mode) == IF mode = "short" THEN {r \in rows : ~r.old} ELSE rows

SetPolicy ==
    /\ At("policy") /\ Advance
    /\ slot' = job.cand.history
    /\ UNCHANGED <<disk, app, profile, person, initializationError, log, hotkey,
                   storing, ghosts, bounds>>

(* apply_retention; its failure puts the previous policy back. *)
ApplyRetention ==
    /\ At("retain")
    /\ \/ Advance /\ rows' = Retained(slot) /\ NoFault /\ UNCHANGED slot
       \/ Fault /\ job' = Idle /\ slot' = job.undo.slot /\ UNCHANGED rows
    /\ UNCHANGED <<sfile, sbak, pfile, pbak, seeds, app, profile, person,
                   initializationError, log, hotkey, storing, ghosts,
                   dictations, jobs, launches, kills, damage>>

DropSlotLock ==
    /\ At("unlock") /\ Advance
    /\ UNCHANGED <<disk, app, profile, person, history, log, hotkey, storing,
                   ghosts, bounds>>

(* The cached profile is assigned once the file has it. *)
Commit ==
    /\ At("commit") /\ Advance
    /\ mem' = job.cand /\ Acknowledge(job.cand)
    /\ UNCHANGED <<disk, app, loadError, person, history, log, hotkey, storing,
                   asked, bounds>>

-----------------------------------------------------------------------------
(* PersonalizationRepository. *)

(* Every change proposes a whole new state and writes it. *)
ProposeWords(proposed) ==
    /\ Ready
    /\ Begin("words", WordSteps, NoSettings, proposed)
    /\ jobs' = jobs + 1
    /\ UNCHANGED <<commandUnchanged, hotkey, asked>>

(* record_explicit_correction, add_imported_terms, upsert_snippet: an entry  *)
(* with the same id is replaced.                                             *)
AddWord == \E t \in Terms : ProposeWords(words \cup {t})

(* delete_dictionary and delete_snippet, which write nothing when the id is  *)
(* unknown, and reset.                                                       *)
RemoveWords ==
    \/ \E t \in words : ProposeWords(words \ {t})
    \/ ProposeWords({})

(* preview_import keeps the plan it parsed; commit_import merges it into the *)
(* state of the moment, and forgets it only once the merge is written.       *)
ImportPreview ==
    /\ Ready /\ ~pendingImport
    /\ pendingImport' = TRUE
    /\ UNCHANGED <<disk, app, job, profile, words, history, log, hotkey, storing,
                   ghosts, bounds>>

ImportCommit ==
    /\ Ready /\ pendingImport
    /\ Begin("import", WordSteps, NoSettings, Terms)
    /\ jobs' = jobs + 1
    /\ UNCHANGED <<commandUnchanged, hotkey, asked>>

wordsUnchanged == <<sfile, sbak, rows, seeds, app, profile, history, log, hotkey,
                    storing, ghosts, dictations, jobs, launches, kills, damage>>

WordsTemporary ==
    /\ At("words_tmp") /\ Advance /\ NoFault
    /\ UNCHANGED <<pfile, pbak, person, wordsUnchanged>>

(* Mutant: the file itself is removed where its backup should be.            *)
DropPrimary ==
    /\ At("drop_backup") /\ Advance /\ NoFault
    /\ pbak' = Absent /\ pfile' = Absent
    /\ UNCHANGED <<person, wordsUnchanged>>

DropBackup ==
    /\ At("drop_backup") /\ Advance /\ NoFault
    /\ pbak' = Absent
    /\ UNCHANGED <<pfile, person, wordsUnchanged>>

Retire ==
    /\ At("retire") /\ Advance /\ NoFault
    /\ IF pfile = Absent THEN UNCHANGED <<pfile, pbak>>
       ELSE pbak' = pfile /\ pfile' = Absent
    /\ UNCHANGED <<person, wordsUnchanged>>

Place ==
    /\ At("place") /\ Advance /\ NoFault
    /\ pfile' = Good(job.terms)
    /\ UNCHANGED <<pbak, person, wordsUnchanged>>

(* The state in memory follows the file, and an import is then forgotten. *)
WordsCommit ==
    /\ At("words_commit") /\ NoFault
    /\ words' = job.terms
    /\ pendingImport' = (pendingImport /\ job.kind # "import")
    /\ Advance
    /\ UNCHANGED <<pfile, pbak, wordsUnchanged>>

Sync ==
    /\ At("sync") /\ Advance /\ NoFault
    /\ UNCHANGED <<pfile, pbak, person, wordsUnchanged>>

(* A failing step ends the command with the memory as it was.  A failing     *)
(* last rename puts the backup back, which may fail too; a failing sync      *)
(* leaves the new file in place.                                             *)
WordsFail ==
    /\ Fault
    /\ \/ At("words_tmp") /\ UNCHANGED <<pfile, pbak>>
       \/ At("drop_backup") /\ pbak # Absent /\ UNCHANGED <<pfile, pbak>>
       \/ At("retire") /\ pfile # Absent /\ UNCHANGED <<pfile, pbak>>
       \/ At("place") /\ pfile' = pbak /\ pbak' = Absent
       \/ At("place") /\ pbak # Absent /\ UNCHANGED <<pfile, pbak>>
       \/ At("sync") /\ UNCHANGED <<pfile, pbak>>
    /\ job' = IF job.kind = "start"
              THEN [job EXCEPT !.todo = <<"register">>] ELSE Idle
    /\ UNCHANGED <<person, wordsUnchanged>>

WriteWords ==
    \/ WordsTemporary \/ DropBackup \/ Retire \/ Place \/ Sync \/ WordsCommit
    \/ WordsFail

-----------------------------------------------------------------------------
(* The history and the transcript list. *)

(* HistoryCoordinator holds the slot's lock through configure and delete_all. *)
SlotLocked ==
    \/ /\ job.kind = "history"
       /\ Range(job.todo) \cap {"retain", "write_tmp", "copy_backup", "replace",
                                "unlock"} # {}
       /\ ~At("policy")
    \/ job.kind = "delete" /\ At("reopen")

LastOf(s, n) == IF Len(s) <= n THEN s ELSE [i \in 1 .. n |-> s[Len(s) - n + i]]

(* publish_successful_transcript: the final is listed before it is delivered. *)
PublishTranscript ==
    /\ app = "up" /\ storing = <<>> /\ dictations < MaxDictations
    /\ dictations' = dictations + 1
    /\ log' = LastOf(Append(log, [id |-> dictations', seeded |-> FALSE]), LogLimit)
    /\ storing' = Append(storing, dictations')
    /\ UNCHANGED <<disk, app, job, profile, person, history, hotkey, ghosts, jobs,
                   launches, faults, kills, damage>>

(* persist_delivered_history, after the delivery: a row is written unless    *)
(* the slot is empty, the policy forbids it or the target was secure; a      *)
(* failing write is only logged.                                             *)
(* Mutant: record does not ask the policy.                                   *)
PersistAlways ==
    /\ app = "up" /\ storing # <<>> /\ ~SlotLocked
    /\ storing' = Tail(storing)
    /\ rows' = IF slot = NoSlot THEN rows
               ELSE rows \cup {[id |-> Head(storing), old |-> FALSE]}
    /\ UNCHANGED <<sfile, sbak, pfile, pbak, seeds, app, job, profile, person,
                   history, log, hotkey, ghosts, bounds>>

Persist ==
    /\ app = "up" /\ storing # <<>> /\ ~SlotLocked
    /\ storing' = Tail(storing)
    /\ \/ /\ slot # NoSlot /\ permits_persistence(slot)
          /\ rows' = rows \cup {[id |-> Head(storing), old |-> FALSE]}
       \/ UNCHANGED rows
    /\ UNCHANGED <<sfile, sbak, pfile, pbak, seeds, app, job, profile, person,
                   history, log, hotkey, ghosts, bounds>>

(* history_delete_all: the connection is consumed, the database reopened     *)
(* whatever happened, and the seeded entries leave the list only after a     *)
(* deletion that reported no error; they are the oldest of the list.         *)
HistoryDeleteAll ==
    /\ Ready /\ slot # NoSlot
    /\ Begin("delete", <<"delete", "reopen", "unseed">>, NoSettings, {})
    /\ jobs' = jobs + 1
    /\ UNCHANGED <<commandUnchanged, hotkey, asked>>

(* The batch may fail before its COMMIT, or after it (checkpoint, VACUUM,    *)
(* removing the sidecars).                                                   *)
DeleteRows ==
    /\ At("delete")
    /\ \/ Advance /\ rows' = {} /\ NoFault
       \/ /\ Fault /\ rows' \in {rows, {}}
          /\ job' = [job EXCEPT !.todo = <<"reopen">>]
    /\ UNCHANGED <<sfile, sbak, pfile, pbak, seeds, app, profile, person, history,
                   log, hotkey, storing, ghosts, dictations, jobs, launches,
                   kills, damage>>

Reopen ==
    /\ At("reopen") /\ Advance
    /\ \/ NoFault /\ UNCHANGED history
       \/ Fault /\ slot' = NoSlot /\ initializationError' = TRUE
    /\ UNCHANGED <<disk, app, profile, person, log, hotkey, storing, ghosts,
                   dictations, jobs, launches, kills, damage>>

ClearSeededHistory ==
    /\ At("unseed") /\ Advance
    /\ LET seeded == Cardinality({i \in DOMAIN log : log[i].seeded})
       IN  log' = [i \in 1 .. Len(log) - seeded |-> log[seeded + i]]
    /\ UNCHANGED <<disk, app, profile, person, history, hotkey, storing, ghosts,
                   bounds>>

-----------------------------------------------------------------------------
(* reset_commit, after a preview: the words, the settings, the database and  *)
(* the logs are removed one by one, and the first failure ends it.           *)

ResetCommit ==
    /\ Ready
    /\ Begin("reset", WordSteps \o <<"drop_slot", "remove_settings",
                 "remove_backup", "remove_database">> \o SaveSteps
                 \o <<"defaults", "reopen_default">>, DefaultSettings, {})
    /\ asked' = DefaultSettings
    /\ jobs' = jobs + 1
    /\ UNCHANGED <<commandUnchanged, hotkey>>

resetUnchanged == <<pfile, pbak, seeds, app, person, log, hotkey, storing,
                    dictations, jobs, launches, kills, damage>>

DropSlot ==
    /\ At("drop_slot") /\ Advance /\ NoFault
    /\ slot' = NoSlot
    /\ UNCHANGED <<sfile, sbak, rows, profile, initializationError, ghosts,
                   resetUnchanged>>

RemoveFiles ==
    /\ \/ /\ At("remove_settings") /\ sfile' = Absent
          /\ UNCHANGED <<sbak, rows, ghosts>>
       \/ /\ At("remove_backup") /\ sbak' = Absent
          /\ acked' = DefaultSettings /\ before' = {}
          /\ UNCHANGED <<sfile, rows, asked>>
       \/ /\ At("remove_database") /\ rows' = {}
          /\ UNCHANGED <<sfile, sbak, ghosts>>
    /\ Advance /\ NoFault
    /\ UNCHANGED <<profile, history, resetUnchanged>>

RemoveFails ==
    /\ \/ At("remove_settings") /\ sfile # Absent
       \/ At("remove_backup") /\ sbak # Absent
       \/ At("remove_database")
    /\ Fault /\ job' = Idle
    /\ UNCHANGED <<sfile, sbak, rows, profile, history, ghosts, resetUnchanged>>

Defaults ==
    /\ At("defaults") /\ Advance /\ NoFault
    /\ mem' = DefaultSettings /\ loadError' = FALSE
    /\ UNCHANGED <<sfile, sbak, rows, history, ghosts, resetUnchanged>>

ReopenDefault ==
    /\ At("reopen_default") /\ Advance
    /\ \/ NoFault /\ slot' = DefaultSettings.history /\ initializationError' = FALSE
       \/ Fault /\ UNCHANGED history
    /\ UNCHANGED <<sfile, sbak, rows, profile, ghosts, resetUnchanged>>

Reset ==
    DropSlot \/ RemoveFiles \/ RemoveFails \/ Defaults \/ ReopenDefault

-----------------------------------------------------------------------------
(* The startup (composition.rs), and the ends of a run. *)

(* Rows grow old while the application is closed. *)
Launch ==
    /\ app = "down" /\ launches < MaxLaunches
    /\ app' = "starting" /\ launches' = launches + 1
    /\ Begin("start", <<"load", "seeds">>, NoSettings, {})
    /\ \/ rows' = {[r EXCEPT !.old = TRUE] : r \in rows}
       \/ UNCHANGED rows
    /\ UNCHANGED <<sfile, sbak, pfile, pbak, seeds, profile, person, history, log,
                   hotkey, storing, ghosts, dictations, jobs, faults, kills, damage>>

startUnchanged == <<pbak, app, storing, taken, dictations, jobs, launches, kills,
                    damage>>

(* ProfileCoordinator::new. *)
LoadProfile ==
    /\ At("load") /\ Advance /\ NoFault
    /\ LET found == load
       IN  IF found.is = "good"
           THEN /\ mem' = found.value /\ loadError' = FALSE
                /\ Acknowledge(mem') /\ asked' = mem'
           ELSE /\ mem' = DefaultSettings /\ loadError' = TRUE
                /\ UNCHANGED ghosts
    /\ UNCHANGED <<sfile, sbak, pfile, rows, seeds, person, history, log,
                   coordinator, registered, startUnchanged>>

(* consume_installer_hotkey_seed, _logging_seed, _retention_seed and         *)
(* _vocabulary_seed: the files are deleted, then the settings changed.       *)
Seeded(s) ==
    [s EXCEPT !.hotkey = IF "hotkey" \in seeds THEN "ctrl_alt_d" ELSE @,
              !.other = IF seeds \cap {"hotkey", "logging"} # {} THEN TRUE ELSE @,
              !.history = IF "retention_off" \in seeds THEN "off"
                          ELSE IF "retention_on" \in seeds
                                  /\ ~permits_persistence(@) THEN "unconsented"
                          ELSE @]

ConsumeSeeds ==
    /\ At("seeds") /\ NoFault
    /\ LET settings == seeds \ {"vocabulary"} # {}
           vocabulary == IF "vocabulary" \in seeds THEN WordSteps ELSE <<>>
       IN  /\ job' = [job EXCEPT
                !.todo = (IF settings THEN SaveSteps ELSE <<>>)
                         \o <<"adopt", "open_history", "seed_log", "open_words">>
                         \o vocabulary \o <<"register">>,
                !.cand = Seeded(mem),
                !.terms = CHOOSE t \in SUBSET Terms : Cardinality(t) = 1]
           /\ asked' = Seeded(mem)
    /\ seeds' = {}
    /\ UNCHANGED <<sfile, sbak, pfile, rows, profile, person, history, log,
                   coordinator, registered, acked, before, startUnchanged>>

(* The seeded settings are used whether or not they could be saved, and      *)
(* apply_hotkey_preferences takes the binding from them.                     *)
Adopt ==
    /\ At("adopt") /\ Advance /\ NoFault
    /\ mem' = job.cand /\ coordinator' = job.cand.hotkey
    /\ IF sfile = Good(job.cand) THEN Acknowledge(job.cand)
                                 ELSE UNCHANGED <<acked, before>>
    /\ UNCHANGED <<sfile, sbak, pfile, rows, seeds, loadError, person, history, log,
                   registered, asked, startUnchanged>>

(* HistoryCoordinator::new opens the database and applies the retention. *)
OpenHistory ==
    /\ At("open_history") /\ Advance
    /\ \/ /\ NoFault /\ slot' = mem.history /\ initializationError' = FALSE
          /\ rows' = Retained(mem.history)
       \/ /\ Fault /\ slot' = NoSlot /\ initializationError' = TRUE
          /\ UNCHANGED rows
    /\ UNCHANGED <<sfile, sbak, pfile, seeds, profile, person, log, coordinator,
                   registered, ghosts, startUnchanged>>

(* The newest stored rows, oldest first: of n, the i-th has n - i after it.  *)
NewestRows ==
    LET ids == {r.id : r \in rows}
        n == IF Cardinality(ids) <= LogLimit THEN Cardinality(ids) ELSE LogLimit
    IN  [i \in 1 .. n |->
            CHOOSE id \in ids : Cardinality({later \in ids : later > id}) = n - i]

(* seed_from_history. *)
SeedLog ==
    /\ At("seed_log") /\ Advance /\ NoFault
    /\ log' = IF mem.history # "off" /\ slot # NoSlot
              THEN [i \in 1 .. Len(NewestRows) |->
                      [id |-> NewestRows[i], seeded |-> TRUE]]
              ELSE <<>>
    /\ UNCHANGED <<sfile, sbak, pfile, rows, seeds, profile, person, history,
                   coordinator, registered, ghosts, startUnchanged>>

(* PersonalizationRepository::open looks at the primary only. *)
OpenWords ==
    /\ At("open_words") /\ Advance /\ NoFault
    /\ words' = IF pfile = Absent THEN {} ELSE pfile.value
    /\ pendingImport' = FALSE
    /\ UNCHANGED <<sfile, sbak, pfile, rows, seeds, profile, history, log,
                   coordinator, registered, ghosts, startUnchanged>>

(* register_activation_hotkey; a conflict is shown, and the setup goes on. *)
Register ==
    /\ At("register") /\ Advance /\ NoFault
    /\ registered' = IF coordinator \in taken THEN NoBinding ELSE coordinator
    /\ app' = "up"
    /\ UNCHANGED <<disk, profile, person, history, log, coordinator, taken, storing,
                   ghosts, dictations, jobs, launches, kills, damage>>

Start ==
    LoadProfile \/ ConsumeSeeds \/ Adopt \/ OpenHistory \/ SeedLog \/ OpenWords
    \/ Register

(* What the process held is gone with it. *)
Ends ==
    /\ app' = "down" /\ job' = Idle /\ registered' = NoBinding /\ storing' = <<>>
    /\ log' = <<>> /\ slot' = NoSlot /\ pendingImport' = FALSE
    /\ UNCHANGED <<sfile, pfile, pbak, rows, seeds, profile, words,
                   initializationError, coordinator, taken, ghosts, dictations,
                   jobs, launches, faults>>

Quit ==
    /\ app = "up" /\ job = Idle
    /\ Ends /\ UNCHANGED <<sbak, kills, damage>>

(* A kill may cut the copy of the backup short. *)
Kill ==
    /\ app # "down" /\ job # Idle /\ kills < MaxKills
    /\ kills' = kills + 1
    /\ IF At("copy_backup") /\ sfile # Absent
       THEN sbak' \in {sbak, Corrupt, sfile} ELSE UNCHANGED sbak
    /\ Ends /\ UNCHANGED damage

(* The settings file is damaged, or written by a later version. *)
Damage ==
    /\ app = "down" /\ damage < MaxDamage /\ sfile # Absent
    /\ damage' = damage + 1
    /\ sfile' \in {Corrupt, TooNew}
    /\ UNCHANGED <<sbak, pfile, pbak, rows, seeds, app, job, profile, person,
                   history, log, hotkey, storing, ghosts, dictations, jobs,
                   launches, faults, kills>>

Next ==
    \/ Launch \/ Start \/ Quit \/ Kill \/ Damage
    \/ EditSetting
    \/ \E b \in Bindings : HotkeyConfigure(b)
    \/ \E m \in HistoryModes : HistoryConfigure(m)
    \/ Save \/ SetPolicy \/ ApplyRetention \/ DropSlotLock \/ Commit
    \/ AddWord \/ RemoveWords \/ ImportPreview \/ ImportCommit \/ WriteWords
    \/ PublishTranscript \/ Persist
    \/ HistoryDeleteAll \/ DeleteRows \/ Reopen \/ ClearSeededHistory
    \/ ResetCommit \/ Reset

Spec == Init /\ [][Next]_vars

-----------------------------------------------------------------------------
TypeOK ==
    /\ {sfile, sbak} \subseteq SettingsFiles /\ {pfile, pbak} \subseteq WordFiles
    /\ rows \subseteq Rows /\ seeds \subseteq SeedKinds
    /\ app \in {"down", "starting", "up"}
    /\ job = Idle \/ job.kind \in Kinds
    /\ {mem, acked, asked} \cup before \subseteq Settings
    /\ {loadError, initializationError, pendingImport} \subseteq BOOLEAN
    /\ words \in SUBSET Terms
    /\ slot \in HistoryModes \cup {NoSlot}
    /\ Len(log) <= LogLimit
    /\ \A i, j \in DOMAIN log : i < j /\ log[j].seeded => log[i].seeded
    /\ {coordinator} \subseteq Bindings /\ registered \in Bindings \cup {NoBinding}

(* A launch uses a profile that was saved, or refuses: with the primary file *)
(* intact, the last one a command reported saved or the one being saved when *)
(* the process died; with the primary lost, the backup may hold one saved    *)
(* earlier, but none from before a reset that emptied both files.  Whatever  *)
(* failed, was killed or was damaged, the profile never turns silently into  *)
(* the defaults (SettingsStore::load, save, reset).                          *)
LoadedProfileWasSaved ==
    [][At("load") /\ ~At("load")' /\ app' # "down" =>
         \/ loadError'
         \/ mem' \in {acked, asked}
         \/ sfile.is # "good" /\ sbak.is = "good" /\ mem' \in before]_vars

(* A transcript is written to the plaintext database only while the profile  *)
(* the user sees permits it, or while the change that permits it is being    *)
(* made: a failed save, a reset or a restart never leaves the repository     *)
(* with more permission than the profile.                                    *)
StoredWithConsent ==
    [][\/ rows' \subseteq rows
       \/ app # "up"
       \/ permits_persistence(mem.history)
       \/ job.kind = "history" /\ permits_persistence(job.cand.history)]_vars

(* Between commands the open repository and the profile agree, so history    *)
(* the profile shows as on is really recorded (HistoryCoordinator::configure *)
(* applies a setting everywhere or nowhere).                                 *)
PolicyMatchesProfile ==
    app = "up" /\ job = Idle /\ slot # NoSlot => slot = mem.history

(* Between commands the words in memory are also in a file, after any one    *)
(* failure: neither a failing write nor a failing rename of write_atomic     *)
(* loses them.                                                               *)
WordsAreOnDisk ==
    kills = 0 /\ faults <= 1 /\ app = "up" /\ job = Idle /\ words # {} =>
        Good(words) \in {pfile, pbak}

(* Between commands the shortcut that works is the one in the profile: a     *)
(* change that could not be registered or saved leaves the previous shortcut *)
(* live, unless another application holds it.  (A reset writes the default   *)
(* shortcut to the profile and leaves the coordinator alone.)                *)
ShortcutIsTheSavedOne ==
    app = "up" /\ job = Idle =>
        /\ mem.hotkey # DefaultSettings.hotkey => coordinator = mem.hotkey
        /\ registered = IF coordinator \in taken THEN NoBinding ELSE coordinator

(* Between commands the three owners of a setting agree: the running history *)
(* policy and the registered shortcut are the profile's, and the words in    *)
(* memory are on the disk, after a failed command too.                       *)
MemoryMatchesDisk ==
    /\ TypeOK
    /\ PolicyMatchesProfile
    /\ WordsAreOnDisk
    /\ ShortcutIsTheSavedOne
=============================================================================
