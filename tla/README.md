# Dictation, checked and proved

TLA+ models of SpeakEasy, a desktop dictation program for Windows: press a key,
speak, press again, and the transcript is pasted where the cursor is. Speech is
turned into text by a worker process that keeps a model resident; a setup
program installs the application, the model and, on machines that can use it, a
worker for the graphics card. The models are translated from the Rust sources;
`PROJECT.json` names the lines behind every definition.

## The system

| Part | State it keeps | Operations | Modules |
|---|---|---|---|
| activation reducer | live session, its mode, key held | `apply` of a press, a release, an endpoint, a stop | `ActivationReducer` |
| session reducer | phase, live session, last number per producer, counter | `begin_session`, `apply` | `SessionReducer` |
| hotkey coordinator | tracked session, reducer, debounce | `on_event`, `request_start`, `request_stop`, `abandon_active_session` | `Dictation` |
| capture coordinator | `status`, `active`, `retained`, `stop_requested`, `cancelled` | `start_for_session`, `stop`, `cancel`, the capture thread | `Dictation` |
| dictation flow | none of its own | `start_dictation`, `stop_dictation`, the watcher, the waiter, the queue's consumer, retry, cancel | `Dictation` |
| exclusive operations, runtime lease, HUD | dictation slot, arbiter owner, running pass, last delivery outcome | `begin`, `finish`, `cancel`, `abandon` | `Dictation`, `GraniteEngine` |
| finalization queue | bounded channel, one consumer | `submit` | `Dictation` |
| Granite engine | resident worker, warm state, device and verdict shown, crash throttle | warm, pass, retest, restart, provider switch | `GraniteEngine` |
| worker client, process supervision | request in flight, deadline, cancel token | `receive_until`, `terminate`, `BatchFinalPass::run` | `GraniteEngine`, `PassProtocol` |
| granite worker | model, open audio stream | `LoadModel`, `StartStream`, `PushAudio`, `FinishStream` | `GraniteWorker`, `CeilingPass` |
| audio pipeline | callback ring, resampler, utterance buffer | `CaptureCallback::write`, `process_next`, the capture loop | `AudioCapture`, `AudioPlan` |
| transforms | none | dictionary, snippets, writing rules, modes, import | `Transforms` |
| delivery and commit | target seen, request channels of three workers, clipboard | inspect, commit, copy, record | `Delivery`, `DeliveryPolicy` |
| storage | settings, words, history, each in memory and on disk | load, save, configure, import, reset, history | `ProfileStorage` |
| import and recovery | staged profile, bundle, pending-update marker | `inspect`, `commit`, backup, verify, restore, mark | `Recovery` |
| model packs | part files, resume metadata, stage, pack, rollback | install, resume, cancel, remove | `ModelInstall`, `PackArchive`, `PackStore` |
| hardware and engine selection | none | catalog validation, pack selection, card gates | `ModelCatalog` |
| bootstrapper | wizard pages, two threads, the installation's files | wizard, `--install`, `--verify`, `--uninstall` | `Bootstrapper`, `SetupPayload` |
| desktop shell, frontend | view state | wiring, polling | startup order only, in `ProfileStorage` |

The UI thread runs the shortcut handler, the dock's buttons and Cancel. A start
spawns a capture thread and a watcher; a stop, or the watcher when a capture
ends by itself, spawns a waiter, which polls until the audio is retained and
submits it to the queue. The queue's single consumer runs the inference pass
over the pipe to the worker, transforms the text, and delivers it through the
threads that talk to UI Automation, the keyboard and the clipboard; then it
writes the history. Installs, removals, engine commands and dictations exclude
one another through one arbiter. Every coordinator's fields are behind locks of
their own and most operations take several of them one after the other, so the
hard behaviour lies between two stores, between two processes, or between two
file operations.

## Modules

Each module says at its head which sources it translates. An action is a
handler, or one step of it where another thread, process or a crash can come
between; the place of a thread is in a program counter.

`Dictation` (extends `ActivationReducer`). One program counter each for the UI
thread (`main`), the capture threads, watchers, waiters and the two that run
passes. `start_dictation` is `StartRefused`, or `StartAdmitted` and then
`StartRejected`, or `StartClaims` (under the lock of `active`), `StartArms` and
`StartSpawns` (after that lock was dropped). `stop` is `StopSignals` and
`StopDrains`; it holds the lock in between, so `ThreadReleases` waits. `cancel`
is `CancelPressed` (the flag), `CancelCapture` and `CancelRest`.
`run_retained_transcription` is `RunnerBegins` or `RunnerBusy`, `RunnerHears`,
`RunnerFinishes`, `RunnerPublishes`. Sessions are numbers in the order they are
issued; the code draws random identifiers and compares them for equality only.
Audio is the session it was recorded in, a transcript one of three verdicts.
`Environment` says what may happen outside the program: the two-minute limit
(`ceiling`), a faulty device (`device_fault`), text that personalization empties
(`empty_text`), another exclusive operation (`exclusive`), a stop in the
microseconds between two adjacent stores (`late_stop`), and threads slower than
the user (`untimely`). Without `untimely` the model assumes what the timings
make likely and no lock ensures (`TimelyDrain`, `TimelyPollers`,
`TimelyTimeout`).

`SessionReducer`: the domain's reducer with producers that repeat, reorder and
delay their events.

`GraniteEngine` (extends `GraniteWorker`, checked with `PassProtocol` through
`MCGraniteEngine`). Warm threads and the pass go through `ensure_ready` under
the adapter lock; the slot, the warm state, the device and the verdict are
stores of their own, as in the code. A worker process is a state machine with a
pipe of one request and one reply, that may die at any step or never answer.
`shutdown` is two steps (`take`, `cold`), because the slot and the warm state are
two stores. Hashing, spawning and loading are steps in which installs, removals,
cancels and crashes fall. `PassProtocol` has the frames, the collection of a
pass's events, the token budget of a reply and the verdict as operators.

`CeilingPass`: one dictation that runs into its ceiling, with the three clocks
that measure two minutes.

`AudioCapture` (extends `AudioPlan`, checked through `MCAudioCapture`). The
callback claims a slot, writes and publishes in separate steps; the capture
thread pops, resamples, appends and polls the stop flag, the deadline and the
fault flag. A frame is its index, a sample the instant it stands for, so that
the resampler is exact and an utterance tells which audio it holds. `AudioPlan`
has device choice, limits, sample conversion and endpointing as operators.

`Delivery` (extends `DeliveryPolicy`, checked with `Transforms` through
`MCDelivery`). The finalization thread, the UI Automation worker, the commit
worker and two clipboard writers, each with its bounded queue; a caller whose
deadline passes stops listening while the request stays queued. The desktop is a
focused place, a secure desktop, held modifiers and a clipboard that the user
and other programs change. `Transforms` has the rewriting as operators over
short texts of symbols.

`ProfileStorage`. The main thread runs one command at a time as a job of file
operations; each may fail, and the process may be killed between two. The
finalization thread lists and stores a dictation beside it. Files are absent,
corrupt, too new or hold a value.

`Recovery` (checked through `MCRecovery`). The import of a v1 profile while the v1
application writes it, with what may be chosen and the three collision policies,
and the recovery bundle with its marker, file by file, with failures, kills and
damage. A file of the source is one of a few contents or nothing that parses, so
that two states of it may read alike, as they do to the importer's fingerprint; a
rewrite in place is two writes. A fingerprint is one step. `returned`, `old` and
`recreated` are kept for the properties only.

`ModelInstall` (checked with `PackArchive` through `MCModelInstall`). One request
after the other: open, attempt, send, body in units, checkpoints of the resume
metadata, rename; then stage, copy or extract, put aside, activate, discard; and
a removal that deletes file by file. The same thread runs in the application and
in setup. `PackArchive` has the archive, path and manifest rules as operators.
`PackStore` is the abstract store a reader has in mind, three variables and six
actions; `ModelInstall!Store` is the refinement mapping.

`Bootstrapper` (extends `ModelCatalog` and `SetupPayload`, checked through
`MCBootstrapper`). A procedure that touches the disk is the sequence of its
remaining steps; the transfer thread, the engine check and the window's timer
run beside it; a kill or a failed step may come at every step. Setup may find any
of five disks, half an upgrade and what a killed uninstall left among them; `apart`
remembers that an uninstall began since the worker was last copied. `ModelCatalog` and
`SetupPayload` are operators; `ModelCatalog` also says which pack the application
runs on (`choose_granite_pack`), over every catalog of up to three packs, every set
of packs on disk, with and without a card and a worker built for it. `GraniteEngine`
takes that choice as given.

`DictationProof`, `AudioCaptureProof`, `DeliveryProof`, `GraniteEngineProof`,
`RecoveryProof`, `ProfileStorageProof`, `ModelInstallProof` and `BootstrapperProof`
hold the theorems, each about the module it is named for; `DictationProof` also
has those about `SessionReducer`, `ModelInstallProof` those about `PackStore`.

## Runs

| Run | What it shows | Bounds | States |
|---|---|---|---|
| `dictation_safety` | `MicrophoneExclusive`, `RetainedIsNewest`, `CancelledCaptureIsDropped`, `ArbiterMatchesSlot` | push-to-talk, 2 sessions, 1 cancel, every environment event | 3.1 million |
| `dictation_flow` | `DeliveredInOrder`, `OneDictationAtATime` | hands-free, 3 sessions, timely, limit, device faults, emptied text, other operations | 21 thousand |
| `dictation_release` | `PassHoldsLease`, `StopIsFollowedThrough`, `OperationIsReleased`, `FinishingEnds`, `CapturedIsTranscribed` | toggle, 2 sessions, 1 retry, late stops, emptied text | 192 thousand |
| `session_reducer` | `SequenceCountsEvents`, `EndedSessionsAreInert` | 2 sessions, 3 producers for 2 places, counter saturating at 4 | 22 thousand |
| `granite_engine` | `StatusIsTrue`, `PassIsWhole`, `DeliveredIsWhole`, `CallsReturn` | 2 worker processes, 2 warm threads, 2 commands, 1 cancel or crash, 3 machines | 448 thousand |
| `audio_capture` | `LossIsKnown`, `UtteranceIsSpoken`, `AudioRulesHold`, `CaptureEnds` | ring of 2 blocks of 2 frames, callbacks of 0, 1, 3 frames, 5 frames, 3 plans | 175 thousand |
| `delivery` | `ReportedIsDone`, `CommitIsGuarded`, `SensitiveStaysOut`, `RewritingIsSafe`, `DeliveryEnds` | 2 dictations, 1 interference, queues of 1, 1 and 2 | 756 thousand |
| `profile_storage` | `MemoryMatchesDisk`, `LoadedProfileWasSaved`, `StoredWithConsent` | 2 dictations, 2 commands, 3 launches, 1 failure, 1 kill, 1 damage | 3.8 million |
| `recovery` | `MaintenanceIsSound`, `RestoredIsTheBackup` | 2 files of 2 contents, 2 writes of the source, 2 commits with 3 choices, 2 troubles | 5.8 million |
| `model_install` | `StoreIsSound`, `ResumeIsOfOneVersion`, `PacksInstallWhole`, `StoreSpec`, `StoreOperationsEnd` | 2 files or an archive, 3 units with a checkpoint every 2, 1 retry, 3 installs, 2 faults | 229 thousand |
| `bootstrapper` | `SetupIsSound`, `SetupDataIsSound`, `StampIsWrittenLast`, `WizardSettles` | 1 setup process, 1 fault, 2 shortcuts, a catalog of a pack and three artifacts, 5 disks | 371 thousand |
| `ceiling_pass` | `CeilingIsAligned` is violated | 3 units of ceiling, 1 to spare | 111 states |

Two sessions, dictations or installs are enough for the races the models are
about: each is between one and the next. Where a third matters (delivery order,
an install after a failed one) there are three. Faults and kills are bounded by
one or two, which reaches every place a single one can fall and, in
`model_install` and `recovery`, the second that meets the handling of the first.
`MaxFrames` lets the ring fill, wrap and drop, and every limit be reached; a
device that delivers for ever is bounded by it too. `granite_engine` sends the
audio in one chunk; the theorems hold for any number. `recovery` treats the
contents of files as symmetric: they are only compared. Its bundle is damaged
only while no verb runs. The part of `MemoryMatchesDisk` about words speaks of
behaviours without a kill and with one fault at most, and counts the backup word
file as a place that holds them, although opening reads the primary only.
Deadlock is not checked: the programs may rest when what the bounds allow is
used up.

Several properties are conjunctions of named parts (`StoreIsSound`,
`LossIsKnown`, `SetupIsSound` and so on), one line of promise each, so that a run
checks a component's promise as a whole; the parts are stated and commented one
by one. Statements about pure operators are checked in the `MC` modules
together with the type invariant of the module they are run with
(`DeliveredIsWhole`, `PacksInstallWhole`, `SetupDataIsSound`, `RewritingIsSafe`,
`AudioRulesHold`): they quantify over small sets of inputs given there.

### Fairness

* `Dictation`: every background thread and the handler the UI thread is in. The
  operating system schedules them, no step waits for another thread except the
  queue's submitter and the release of the slot, and a pass ends because the
  client has a deadline. Nothing is assumed of the user or of other operations.
* `GraniteEngine`: some thread that can run does. A worker may hang or die; the
  deadline of `receive_until` is a step of the waiting thread.
* `AudioCapture`: the capture thread, a callback that was entered, and the
  deadline. The device need not deliver and the user need not stop.
* `Delivery`: the finalization thread only, with its deadlines. Its workers may
  hang for ever.
* `ModelInstall`: the install thread and a removal that began. The server and
  the disk may fail as often as the bound says.
* `Bootstrapper`: the procedure, the timer and the two threads; nobody presses a
  button.
* `SessionReducer`, `ProfileStorage`, `Recovery`: safety only, no fairness.

## Where the code and its texts disagree

`ceiling_pass` is kept as a run. The worker refuses a push that takes the stream
over 120 seconds; the capture's buffer holds 121, and its stream runs from before
the deadline is set until after it passed. The comment on the worker's constant
says the two must stay aligned. A dictation that runs into its limit may
therefore be refused at its last push and lost as a whole.

The following were met while modelling. The model contains each of them. Where
one would break a property, the property names it as an exception, or the run
leaves out the environment event that leads to it, as said:

* A late stop, a retry, text that personalization empties, or a start refused by
  another operation may leave the status `complete`, `finalizing` or `draining`
  with no delivery outcome to come, and `dictation_is_finishing` then refuses
  every press until Cancel or a restart. `FinishingEnds` excepts the first three,
  which its run has (`Overtaken`, `TakenTwice`, `Retried`, `Emptied`), and does
  not speak of cancels and other operations.
* A stop between the thread's `captured` and the release of its slot stores
  `draining` over it, and the recording is not transcribed: the thread's store
  came before, although the comment at `capture_wizard.rs:390` counts on the
  thread to overwrite the flags of that store when it finishes.
  `CapturedIsTranscribed` excepts the session it happens to. A stop between the two reads of a watcher's poll lets the stop and
  the watcher both submit the audio.
* Cancel does not reach audio a waiter has cloned or the queue holds, and the
  waiter of a cancelled dictation may wake on the next one's audio, which is then
  delivered twice (`MaxCancels = 0` in `dictation_flow`).
* A start that is rejected because a capture is active gives that capture's
  exclusive operation back (`exclusive` is absent from `dictation_release`).
* A pass the user cancelled is recorded as a crash (`granite_engine.rs:1473`),
  so cancels can quarantine a healthy engine, and the worker that the cancel
  killed stays resident until the next pass fails on it (`:1139`).
* A graphics-card staging that fails leaves no `granite-worker.exe`: the
  processor's worker is renamed away before the first file is placed (bootstrapper
  `download.rs:440`), while the comment after it says that such a failure leaves
  the processor's worker in place.
* With no failure at all, a reset or a shorter retention deletes stored history
  rows while the log entries seeded from them stay listed and copyable
  (`profile.rs:526`).
* A read-only element of an elevated window is refused as read-only before the
  guard looks at the integrity, so its transcript may be stored, although
  `docs/PRIVACY.md:24` says otherwise (speakeasy-delivery `lib.rs:191`).
  `StoredWasSeen` excepts it.
* Whether a text may be copied is decided from a refusal code that several
  failures share. A full queue, a dead writer and a deadline that passes say
  `Unsupported`, which allows the copy, although the target may be a password
  field: the verdict was never heard. `SensitiveGetsNothing` therefore speaks of
  dictations whose caller heard a verdict (`judged`).
* The provider can be changed while the setup's transfer runs: `begin_transfer`
  leaves the transfer alone (bootstrapper `wizard.rs:922`) and its end lets the
  wizard past the page with none of the graphics card's parts fetched. Staging
  then keeps the processor's worker. The comment below it says that a question
  whose answer nothing reads is a defect. `PlanRunIsFetched` is therefore about
  the plan that was run.
* The importer fingerprints contents (`importer.rs:556`): a file that was changed
  and written back, or rewritten in place, while the others were copied reads the
  same before and after, and the snapshot may hold a mixture or lack the file.
  `ImportedWasTheSource` excepts such plans (`returned`).
* If an import is killed while the profile lies moved aside and the application
  then makes a new one, the next commit removes the old profile
  (`importer.rs:345`), its only copy. `ProfileSurvivesImport` excepts it
  (`recreated`). The journal the commit writes is read by nothing, although
  `fixtures/v1-migration/expected-cases.json` says it restores the old state.
* `rename_v1` overwrites a preset that already has the name with "(v1)"; nothing
  is promised of those copies.
* The spoken-list rule adds dashes that nobody said; `RulesOnlyDrop` excepts
  them, up to one for each "list item" or "next item" said;
  `SpokenListsAreWritten` checks the repository's own example.
* The comment on Granite's memory floor (`granite_engine.rs:326`) says that the
  dictation's floor is much lower and must not be the same number; it is the same
  number (`runtime_wizard.rs:34`), so the gate of a pass refuses nothing that the
  lease let through.

## What is proved

Everything below holds for all values of the constants that meet the named
assumptions; the proofs are checked to the last leaf.

`DictationProof`, from `ConstantsAssumption`: `TypeOK`, `MicrophoneExclusive`,
`RetainedIsNewest`, `PassHoldsLease`, `ArbiterMatchesSlot` and
`CancelledCaptureIsDropped`, for every number of sessions, capacity, mode and
environment; none of these needs the timing assumptions. `IInv` adds what the code relies
on without saying it:

* `HotkeyAgrees`: the tracked session and the reducer's are the same, so a press
  starts a fresh session or stops the tracked one (`ActivationDecides`);
* `StartIsFresh`, `StartHoldsSlot`, `SpawnIsClean`, `FreshIsIdle`: a start works
  on the newest session, which has no thread, holds the slot from its claim on
  and retains nothing when it spawns;
* `CapturingIsNewest`, `JobsAreNamed`, `RetainedFirst`: nobody started after the
  one that records; whoever took audio knows whose; audio exists nowhere before
  its thread retained it;
* `AbandonedIsDoomed`: a cancelled capture was discarded, or has not looked at the
  flag yet and the flag is still set. Every start clears the shared flag; this
  survives because a start holds the slot, and an unjudged capture would have to
  hold it too.

`DeliveredInOrder` and `OneDictationAtATime` are proved from `Prompt` as well: no
untimely poller, no late stop, no cancel and no retry, which is what
`dictation_flow` assumes; the theorems hold in every mode, for any number of
sessions, any capacity, and in every environment without those two. The hypotheses are needed: with one cancel or one retry TLC
finds `OneDictationAtATime` violated. A start is refused by a look at one shared
status that five threads store into, so `FlowInv` says where a dictation is while
it is under way and what the status reads there: the stages (`EarlyStage`,
`WatchStage`, `WaitStage`, `QueueStage`, `PassStage`) exclude each other, so at
most one dictation is under way, it is the newest (`LiveIsNewest`) and it was not
delivered (`PendingIsUndelivered`); a start that was admitted finds nothing under
way, or the slot taken (`StartStage`). The delicate places are a device that opens
after the user's stop and overwrites `draining` by `capturing`, which only the
slot makes up for, and a watcher that has not noticed a stop yet.

About `SessionReducer`, from `ReducerAssumption`: every property of it, `TypeOK`, `SessionMatchesPhase` and `ProducersAreBounded`
included, which no run lists. `SequenceCountsEvents` needs `AppliedAreTracked`: a
number that was applied is at most the last one remembered for its producer.

`ModelInstallProof`, from `SizesAssumption` and `ValuesAssumption` (the values that
stand for an absent file or directory are none of the others):

* `StoreStaysSound` (`StoreIsSound`). Its inductive invariant `StoreInv` says what
  each place of the thread may rely on (`StageIsVerified`: a complete stage is
  whole because every file was digested as it was copied, and the final path is
  empty when the stage is renamed into it), that an application's install and a
  removal exclude each other (`OneOperation`, `RemovalIsAlone`), and where the old
  pack is (`OldIsSafe`, `OwnedIsSomewhere`).
* `InstallImplementsStore` (`StoreSpec`): under `StoreInv` every action is one
  action of `PackStore` or leaves its three variables alone.
* `InstallIsTyped` (`TypeOK`), from `SizesTyped`: it bounds what is on its way, so
  a part never outgrows the manifest and metadata never vouch for nothing.
* `KeptPackSurvives`: a pack the store keeps is visible whole or put aside whole,
  whatever is downloaded, renamed, failed or killed. It is proved of the six
  actions of `PackStore` (`NothingIsLost`) and carried to `ModelInstall` by the
  refinement.
* `ResumeIsSafe` (`ResumeIsOfOneVersion`), from `ResumeInv`: a ranged request
  goes out for exactly the part its metadata describes (`RequestMatches`), and a
  part that is being written is all of the version being served (`BodyMatches`).

`DeliveryProof`, from `DeliveryAssumption`: `TypeOK` and the three safety
properties `ReportedIsDone`, `CommitIsGuarded` and `SensitiveStaysOut`, for any
number of dictations and interferences and any length of the channels. They hold
together or not at all, because a worker may answer after its caller gave up, when
the next dictation is under way. `DeliveryInv` therefore follows the pieces of a
dictation through the queues: one commit and one text of it exist
(`CommitIsOnce`), the request under way carries what was seen for it
(`RequestIsOfSeen`), a target that passed an inspection was accessible
(`SeenIsAccessible`), what the commit worker may rely on at each of its steps
(`CommitterKnows`), nothing of a dictation exists before it is submitted
(`QuietBefore`, `NoFallbackYet`), nothing is left of one that was refused as
sensitive (`SensitiveIsQuiet`), and an answer is of the dictation that waits and
says what was done (`AnswerIsTrue`). `SensitiveStaysOut` needs one thing more, which
is proved from it: where the guard's verdict has got to once the caller could hear
it (`JudgedIsHeard`), so that nothing more is said of a dictation whose target may
not be written to, whatever code it was refused with. That the guard refuses with the first of its
reasons in order is proved from the operators of `DeliveryPolicy` (`Refused`,
`PreflightFacts`, `IdentityFacts`).

`GraniteEngineProof`, from `EngineAssumption` and `MaxChunksAssumption` (of which
the proofs need that a chunk fits the worker's ceiling, that there is a warm
thread, and identities for two worker processes): `TypeOK`, `StatusIsTrue` and
`PassIsWhole`. Its invariant comes in four layers:

* who holds what (`PlacesHold`, `LoaderHoldsLock`, `LivingIsOwned`): one thread
  hashes or loads, it holds the adapter lock, nothing is resident meanwhile, and a
  process lives exactly as long as something refers to it. So a spawn never takes
  the identity of a living worker (`FreeWorkerIsFree`), and what was said of the
  resident worker when it was loaded stays true of it;
* `VerifierSaw`: while the files are corrupt nothing is resident and no thread
  believes they were hashed, so a warm thread that settles long after its hash
  still tells the truth;
* `PipesAreTheRequest`: at most one frame is under way, it is the request of the
  pass that waits or the reply to it. It survives a pass that gives up because
  giving up kills the process, and a pass that is cancelled before it sends because
  then nothing is under way;
* `StreamFollowsRequest`: the request a pass is at says how many of its chunks the
  worker has heard, so a transcript that is returned is of all of them, whatever
  stream a cancelled pass left open.

`RecoveryProof`, from `FilesAssumption`, `ChoicesAssumption` and
`AbsentAssumption`: `MaintenanceIsSound` and `RestoredIsTheBackup`. `RecoveryInv`
says what a fingerprint that is the same before and after a copy is worth
(`SnapshotIsOrdered`: a copied file is what the first fingerprint read, unless it
differs now or was written back; `PlanIsOneState`), that a profile and a stage
hold nothing but the files of the profile below and those of the state their
report names, and keep what the policy keeps (`ProfileIsHonest`, `StageIsHonest`),
where the old profile is at each place of the commit, and that it lies beside
another one only after an activation or a start of the application (`OldIsKept`),
and that a bundle with its marker is whole until the update it was made for is
acknowledged (`BackupFollows`, `ManifestIsKept`, `RestoreFollows`).

`ProfileStorageProof`, from `BoundsAssumption`: `MemoryMatchesDisk`,
`LoadedProfileWasSaved` and `StoredWithConsent`, for any number of commands,
dictations, launches, failures, kills and damaged files. The commands run one at a
time, so `StorageInv` says how far memory, files and the system have moved apart at
each step of each command. What makes that possible is `JobTyped`: what is left of
a command is a path through the steps of its kind (`Follows`, `MayEnd`), which is
proved of every program of the model, of its tails and of the startup's jump to
`adopt`. On it rest where the policy of the open repository and the shortcut come
from and that every failure knows the old ones (`PolicyFollows`,
`ShortcutFollows`), which of the two word files holds the words until the second
failure (`WordsFollow`), and that the settings file holds what was acknowledged,
or what is being saved only between the rename and the acknowledgement
(`FilesFollow`). The backup may be older than the profile acknowledged before the
last one: a reset that removed the settings and failed on the backup leaves the
backup alone with its old content, and the next save, finding no primary, does not
renew it. `before` is therefore a set; the run's two commands are too few to show
it, a third and a damaged file would load that old backup.

`AudioCaptureProof`, from `AudioAssumption` (at least one slot, one frame a block
and one frame of pre-roll, rates that are not zero, and a plan whose limit has
room for the pre-roll): `TypeOK`, `LossIsKnown` and `UtteranceIsSpoken`, for every
ring, plan and callback. `LossIsKnown` is about what is *not* marked, so
`AudioInv` says what the absence of a mark is worth at every place of the two
threads: the blocks in the ring follow each other, without a gap where there is
no mark (`BlocksFollow`); the callback's block continues the last one it
published, or is about to be marked (`CallbackFollows`); the resampler stands
after the last frame it took and before its next sample (`ResamplerStands`), its
samples lie at even steps of the two rates (`StepsAreEven`) and in order
(`SamplesAreOrdered`); and while nothing is marked the frames offered are one
run (`OfferedIsOneRun`), of which the utterance is the resampled whole when the
thread reports `captured` (`ThreadKnows`, `TapFollows`). The slots are taken
modulo their number, which is sound because the ring is never more than full
(`CountersAgree`).

`BootstrapperProof`, from `ManifestIsValid`, `WorkerIsNoLibrary` (no library of the
catalog is called `granite-worker.exe`) and `ShortcutIsOffered`: `TypeOK`,
`SetupIsSound` and `StampIsWrittenLast`, for every valid catalog, every machine
and any number of launches and faults. A step of a procedure says nothing of how
the procedure came to it, so `SetupInv` describes what is still to do
(`TodoIsWork`): which steps a mode can have, which can follow which, and that a
worker to be placed comes after every library that is not placed yet. That the
list staging makes is so (`StagingOrder`) rests on the order in which
`FlattenSeq` joins lists (`FlattenKeepsOrder`), proved by induction from its
definition. `WhatIsDone` says what a placement has done when it reaches a step,
hence what lies under the version record; `WindowFollows` and `TransferFollows`
what a page says of the transfer and of the shortcut, and that no mode but the
wizard has either. While an uninstall takes an installation apart, a CUDA worker
may lie beside fewer libraries than it loads; an uninstall that is killed leaves
it so. The property excepts exactly that state (`apart`), and a placement ends it
before it stages anything, because it copies the processor's worker first.

Only model-checked: every liveness property (out of the prover's reach, as is
anything about fairness), and the statements about pure operators
(`DeliveredIsWhole`, `PacksInstallWhole`, `SetupDataIsSound`, `RewritingIsSafe`,
`AudioRulesHold`), most of which compute over sequences by recursion: TLC
evaluates them over the inputs their modules give. The type invariants these
conjoin are proved. `CeilingIsAligned` is refuted.

## Not modelled

* The frontend's views and the shell's wiring and window placement: they keep no
  state the rest depends on, and what they may press is the models' user.
* Native inference, Windows itself and SQLite's internals: they appear as what
  they may answer.
* Utterance numbers of the finalization queue, and a job that panics while it
  holds the runtime lease. The lease would stay taken; the code has no path that
  gives it back.
* The two locks of `abandon_active_session`, taken one after the other, and a
  change of mode while a session is live.
* The validated commit path (`validate_commit_preflight` and what follows it) is
  modelled as operators in `DeliveryPolicy`; production never takes it. Format
  negotiation, `SileroVad`, hotwords, `LifecycleController`, `FaultScript` and
  `degradation_decision` are called by tests only.
* `recommendation.rs` and `hardware.rs`, which fill views; exports; schema
  migration; the leftovers of files that an uninstall moved aside.
* Kept out for size: a pack that survives in the rollback only, until the next
  install moves it, is not offered meanwhile; a paste that is sent after its
  caller reported the fallback; a fault of the device just before a stop, which
  nobody polls any more. The models contain these steps and no property excludes
  them, because the code does not promise otherwise.
* Packaging scripts, continuous integration, tests.
