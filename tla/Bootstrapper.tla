---------------------------- MODULE Bootstrapper ----------------------------
(***************************************************************************)
(* The setup program of apps/bootstrapper: the wizard (wizard.rs) with its *)
(* transfer thread (download.rs) and its engine-check thread (smoke.rs),   *)
(* the headless verbs (main.rs), placing an installation (install.rs),     *)
(* staging the graphics-card worker over it (download.rs), the seeds       *)
(* (seed.rs) and the uninstaller (uninstall.rs).                           *)
(*                                                                         *)
(* A procedure that touches the disk in several places is the sequence     *)
(* todo of its remaining steps; the process may be killed between any two, *)
(* and each step may fail.  The window's own thread runs it, so no button  *)
(* is served meanwhile; the two threads keep running.                      *)
(***************************************************************************)
EXTENDS ModelCatalog, SetupPayload

CONSTANTS Manifest,     \* the bundled catalog
          Devices,      \* the cards NVML lists, Floor and Weights admit one
          Floor,
          Weights,
          Shortcuts,    \* the hotkeys the wizard offers, and the one preselected
          FirstShortcut,
          Executable,   \* the setup program's own file
          MaxLaunches,  \* bound: setup processes started
          MaxFaults     \* bound: kills, failed disk steps, damaged artifacts, and
                        \* starts of the application beside setup

ASSUME ManifestIsValid ==
  /\ validate(Manifest)
  /\ Manifest.artifacts \in Seq(Range(Manifest.artifacts))
  /\ \A artifact \in Range(Manifest.artifacts) :
       artifact.files \in Seq(Range(artifact.files))

ASSUME ShortcutIsOffered == FirstShortcut \in Shortcuts

COMPATIBILITY == 0
PROVIDER      == 1
DOWNLOAD      == 2
INSTALL       == 3
SHORTCUT      == 4
WORDS         == 5
PRIVACY       == 6
VERIFY        == 7

Model   == select_sole_install_eligible(Manifest, "final-asr", "cpu")
Sources == graphics_card_payload_sources(Manifest)
SourceIds == {Sources[i].id : i \in DOMAIN Sources}
Libraries == required_cuda_runtime_files(Manifest)

Worker    == "granite-worker.exe"
CpuWorker == "granite-worker.cpu.exe"
ProofFiles == {Worker, CpuWorker} \cup Libraries

\* So it is in the bundled catalog: the runtimes it publishes are libraries.
ASSUME WorkerIsNoLibrary == Worker \notin Libraries

\* What the uninstaller may be asked to remove, and the files of each.
Removable == {"configuration", "history", "models"}
targets == [configuration |-> {"config"},
            history       |-> {"sqlite3", "sqlite3-wal"},
            models        |-> {"model-lifecycle"}]
UserFiles == UNION {targets[r] : r \in Removable}

VARIABLES
  proc,      \* the setup process: "none" or the mode it runs in
  todo,      \* what it has still to do on disk
  page,      \* the wizard's step
  choice,    \* the provider its radio buttons show
  may,       \* Decision::may_proceed, decided when the process started
  run,       \* the transfer: [plan, left, state]
  ready,     \* Wizard::ready, and its settled
  settled,
  probe,     \* the last shortcut probed: [key, free]
  key,       \* the shortcut the radio buttons show
  check,     \* the engine check: [state, payload, verdict]
  checked,   \* Wizard::verify_settled
  proof,     \* the files of <root>/proof: none, cpu, cuda or library
  app,       \* the program files: none, old or new
  entry,     \* the Add/Remove Programs entry
  link,      \* the Start Menu shortcut
  stamp,     \* the version record: none, old or new
  record,    \* install-provider.txt
  seeds,     \* whether the profile or a seed file holds the user's words
  retained,  \* the lifecycle store: absent, good or damaged
  user,      \* the user's files under the data root
  outcome,   \* the last uninstall's report: [removed, failed]
  running,   \* the desktop application runs
  launches, faults,
  apart      \* history: an uninstall began since the worker was last copied

wizardVars == <<page, choice, run, ready, settled, probe, key, check, checked>>
diskVars   == <<proof, app, entry, link, stamp, record, seeds, retained,
                user, outcome>>
boundVars  == <<launches, faults, apart>>
vars == <<proc, todo, may, running, wizardVars, diskVars, boundVars>>

NoRun   == [plan |-> "none", left |-> <<>>, state |-> "none"]
NoCheck == [state |-> "none", payload |-> "none", verdict |-> "none"]

\* No wizard is open: a new one starts from this.
Closed ==
  /\ page' = COMPATIBILITY /\ choice' = "cpu" /\ run' = NoRun
  /\ ready' = FALSE /\ settled' = FALSE /\ check' = NoCheck /\ checked' = FALSE
  /\ key' = FirstShortcut /\ probe' = [key |-> FirstShortcut, free |-> FALSE]

Fault   == faults < MaxFaults /\ faults' = faults + 1

\* The disk setup finds: no installation; an older one that has the
\* graphics-card worker; that one after an upgrade was killed while it copied;
\* a first installation killed while it staged the graphics card; and what an
\* uninstall that was killed left of the older one.
Disk(kind) ==
  LET old   == kind \in {"old", "torn"}
      whole == old \/ kind = "staging"
      used  == old \/ kind = "remnant"
      File(f) == CASE f = Worker    -> IF kind = "torn" THEN "torn"
                                       ELSE IF used THEN "cuda" ELSE "none"
                   [] f = CpuWorker -> IF kind = "none" THEN "none" ELSE "cpu"
                   [] OTHER         -> IF old THEN "library" ELSE "none"
  IN  /\ proof = [f \in ProofFiles |-> File(f)]
      /\ app = CASE ~whole -> "none" [] kind = "old" -> "old" [] OTHER -> "new"
      /\ stamp = CASE ~whole -> "none" [] old -> "old" [] OTHER -> "new"
      /\ entry = whole /\ link = whole /\ apart = (kind = "remnant")
      /\ record = (IF used THEN "cuda" ELSE "none")
      /\ user = (IF used THEN UserFiles ELSE {}) /\ seeds = used
      /\ retained = [s \in SourceIds \cup {Model} |-> IF kind = "none" THEN "absent" ELSE "good"]

Init ==
  /\ proc = "none" /\ todo = <<>> /\ page = COMPATIBILITY /\ choice = "cpu"
  /\ may = FALSE /\ run = NoRun /\ ready = FALSE /\ settled = FALSE
  /\ key = FirstShortcut /\ probe = [key |-> key, free |-> FALSE]
  /\ check = NoCheck /\ checked = FALSE /\ running = FALSE
  /\ \E kind \in {"none", "old", "torn", "staging", "remnant"} : Disk(kind)
  /\ outcome = [removed |-> {}, failed |-> {}]
  /\ launches = 0 /\ faults = 0

-----------------------------------------------------------------------------
(***************************************************************************)
(* Placing an installation.                                                *)
(***************************************************************************)
decide == ~running /\ stamp \in {"none", "old"}

\* copy_tree is the first two (fs::copy tears the file it overwrites), then the
\* registration, the link and, last, the version record.
Ops(names) == [i \in DOMAIN names |-> [op |-> names[i], of |-> "none"]]

(* Mutant: the version record is written first. *)
perform_stampFirst == Ops(<<"stamp", "app", "tear", "worker", "entry", "link">>)

perform == Ops(<<"app", "tear", "worker", "entry", "link", "stamp">>)

PlaceFiles(source) ==
  [j \in DOMAIN source.files |->
     [op |-> "place", of |-> <<source.id, source.files[j].name>>]]

(* Mutant: the worker is placed before the libraries it loads. *)
stage_graphics_card_payload_workerFirst(provider) ==
  IF provider = "cuda" /\ \E s \in SourceIds : retained[s] # "absent"
  THEN Ops(<<"preserve">>) \o FlattenSeq([i \in DOMAIN Sources |-> PlaceFiles(Sources[i])])
  ELSE <<>>

\* Nothing is staged for the processor, or when no part of the payload was
\* ever fetched; otherwise the processor's worker is put aside and the sources
\* are placed in the reverse of the order they are fetched in: the worker last.
stage_graphics_card_payload(provider) ==
  IF provider = "cuda" /\ \E s \in SourceIds : retained[s] # "absent"
  THEN Ops(<<"preserve">>)
         \o FlattenSeq([i \in DOMAIN Sources |-> PlaceFiles(Reverse(Sources)[i])])
  ELSE <<>>

\* What setup can place: its own archive, or the directory beside it.
PayloadIsWhole == stage(Executable) # "refused"

\* A reinstall cannot replace the image of a worker the check has started.
Busy(op) == (op = "app" /\ running) \/ (op \in {"tear", "worker"} /\ check.state = "running")

Doing(op) == todo # <<>> /\ Head(todo).op = op
Done == todo' = Tail(todo)

CopyApp ==
  /\ Doing("app") /\ ~Busy("app")
  /\ app' = "new" /\ Done
  /\ UNCHANGED <<proc, may, running, wizardVars, boundVars, proof, entry, link, stamp,
                 record, seeds, retained, user, outcome>>

CopyWorker ==
  /\ \E op \in {"tear", "worker"} :
       /\ Doing(op) /\ ~Busy(op)
       /\ proof' = [proof EXCEPT ![Worker] = IF op = "tear" THEN "torn" ELSE "cpu"]
  /\ Done /\ apart' = FALSE
  /\ UNCHANGED <<proc, may, running, wizardVars, launches, faults, app, entry, link, stamp,
                 record, seeds, retained, user, outcome>>

register_uninstall ==
  /\ Doing("entry") /\ entry' = TRUE /\ Done
  /\ UNCHANGED <<proc, may, running, wizardVars, boundVars, proof, app, link, stamp,
                 record, seeds, retained, user, outcome>>

create_shortcut ==
  /\ Doing("link") /\ link' = TRUE /\ Done
  /\ UNCHANGED <<proc, may, running, wizardVars, boundVars, proof, app, entry, stamp,
                 record, seeds, retained, user, outcome>>

write_stamp ==
  /\ Doing("stamp") /\ stamp' = "new" /\ Done
  /\ UNCHANGED <<proc, may, running, wizardVars, boundVars, proof, app, entry, link,
                 record, seeds, retained, user, outcome>>

BeginStaging ==
  /\ Doing("stage")
  /\ todo' = stage_graphics_card_payload(choice) \o Tail(todo)
  /\ UNCHANGED <<proc, may, running, wizardVars, boundVars, diskVars>>

\* A rename, and not an error when it fails.
preserve_cpu_worker ==
  /\ Doing("preserve") /\ Done
  /\ \/ /\ IF proof[Worker] = "none" THEN proof' = proof
           ELSE proof' = [proof EXCEPT ![CpuWorker] = proof[Worker], ![Worker] = "none"]
        /\ UNCHANGED faults
     \/ Fault /\ UNCHANGED proof
  /\ UNCHANGED <<proc, may, running, wizardVars, launches, apart, app, entry, link, stamp,
                 record, seeds, retained, user, outcome>>

\* Each source is verified again as it is placed; copied beside, then renamed.
place_beside_the_worker ==
  /\ Doing("place") /\ retained[Head(todo).of[1]] = "good"
  /\ LET name == Head(todo).of[2]
     IN  proof' = [proof EXCEPT ![name] = IF name = Worker THEN "cuda" ELSE "library"]
  /\ Done
  /\ UNCHANGED <<proc, may, running, wizardVars, boundVars, app, entry, link, stamp,
                 record, seeds, retained, user, outcome>>

\* A failed staging is named and setup carries on to the next page.
StagingFails ==
  /\ Doing("place")
  /\ IF retained[Head(todo).of[1]] = "good" THEN Fault ELSE UNCHANGED faults
  /\ todo' = Ops(<<"advance">>)
  /\ UNCHANGED <<proc, may, running, wizardVars, launches, apart, diskVars>>

\* A failed placement leaves the wizard on its page and ends a headless one.
PlacingFails ==
  /\ \E op \in {"app", "tear", "worker", "entry", "link", "stamp"} :
       Doing(op) /\ IF Busy(op) THEN UNCHANGED faults ELSE Fault
  /\ proc \in {"wizard", "install"}
  /\ todo' = <<>>
  /\ proc' = IF proc = "wizard" THEN "wizard" ELSE "none"
  /\ UNCHANGED <<may, running, wizardVars, launches, apart, diskVars>>

-----------------------------------------------------------------------------
(***************************************************************************)
(* The wizard.                                                             *)
(***************************************************************************)
InWizard == proc = "wizard" /\ todo = <<>>

Plan(provider) ==
  <<Model>> \o IF provider = "cuda" THEN [i \in DOMAIN Sources |-> Sources[i].id] ELSE <<>>

\* Arriving at the download page starts a transfer, unless one is in flight.
begin_transfer ==
  IF run.state = "flying" THEN UNCHANGED <<run, ready, settled>>
  ELSE /\ ready' = FALSE
       /\ settled' = FALSE
       /\ run' = [plan |-> choice, left |-> Plan(choice), state |-> "flying"]

begin_verify ==
  /\ checked' = FALSE
  /\ check' = [NoCheck EXCEPT !.state = "inspect"]

\* RegisterHotKey answers for this moment; another program may take the key.
verify_selected_shortcut(k) ==
  \E free \in BOOLEAN : probe' = [key |-> k, free |-> free]

show_step(index) ==
  /\ page' = index
  /\ IF index = DOWNLOAD THEN begin_transfer ELSE UNCHANGED <<run, ready, settled>>
  /\ IF index = SHORTCUT THEN verify_selected_shortcut(key) ELSE UNCHANGED probe
  /\ IF index = VERIFY /\ check.state = "none" THEN begin_verify ELSE UNCHANGED <<check, checked>>

\* What apply_next_availability enables.
NextEnabled ==
  CASE page = DOWNLOAD -> ready
    [] page = INSTALL  -> may
    [] page = SHORTCUT -> probe.free
    [] OTHER           -> TRUE

OnBack ==
  /\ InWizard /\ page > 0
  /\ show_step(page - 1)
  /\ UNCHANGED <<proc, todo, may, running, choice, key, diskVars, boundVars>>

OnNext ==
  /\ InWizard /\ NextEnabled /\ page \notin {INSTALL, PRIVACY, VERIFY}
  /\ show_step(page + 1)
  /\ UNCHANGED <<proc, todo, may, running, choice, key, diskVars, boundVars>>

perform_install ==
  /\ InWizard /\ page = INSTALL /\ NextEnabled /\ PayloadIsWhole
  /\ todo' = perform \o Ops(<<"stage", "advance">>)
  /\ UNCHANGED <<proc, may, running, wizardVars, diskVars, boundVars>>

Advance ==
  /\ Doing("advance") /\ Done
  /\ show_step(page + 1)
  /\ UNCHANGED <<proc, may, running, choice, key, diskVars, boundVars>>

\* Leaving the last question writes the seeds, on every pass; what could not be
\* written is named and setup carries on.
WriteSeeds ==
  /\ InWizard /\ page = PRIVACY
  /\ \/ seeds' = TRUE /\ user' = user \cup {"config"} /\ UNCHANGED faults
     \/ Fault /\ UNCHANGED <<seeds, user>>
  /\ show_step(VERIFY)
  /\ UNCHANGED <<proc, todo, may, running, choice, key, launches, apart, proof, app, entry,
                 link, stamp, record, retained, outcome>>

Finish ==
  /\ InWizard /\ page = VERIFY /\ app # "none"
  /\ running' = TRUE /\ user' = UserFiles
  /\ proc' = "none" /\ may' = FALSE /\ Closed
  /\ UNCHANGED <<todo, boundVars, proof, app, entry, link, stamp, record, seeds, retained, outcome>>

ChooseProvider ==
  /\ InWizard /\ page = PROVIDER
  /\ choice' \in IF Sources = <<>> THEN {"cpu"} ELSE {"cpu", "cuda"}
  /\ UNCHANGED <<proc, todo, may, running, page, run, ready, settled, probe, key, check,
                 checked, diskVars, boundVars>>

ChooseShortcut ==
  /\ InWizard /\ page = SHORTCUT
  /\ key' \in Shortcuts /\ verify_selected_shortcut(key')
  /\ UNCHANGED <<proc, todo, may, running, page, choice, run, ready, settled, check,
                 checked, diskVars, boundVars>>

OnRetry ==
  /\ InWizard /\ page = VERIFY /\ check.state = "done" /\ checked
  /\ begin_verify
  /\ UNCHANGED <<proc, todo, may, running, page, choice, run, ready, settled, probe, key,
                 diskVars, boundVars>>

OnCancel ==
  /\ InWizard
  /\ proc' = "none" /\ may' = FALSE /\ Closed
  /\ UNCHANGED <<todo, running, diskVars, boundVars>>

(* Mutant: only a transfer that succeeded is settled. *)
poll_transfer_successOnly ==
  /\ InWizard /\ page = DOWNLOAD /\ ~settled /\ run.state = "ok"
  /\ settled' = TRUE /\ ready' = TRUE
  /\ UNCHANGED <<proc, todo, may, running, page, choice, run, probe, key, check, checked,
                 diskVars, boundVars>>

\* The window's timer.
poll_transfer ==
  /\ InWizard /\ page = DOWNLOAD /\ ~settled /\ run.state \in {"ok", "failed"}
  /\ settled' = TRUE /\ ready' = (run.state = "ok")
  /\ UNCHANGED <<proc, todo, may, running, page, choice, run, probe, key, check, checked,
                 diskVars, boundVars>>

Record(verdict) ==
  IF verdict \in {"cpu", "cuda"} THEN record' = verdict ELSE UNCHANGED record

poll_verify ==
  /\ InWizard /\ page = VERIFY /\ ~checked /\ check.state = "done"
  /\ checked' = TRUE
  /\ Record(check.verdict) /\ check' = [check EXCEPT !.verdict = "none"]
  /\ UNCHANGED <<proc, todo, may, running, page, choice, run, ready, settled, probe, key,
                 boundVars, proof, app, entry, link, stamp, seeds, retained,
                 user, outcome>>

-----------------------------------------------------------------------------
(***************************************************************************)
(* The transfer thread: every item of the plan in order, one that is       *)
(* retained and verifies again is not fetched.                             *)
(***************************************************************************)
execute ==
  /\ proc = "wizard" /\ run.state = "flying"
  /\ IF run.left = <<>> THEN run' = [run EXCEPT !.state = "ok"] /\ UNCHANGED retained
     ELSE /\ run' = [run EXCEPT !.left = Tail(run.left)]
          /\ retained' = [retained EXCEPT ![Head(run.left)] = "good"]
  /\ UNCHANGED <<proc, todo, may, running, page, choice, ready, settled, probe, key, check,
                 checked, boundVars, proof, app, entry, link, stamp, record, seeds,
                 user, outcome>>

TransferFails ==
  /\ proc = "wizard" /\ run.state = "flying" /\ run.left # <<>>
  /\ retained[Head(run.left)] # "good"
  /\ Fault
  /\ run' = [run EXCEPT !.state = "failed"]
  /\ UNCHANGED <<proc, todo, may, running, page, choice, ready, settled, probe, key, check,
                 checked, launches, apart, diskVars>>

-----------------------------------------------------------------------------
(***************************************************************************)
(* The engine check: the payload is inspected, the worker is started, and  *)
(* what it reports is the verdict.                                         *)
(***************************************************************************)
Placed == {f \in ProofFiles : proof[f] # "none"}

gpu_payload_rejection == inspect_gpu_payload(Manifest, Placed, Worker)

InspectPayload ==
  /\ check.state = "inspect"
  /\ check' = [check EXCEPT !.state = "running", !.payload = gpu_payload_rejection]
  /\ UNCHANGED <<proc, todo, may, running, page, choice, run, ready, settled, probe, key,
                 checked, diskVars, boundVars>>

\* The CUDA build does not start without the libraries it imports.
Starts == proof[Worker] = "cpu" \/ (proof[Worker] = "cuda" /\ Libraries \subseteq Placed)

\* A check that did not run and one whose words differ record nothing alike.
Verdicts ==
  IF ~Starts \/ retained[Model] # "good" THEN {"unverified"}
  ELSE {"unverified"}
         \cup {proven(check.payload, proof[Worker], context) : context \in {"held", "absent"}}

verify_engine ==
  /\ check.state = "running"
  /\ check' \in {[state |-> "done", payload |-> "none", verdict |-> v] : v \in Verdicts}
  /\ UNCHANGED <<proc, todo, may, running, page, choice, run, ready, settled, probe, key,
                 checked, diskVars, boundVars>>

-----------------------------------------------------------------------------
(***************************************************************************)
(* The headless verbs and the uninstaller.                                 *)
(***************************************************************************)
Commands == {<<>>, <<"--install">>, <<"--verify-provider">>, <<"--uninstall">>,
             <<"--uninstall", "--silent", "--keep-user-data">>, <<"--install", "--help">>}

\* Every removal goes on past one that failed.
UninstallOps(removals) ==
  Ops(<<"unstamp", "unregister", "unlink", "delete_app">>)
    \o [i \in 1..Cardinality(ProofFiles) |->
          [op |-> "delete_proof", of |-> SetToSeq(ProofFiles)[i]]]
    \o [i \in 1..Cardinality(removals) |->
          [op |-> "delete_user", of |-> SetToSeq(removals)[i]]]

Launch(arguments) ==
  LET mode == classify(arguments)
  IN
  /\ proc = "none" /\ launches < MaxLaunches /\ launches' = launches + 1
  /\ outcome' = [removed |-> {}, failed |-> {}]
  /\ apart' = (apart \/ (mode \in {"uninstall", "uninstall_silent"} /\ ~running))
  /\ CASE mode = "wizard" ->
            /\ proc' = "wizard" /\ may' = decide
            /\ choice' = IF Sources = <<>> THEN "cpu"
                         ELSE preferred_provider(nvml_snapshot(Devices), Floor, Weights)
            /\ UNCHANGED <<todo, check, checked>>
       [] mode = "install" /\ decide /\ PayloadIsWhole ->
            /\ proc' = "install" /\ todo' = perform \o Ops(<<"default_words", "forget">>)
            /\ UNCHANGED <<may, choice, check, checked>>
       [] mode = "verify" /\ ~running ->
            /\ proc' = "verify" /\ begin_verify
            /\ UNCHANGED <<todo, may, choice>>
       [] mode \in {"uninstall", "uninstall_silent"} /\ ~running ->
            /\ proc' = "uninstall"
            /\ \E removals \in IF mode = "uninstall" THEN SUBSET Removable
                               ELSE {removals_for(arguments, Removable)} :
                 todo' = UninstallOps(removals)
            /\ UNCHANGED <<may, choice, check, checked>>
       [] OTHER -> \* refused, misused, or a repair verb
            UNCHANGED <<proc, todo, may, choice, check, checked>>
  /\ UNCHANGED <<running, page, run, ready, settled, probe, key, proof, app, entry, link,
                 stamp, record, seeds, retained, user, faults>>

\* The headless install gives a profile without words the default ones.
write_default_vocabulary ==
  /\ Doing("default_words") /\ Done
  /\ seeds' = TRUE
  /\ user' = IF seeds THEN user ELSE user \cup {"config"}
  /\ UNCHANGED <<proc, may, running, wizardVars, boundVars, proof, app, entry, link, stamp,
                 record, retained, outcome>>

clear_installed_provider ==
  /\ Doing("forget") /\ todo' = <<>> /\ proc' = "none"
  /\ \/ record' = "none" /\ UNCHANGED faults
     \/ record # "none" /\ Fault /\ UNCHANGED record
  /\ UNCHANGED <<may, running, wizardVars, launches, apart, proof, app, entry, link, stamp, seeds,
                 retained, user, outcome>>

verify_provider ==
  /\ proc = "verify" /\ check.state = "done"
  /\ proc' = "none" /\ check' = NoCheck
  /\ Record(check.verdict)
  /\ UNCHANGED <<todo, may, running, page, choice, run, ready, settled, probe, key, checked,
                 boundVars, proof, app, entry, link, stamp, seeds, retained, user,
                 outcome>>

clear_registration ==
  /\ \/ Doing("unstamp") /\ stamp' = "none" /\ UNCHANGED <<entry, link>>
     \/ Doing("unregister") /\ entry' = FALSE /\ UNCHANGED <<stamp, link>>
     \/ Doing("unlink") /\ link' = FALSE /\ UNCHANGED <<stamp, entry>>
  /\ Done
  /\ UNCHANGED <<proc, may, running, wizardVars, boundVars, proof, app, record, seeds,
                 retained, user, outcome>>

remove_program_files ==
  /\ \/ Doing("delete_app") /\ app' = "none" /\ UNCHANGED proof
     \/ /\ Doing("delete_proof")
        /\ proof' = [proof EXCEPT ![Head(todo).of] = "none"] /\ UNCHANGED app
  /\ Done
  /\ UNCHANGED <<proc, may, running, wizardVars, boundVars, entry, link, stamp, record, seeds,
                 retained, user, outcome>>

RemovalFails ==
  /\ proc = "uninstall" /\ todo # <<>> /\ Head(todo).op # "delete_user"
  /\ Fault /\ Done
  /\ outcome' = [outcome EXCEPT !.failed = @ \cup {Head(todo).op}]
  /\ UNCHANGED <<proc, may, running, wizardVars, launches, apart, proof, app, entry, link, stamp,
                 record, seeds, retained, user>>

Report(item, stuck) ==
  IF stuck = {} THEN [outcome EXCEPT !.removed = @ \cup {item}]
  ELSE [outcome EXCEPT !.failed = @ \cup {item}]

remove_user_data_under ==
  /\ Doing("delete_user")
  /\ LET item == Head(todo).of
     IN  \E stuck \in SUBSET (targets[item] \cap user) :
           /\ IF stuck = {} THEN UNCHANGED faults ELSE Fault
           /\ user' = user \ (targets[item] \ stuck)
           /\ outcome' = Report(item, stuck)
           /\ LET emptied == "config" \in user /\ "config" \notin user'
              IN  /\ record' = IF emptied THEN "none" ELSE record
                  /\ seeds' = (seeds /\ ~emptied)
           /\ retained' = IF item = "models" /\ stuck = {}
                          THEN [s \in DOMAIN retained |-> "absent"] ELSE retained
  /\ Done
  /\ UNCHANGED <<proc, may, running, wizardVars, launches, apart, proof, app, entry, link, stamp>>

UninstallEnds ==
  /\ proc = "uninstall" /\ todo = <<>> /\ proc' = "none"
  /\ UNCHANGED <<todo, may, running, wizardVars, diskVars, boundVars>>

-----------------------------------------------------------------------------
(***************************************************************************)
(* The surroundings: a killed process, a damaged artifact, the application.*)
(***************************************************************************)
Killed ==
  /\ proc # "none" /\ Fault
  /\ proc' = "none" /\ todo' = <<>> /\ may' = FALSE /\ Closed
  /\ UNCHANGED <<running, launches, apart, diskVars>>

ArtifactDamaged ==
  /\ Fault
  /\ \E s \in DOMAIN retained :
       retained[s] = "good" /\ retained' = [retained EXCEPT ![s] = "damaged"]
  /\ UNCHANGED <<proc, todo, may, running, wizardVars, launches, apart, proof, app, entry, link,
                 stamp, record, seeds, user, outcome>>

\* The application writes its files; it is not started under an uninstaller.
AppStarts ==
  /\ ~running /\ app # "none" /\ proc \in {"none", "wizard"} /\ Fault
  /\ running' = TRUE /\ user' = UserFiles
  /\ UNCHANGED <<proc, todo, may, wizardVars, launches, apart, proof, app, entry, link, stamp,
                 record, seeds, retained, outcome>>

AppStops ==
  /\ running /\ running' = FALSE
  /\ UNCHANGED <<proc, todo, may, wizardVars, diskVars, boundVars>>

Procedure ==
  \/ CopyApp \/ CopyWorker \/ register_uninstall \/ create_shortcut \/ write_stamp
  \/ BeginStaging \/ preserve_cpu_worker \/ place_beside_the_worker \/ StagingFails
  \/ PlacingFails \/ Advance \/ write_default_vocabulary \/ clear_installed_provider
  \/ clear_registration \/ remove_program_files \/ RemovalFails \/ remove_user_data_under
  \/ UninstallEnds

Threads == execute \/ TransferFails \/ InspectPayload \/ verify_engine

Timer == poll_transfer \/ poll_verify \/ verify_provider

Buttons ==
  \/ OnBack \/ OnNext \/ perform_install \/ WriteSeeds \/ Finish \/ ChooseProvider
  \/ ChooseShortcut \/ OnRetry \/ OnCancel

Next ==
  \/ Procedure \/ Threads \/ Timer \/ Buttons
  \/ \E arguments \in Commands : Launch(arguments)
  \/ Killed \/ ArtifactDamaged \/ AppStarts \/ AppStops

Spec == Init /\ [][Next]_vars

\* A procedure, a thread and the window's timer keep running; nobody has to
\* press a button.  Transfers and the check end: both have deadlines.
FairSpec ==
  /\ Spec
  /\ WF_vars(Procedure) /\ WF_vars(Timer)
  /\ WF_vars(execute \/ TransferFails) /\ WF_vars(InspectPayload \/ verify_engine)

-----------------------------------------------------------------------------
(***************************************************************************)
(* Properties.                                                             *)
(***************************************************************************)
\* The type invariant.
TypeOK ==
  /\ proc \in {"none", "wizard", "install", "verify", "uninstall"}
  /\ page \in COMPATIBILITY..VERIFY /\ choice \in {"cpu", "cuda"}
  /\ \A i \in DOMAIN todo : DOMAIN todo[i] = {"op", "of"}
  /\ {may, ready, settled, checked, entry, link, seeds, running, apart} \subseteq BOOLEAN
  /\ run.state \in {"none", "flying", "ok", "failed"}
  /\ check.state \in {"none", "inspect", "running", "done"}
  /\ check.verdict \in {"none", "cpu", "cuda", "unverified"}
  /\ key \in Shortcuts /\ probe.key \in Shortcuts
  /\ proof \in [ProofFiles -> {"none", "torn", "cpu", "cuda", "library"}]
  /\ {app, stamp} \subseteq {"none", "old", "new"} /\ record \in {"none", "cpu", "cuda"}
  /\ retained \in [SourceIds \cup {Model} -> {"absent", "good", "damaged"}]
  /\ user \subseteq UserFiles

\* Whatever step of a staging failed or was cut short, a CUDA worker is only
\* ever found beside every library it loads (download.rs: "The worker goes last,
\* and the order is the safety property"), until an uninstall takes it apart; an
\* installation over what an uninstall left replaces the worker first.
CudaWorkerHasItsLibraries ==
  proof[Worker] = "cuda" => Libraries \subseteq Placed \/ apart

\* The version record is what refuses a second install of the same version, so
\* it is only ever written over an installation that is complete: one that a
\* kill or a failure cut short can be run again.
StampIsWrittenLast ==
  [][stamp # "new" /\ stamp' = "new" =>
       app' = "new" /\ entry' /\ link' /\ proof'[Worker] \in {"cpu", "cuda"}]_vars

\* Past the download page every artifact of the plan that was run is retained:
\* an earlier transfer's readiness never lets a later one be walked past.  That
\* is the plan of the provider shown, unless the choice was changed while the
\* transfer flew: begin_transfer leaves that transfer alone, and its end lets
\* the wizard past without the other provider's parts (wizard.rs:922).
PlanRunIsFetched ==
  proc = "wizard" /\ page > DOWNLOAD =>
    \A i \in DOMAIN Plan(run.plan) : retained[Plan(run.plan)[i]] # "absent"

\* Past the shortcut page the shortcut shown is the one last probed, and it was
\* free, whatever was chosen and however often the user went back.
ShortcutWasProbed ==
  proc = "wizard" /\ page > SHORTCUT => probe = [key |-> key, free |-> TRUE]

\* What an uninstall reports removed is gone, until the application writes it
\* again: a file that could not be deleted is in no removed item.
ReportedRemovedIsGone ==
  proc = "uninstall" =>
    \A item \in outcome.removed : targets[item] \cap user = {}

\* A transfer the user waits for settles, and so does the engine check: a
\* thread's failure never leaves the page undecided.
WizardSettles ==
  /\ (proc = "wizard" /\ page = DOWNLOAD /\ run.state = "flying")
       ~> (settled \/ page # DOWNLOAD)
  /\ (proc = "wizard" /\ page = VERIFY /\ check.state = "inspect")
       ~> (checked \/ page # VERIFY)

\* What setup shows and leaves on the disk is so, whatever failed and wherever
\* it was killed: no CUDA worker without its libraries, no page past the download
\* with a part of the plan that was run missing, no shortcut chosen unprobed, and
\* nothing reported removed that is still there.
SetupIsSound ==
  /\ CudaWorkerHasItsLibraries
  /\ PlanRunIsFetched
  /\ ShortcutWasProbed
  /\ ReportedRemovedIsGone
=============================================================================
