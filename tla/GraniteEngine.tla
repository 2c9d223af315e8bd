--------------------------- MODULE GraniteEngine ---------------------------
(***************************************************************************)
(* The resident speech engine: GraniteEngineCoordinator and its callers    *)
(* (apps/desktop/src-tauri/src/granite_engine.rs, coordinators.rs,         *)
(* coordinators/runtime.rs, commands/dictation.rs, commands/models.rs),    *)
(* the worker client (crates/speakeasy-worker, speakeasy-windows) and the  *)
(* worker processes it owns.                                               *)
(*                                                                         *)
(*   Warmers   background threads of warm_granite_engine                   *)
(*   Pass      the final pass of a dictation, one at a time                *)
(*   ui        the UI thread: retest, restart, provider switch             *)
(*   install   the model installation thread                               *)
(*                                                                         *)
(* Warmers and the pass share ensure_ready, which holds the adapter lock   *)
(* while it hashes, spawns and loads.  The manifest admits one Granite     *)
(* pack, so a resident pack is always the requested one and the            *)
(* ResidentMismatch refusal cannot happen.                                 *)
(***************************************************************************)
EXTENDS GraniteWorker, FiniteSets

CONSTANTS
  Workers,        \* identities of worker processes, reused after a drop
  Warmers,        \* identities of warm threads
  Chunks,         \* chunks of audio in an utterance
  MaximumCrashes, \* CrashThrottle.maximum_crashes
  MaxCommands,    \* bound: passes, engine commands, installs and removals
  MaxFaults,      \* bound: cancels and worker crashes
  Machines        \* what setup left behind; see MachineFacts

NoWorker == "no_worker"
Pass == "pass"
Threads == Warmers \cup {Pass}
NoThread == "nobody"
Providers == {"cpu", "cuda"}

(* staged: granite-worker.exe is present; alternate: granite-worker.cpu.exe *)
(* is too; memory: granite_memory_is_sufficient; installed: the provider    *)
(* that setup recorded; cuda: the main worker was compiled with CUDA; probe:*)
(* what NVML may say of a CUDA worker's context (CudaContextProof)          *)
Contexts == {"holding", "not_holding", "unavailable"}
MachineFacts == [staged : BOOLEAN, alternate : BOOLEAN, memory : BOOLEAN,
                 installed : Providers \cup {"unrecorded"}, cuda : BOOLEAN,
                 probe : SUBSET Contexts]

ASSUME EngineAssumption ==
  /\ MaximumCrashes \in Nat \ {0}
  /\ Chunks \in 1 .. MaxChunks
  /\ MaxCommands \in Nat /\ MaxFaults \in Nat
  /\ Machines \subseteq MachineFacts
  /\ NoWorker \notin Workers /\ Pass \notin Warmers /\ NoThread \notin Threads
  /\ Warmers # {}
  /\ \E p, q \in Workers : p # q  \* identities for as many as live at once

VARIABLES
  machine,             \* facts that do not change while the app runs
  disk, status,        \* the pack's files; ModelCoordinator.status.state
  override,            \* settings.engine_provider_override
  crashes,             \* CrashThrottle.crashes.len()
  slot, lock,          \* GraniteEngineCoordinator.adapter and who holds it
  warm, device, integrity,
  proc,                \* worker processes
  thread,              \* warm threads and the pass
  request, cancel, heard,  \* the pass's request, token and text
  lease, arbiter,      \* RuntimeWizardCoordinator.active, OperationCoordinator
  ui,                  \* [op, at] of the UI thread
  passes, commands,    \* passes begun; commands given, of every kind
  faults               \* cancels and worker crashes

engineVars  == <<slot, lock, warm, device, integrity, crashes>>
passVars    == <<request, cancel, heard>>
modelVars   == <<disk, status>>
boundVars   == <<passes, commands, faults>>
vars == <<machine, modelVars, override, engineVars, proc, thread, passVars,
          lease, arbiter, ui, boundVars>>

----------------------------------------------------------------------------
(* Pure decisions *)

(* resolve_active_worker: the alternate binary runs only for an override    *)
(* that differs from what setup recorded.                                   *)
ActiveWorker(m, requested) ==
  IF requested \in {"none", m.installed} \/ ~m.alternate
  THEN [exe |-> "main", provider |-> m.installed]
  ELSE [exe |-> "alternate", provider |-> requested]

(* WorkerProvider::device of a worker whose CUDA context probe said context *)
DeviceName(cuda, context) ==
  CASE ~cuda \/ context = "not_holding" -> "cpu"
    [] cuda /\ context = "holding"      -> "cuda"
    [] cuda /\ context = "unavailable"  -> "cuda_unverified"

Assess(recorded, onDevice) ==
  CASE recorded = "unrecorded"                        -> "unrecorded"
    [] recorded = "cuda" /\ onDevice = "cpu"          -> "gpu_install_not_operational"
    [] recorded = "cuda" /\ onDevice = "cuda_unverified" -> "gpu_record_unconfirmed"
    [] recorded = "cpu" /\ onDevice = "cuda"          -> "running_beyond_record"
    [] OTHER                                          -> "ok"

(* CrashThrottle.  Crashes age out of the window, the oldest first, and     *)
(* only when another one is recorded, so a quarantine lasts until a reset.  *)
Quarantined == crashes >= MaximumCrashes
RecordCrash == \E recent \in 0 .. crashes : crashes' = recent + 1

WarmState == IF Quarantined THEN "granite_quarantined" ELSE warm

(* readiness, and what mark_verifying and settle_after_warm make of it      *)
Readiness == IF disk = "absent" THEN "absent" ELSE "installed_unverified"
MarkVerifying == status' = IF status = "installed_unverified" THEN "verifying" ELSE status
SettledState(verification) ==
  CASE Readiness = "absent" \/ verification = "not_attempted" -> Readiness
    [] verification \in {"verified", "already_loaded"}        -> "verified_on_disk"
    [] verification = "failed"                                -> "failed"

(* dictation_blocker: no press starts a capture in these states             *)
Blocked == \/ status \notin {"verified_on_disk", "installed_unverified"}
           \/ WarmState \in {"granite_worker_missing", "memory_below_granite_floor",
                             "granite_quarantined"}

(* granite_worker_is_unusable *)
Unusable(code) == code \in {"adapter_failed", "deadline_exceeded"}

----------------------------------------------------------------------------
(* Worker processes.  A process lives as long as its client has an owner:   *)
(* the slot, the thread that loads it, or the pass that uses it.            *)

IdleProcess == [life |-> "none", exe |-> "main", provider |-> "cpu",
                context |-> "not_holding", inbox |-> <<>>, outbox |-> <<>>,
                loaded |-> FALSE, active |-> NoStream]

Worker(p) == [loaded |-> proc[p].loaded, active |-> proc[p].active]

Owned(p, s, threads) == p = s \/ \E t \in Threads : threads[t].proc = p

(* Drop for ProcessWorkerClient: what is left of the processes when s and   *)
(* threads are the references that remain.                                  *)
Dropped(procs, s, threads) ==
  [p \in Workers |-> IF Owned(p, s, threads) THEN procs[p] ELSE IdleProcess]

(* Mutant: the process is left running *)
KilledNever(p, procs) == procs

(* OwnedProcessTree::terminate; the pipes go with the process               *)
Killed(p, procs) == [procs EXCEPT ![p].life = "killed", ![p].inbox = <<>>,
                                  ![p].outbox = <<>>]

FreeWorker == CHOOSE p \in Workers : proc[p].life = "none"

IdleThread == [at |-> "idle", exe |-> "main", provider |-> "cpu",
               proc |-> NoWorker, verification |-> "not_attempted",
               error |-> "none"]

Running(t, place) == thread[t].at = place

FirstRequest(session) ==
  [command |-> "load", session |-> session, sequence |-> 0, sent |-> FALSE]

----------------------------------------------------------------------------
Init ==
  /\ machine \in Machines
  /\ disk \in {"absent", "intact", "corrupt"}
  /\ status = IF disk = "absent" THEN "absent" ELSE "verifying"
  /\ override = "none"
  /\ crashes = 0
  /\ slot = NoWorker /\ lock = NoThread
  /\ warm = "cold" /\ device = "not_configured" /\ integrity = "unrecorded"
  /\ proc = [p \in Workers |-> IdleProcess]
  /\ LET first == CHOOSE w \in Warmers : TRUE IN
     thread = [t \in Threads |-> IF t = first THEN [IdleThread EXCEPT !.at = "read"]
                                 ELSE IdleThread]
  /\ request = FirstRequest(0)
  /\ cancel = FALSE /\ heard = <<>>
  /\ lease = FALSE /\ arbiter = "none"
  /\ ui = [op |-> "none", at |-> "idle"]
  /\ passes = 0 /\ commands = 0 /\ faults = 0

----------------------------------------------------------------------------
(* Warm threads and the pass, up to a loaded worker *)

(* The refusals before ensure_ready, in the order the code asks them        *)
GateRefusal ==
  CASE ~machine.staged                                  -> "granite_worker_missing"
    [] machine.staged /\ ~machine.memory                -> "memory_below_granite_floor"
    [] machine.staged /\ machine.memory /\ Quarantined  -> "granite_quarantined"
    [] machine.staged /\ machine.memory /\ ~Quarantined /\ disk = "absent"
                                                        -> "not_configured"
    [] OTHER                                            -> "none"

(* The settings lock is taken once, to read the override, and the gates are *)
(* asked.  A refused warm goes on to settle; a refused pass ends without a  *)
(* transcript.                                                              *)
Gate(t) ==
  /\ Running(t, "read")
  /\ IF GateRefusal = "none"
     THEN LET active == ActiveWorker(machine, override) IN
          /\ thread' = [thread EXCEPT ![t].at = "enter", ![t].exe = active.exe,
                                      ![t].provider = active.provider]
          /\ warm' = warm
     ELSE /\ thread' = [thread EXCEPT
                ![t].at = IF t = Pass THEN "ended" ELSE "settle",
                ![t].error = IF t = Pass THEN GateRefusal ELSE @]
          /\ warm' = IF t = Pass \/ GateRefusal = "granite_quarantined"
                     THEN warm ELSE GateRefusal
  /\ UNCHANGED <<machine, modelVars, override, slot, lock, device, integrity,
                 crashes, proc, passVars, lease, arbiter, ui, boundVars>>

Returned(t, ok) == IF ok THEN IF t = Pass THEN "stream" ELSE "settle"
                         ELSE IF t = Pass THEN "ended" ELSE "settle"

(* ensure_ready takes the adapter lock and finds a resident worker, whoever *)
(* loaded it and from whichever binary, or starts loading one.              *)
Enter(t) ==
  /\ Running(t, "enter")
  /\ lock = NoThread
  /\ \/ /\ slot # NoWorker
        /\ thread' = [thread EXCEPT ![t] = [IdleThread EXCEPT
                         !.at = Returned(t, TRUE), !.verification = "already_loaded",
                         !.proc = IF t = Pass THEN slot ELSE NoWorker]]
        /\ UNCHANGED <<lock, warm>>
     \/ /\ slot = NoWorker
        /\ thread' = [thread EXCEPT ![t].at = "hash"]
        /\ lock' = t
        /\ warm' = "warming"
  /\ UNCHANGED <<machine, modelVars, override, slot, device, integrity, crashes,
                 proc, passVars, lease, arbiter, ui, boundVars>>

(* The digest of every required file, and then warm: the process is         *)
(* spawned from the binary that the thread read in the settings.            *)
Hash(t) ==
  /\ Running(t, "hash")
  /\ \/ /\ disk = "intact"
        /\ LET p == FreeWorker IN
           /\ proc' = [proc EXCEPT ![p] = [IdleProcess EXCEPT !.life = "alive",
                         !.exe = thread[t].exe, !.provider = thread[t].provider]]
           /\ thread' = [thread EXCEPT ![t] = [IdleThread EXCEPT !.at = "loading",
                            !.proc = p, !.verification = "verified"]]
        /\ UNCHANGED <<lock, warm>>
     \/ /\ disk # "intact"
        /\ thread' = [thread EXCEPT ![t] = [IdleThread EXCEPT
                         !.at = Returned(t, FALSE), !.verification = "failed",
                         !.error = "adapter_failed"]]
        /\ lock' = NoThread
        /\ warm' = "granite_model_files_unverified"
        /\ UNCHANGED proc
  /\ UNCHANGED <<machine, modelVars, override, slot, device, integrity, crashes,
                 passVars, lease, arbiter, ui, boundVars>>

HasCuda(p) == machine.cuda /\ proc[p].exe = "main"

RecordWorkerProvider(p, context) ==
  /\ device' = DeviceName(HasCuda(p), context)
  /\ integrity' = Assess(proc[p].provider, device')

(* LoadModel answered: the provider is recorded, the worker made resident   *)
(* and the warm state set before the adapter lock is given back.            *)
Load(t) ==
  /\ Running(t, "loading")
  /\ LET p == thread[t].proc IN
     /\ proc[p].life = "alive"
     /\ LoadModel(Worker(p), disk # "absent", TRUE).event = "model_loaded"
     /\ \E context \in IF HasCuda(p) THEN machine.probe
                       ELSE {"not_holding"} :
          /\ proc' = [proc EXCEPT ![p].loaded = TRUE, ![p].context = context]
          /\ RecordWorkerProvider(p, context)
     /\ slot' = p
     /\ warm' = "ready"
     /\ thread' = [thread EXCEPT ![t].at = Returned(t, TRUE),
                                 ![t].proc = IF t = Pass THEN p ELSE NoWorker]
  /\ lock' = NoThread
  /\ UNCHANGED <<machine, modelVars, override, crashes, passVars, lease, arbiter,
                 ui, boundVars>>

(* Spawning, the handshake or the load failed: the process goes with its    *)
(* client, and the failure counts towards the quarantine.                   *)
LoadFails(t) ==
  /\ Running(t, "loading")
  /\ thread' = [thread EXCEPT ![t].at = Returned(t, FALSE), ![t].proc = NoWorker,
                              ![t].error = "adapter_failed"]
  /\ proc' = Dropped(proc, slot, thread')
  /\ RecordCrash
  /\ warm' = "adapter_failed"
  /\ lock' = NoThread
  /\ UNCHANGED <<machine, modelVars, override, slot, device, integrity, passVars,
                 lease, arbiter, ui, boundVars>>

(* settle_after_warm, and the end of the warm thread                        *)
Settle(t) ==
  /\ t \in Warmers
  /\ Running(t, "settle")
  /\ status' = SettledState(thread[t].verification)
  /\ thread' = [thread EXCEPT ![t] = IdleThread]
  /\ UNCHANGED <<machine, disk, override, engineVars, proc, passVars, lease,
                 arbiter, ui, boundVars>>

----------------------------------------------------------------------------
(* The pass *)

(* run_retained_transcription takes the runtime lease: for a dictation,     *)
(* which setup_requirement let through and which claims the operation slot, *)
(* or for a retry, which asks for neither.  The lease asks for the memory   *)
(* Granite needs (runtime_wizard.rs:34), so the pass's own gate, which asks *)
(* for the same 8 GiB, only ever refuses a warm.                            *)
PassBegins(retry) ==
  /\ Running(Pass, "idle") /\ ~lease /\ machine.memory
  /\ retry \/ (arbiter = "none" /\ ~Blocked)
  /\ commands < MaxCommands
  /\ passes' = passes + 1 /\ commands' = commands + 1
  /\ lease' = TRUE
  /\ arbiter' = IF retry THEN arbiter ELSE "dictation"
  /\ thread' = [thread EXCEPT ![Pass] = [IdleThread EXCEPT !.at = "read"]]
  /\ request' = FirstRequest(passes + 1)
  /\ UNCHANGED <<machine, modelVars, override, engineVars, proc, cancel,
                 heard, ui, faults>>

(* RuntimeWizardCoordinator::cancel *)
CancelPass ==
  /\ lease /\ ~cancel /\ faults < MaxFaults
  /\ cancel' = TRUE
  /\ faults' = faults + 1
  /\ UNCHANGED <<machine, modelVars, override, engineVars, proc, thread, request,
                 heard, lease, arbiter, ui, passes, commands>>

Held == thread[Pass].proc

FailPass(code) ==
  thread' = [thread EXCEPT ![Pass].at = "failed", ![Pass].error = code]

(* ProcessWorkerClient::request: the token and the deadline are looked at   *)
(* before the frame is written; these refusals leave the process running.   *)
SendRequest ==
  /\ Running(Pass, "stream") /\ ~request.sent
  /\ \/ cancel /\ FailPass("cancelled") /\ UNCHANGED <<proc, request>>
     \/ ~cancel /\ FailPass("deadline_exceeded") /\ UNCHANGED <<proc, request>>
     \/ /\ ~cancel /\ proc[Held].life # "alive"
        /\ FailPass("adapter_failed") /\ UNCHANGED <<proc, request>>
     \/ /\ ~cancel /\ proc[Held].life = "alive"
        /\ request' = [request EXCEPT !.sent = TRUE]
        /\ proc' = [proc EXCEPT ![Held].inbox = Append(@, request')]
        /\ UNCHANGED thread
  /\ UNCHANGED <<machine, modelVars, override, engineVars, cancel, heard,
                 lease, arbiter, ui, boundVars>>

(* Mutant: the wait for a reply has no deadline *)
GiveUpWaitingWhenCancelled ==
  /\ Running(Pass, "stream") /\ request.sent /\ cancel
  /\ FailPass("cancelled")
  /\ proc' = Killed(Held, proc)
  /\ UNCHANGED <<machine, modelVars, override, engineVars, passVars, lease, arbiter,
                 ui, boundVars>>

(* The loops of write_within_deadline and receive_until notice a cancelled  *)
(* token or a passed deadline and kill the process.  The deadline may pass   *)
(* at any time.                                                             *)
GiveUpWaiting ==
  /\ Running(Pass, "stream") /\ request.sent
  /\ FailPass(IF cancel THEN "cancelled" ELSE "deadline_exceeded")
  /\ proc' = Killed(Held, proc)
  /\ UNCHANGED <<machine, modelVars, override, engineVars, passVars, lease, arbiter,
                 ui, boundVars>>

(* The request that follows request r in BatchFinalPass::run                *)
NextRequest(r) ==
  CASE r.command = "load"   -> [r EXCEPT !.command = "start", !.sent = FALSE]
    [] r.command = "start"  -> [r EXCEPT !.command = "push", !.sent = FALSE]
    [] r.command = "push" /\ r.sequence + 1 < Chunks
                            -> [r EXCEPT !.sequence = @ + 1, !.sent = FALSE]
    [] OTHER                -> [r EXCEPT !.command = "finish", !.sent = FALSE]

(* receive_until takes one response.  One that answers another request      *)
(* kills the worker, an error event fails the pass, a terminal reply moves  *)
(* the pass on; a finished stream may hold no text.                         *)
ReceiveResponse ==
  /\ Running(Pass, "stream") /\ request.sent
  /\ proc[Held].outbox # <<>>
  /\ LET response == Head(proc[Held].outbox)
         rest == [proc EXCEPT ![Held].outbox = Tail(@)]
     IN
     \/ /\ response.request # request
        /\ proc' = Killed(Held, proc)
        /\ FailPass("stale_event") /\ UNCHANGED <<request, heard>>
     \/ /\ response.request = request /\ response.event = "error"
        /\ proc' = rest
        /\ FailPass("adapter_failed") /\ UNCHANGED <<request, heard>>
     \/ /\ response.request = request
        /\ response.event = Terminal[request.command]
        /\ request.command # "finish"
        /\ proc' = rest /\ request' = NextRequest(request)
        /\ UNCHANGED <<thread, heard>>
     \/ /\ response.request = request
        /\ response.event = Terminal[request.command]
        /\ request.command = "finish"
        /\ proc' = rest /\ heard' = response.heard
        /\ \/ thread' = [thread EXCEPT ![Pass].at = "ended"]
           \/ FailPass("no_speech_detected")
        /\ UNCHANGED request
  /\ UNCHANGED <<machine, modelVars, override, engineVars, cancel, lease,
                 arbiter, ui, boundVars>>

(* The pipe closed under the request                                        *)
WorkerGone ==
  /\ Running(Pass, "stream") /\ request.sent
  /\ proc[Held].life # "alive" /\ proc[Held].outbox = <<>>
  /\ proc' = Killed(Held, proc)
  /\ FailPass("adapter_failed")
  /\ UNCHANGED <<machine, modelVars, override, engineVars, passVars, lease, arbiter,
                 ui, boundVars>>

(* The error arm of run_granite_final_pass: every failure but silence       *)
(* counts as a crash, and the unusable worker is discarded in two steps.    *)
PassFails ==
  /\ Running(Pass, "failed")
  /\ LET code == thread[Pass].error IN
     /\ IF code = "no_speech_detected" THEN UNCHANGED crashes ELSE RecordCrash
     /\ thread' = [thread EXCEPT ![Pass].at = IF Unusable(code) THEN "take" ELSE "ended"]
  /\ UNCHANGED <<machine, modelVars, override, slot, lock, warm, device, integrity,
                 proc, passVars, lease, arbiter, ui, boundVars>>

PassTakes ==
  /\ Running(Pass, "take") /\ lock = NoThread
  /\ slot' = NoWorker
  /\ proc' = Dropped(proc, NoWorker, thread)
  /\ thread' = [thread EXCEPT ![Pass].at = "cold"]
  /\ UNCHANGED <<machine, modelVars, override, lock, warm, device, integrity, crashes,
                 passVars, lease, arbiter, ui, boundVars>>

PassRecordsCold ==
  /\ Running(Pass, "cold")
  /\ warm' = "cold"
  /\ thread' = [thread EXCEPT ![Pass].at = "ended"]
  /\ UNCHANGED <<machine, modelVars, override, slot, lock, device, integrity, crashes,
                 proc, passVars, lease, arbiter, ui, boundVars>>

(* The adapter reference is dropped, then the lease and the operation are   *)
(* given back; a retry gives back an operation it did not claim.            *)
PassEnds ==
  /\ Running(Pass, "ended")
  /\ thread' = [thread EXCEPT ![Pass] = IdleThread]
  /\ proc' = Dropped(proc, slot, thread')
  /\ request' = FirstRequest(0) /\ cancel' = FALSE /\ heard' = <<>>
  /\ lease' = FALSE
  /\ arbiter' = IF arbiter = "dictation" THEN "none" ELSE arbiter
  /\ UNCHANGED <<machine, modelVars, override, engineVars, ui, boundVars>>

----------------------------------------------------------------------------
(* The worker process *)

WorkerHandles(p) ==
  /\ proc[p].life = "alive" /\ proc[p].inbox # <<>>
  /\ \E infers \in BOOLEAN :
       LET asked == Head(proc[p].inbox)
           reply == Handle(Worker(p), asked, disk # "absent", TRUE, infers)
       IN proc' = [proc EXCEPT ![p].inbox = Tail(@), ![p].loaded = reply.worker.loaded,
                     ![p].active = reply.worker.active,
                     ![p].outbox = Append(@, [request |-> asked, event |-> reply.event,
                                              heard |-> reply.heard])]
  /\ UNCHANGED <<machine, modelVars, override, engineVars, thread, passVars, lease,
                 arbiter, ui, boundVars>>

WorkerCrashes(p) ==
  /\ proc[p].life = "alive" /\ proc[p].loaded /\ faults < MaxFaults
  /\ faults' = faults + 1
  /\ proc' = [proc EXCEPT ![p].life = "crashed", ![p].inbox = <<>>]
  /\ UNCHANGED <<machine, modelVars, override, engineVars, thread, passVars, lease,
                 arbiter, ui, passes, commands>>

----------------------------------------------------------------------------
(* The UI thread: gpu_retest asks nobody; restart and switch need the       *)
(* operation slot and a free runtime lease, and clear the quarantine.       *)

UiIdle == ui.at = "idle" /\ commands < MaxCommands

GpuRetest ==
  /\ UiIdle
  /\ ui' = [op |-> "retest", at |-> "take"]
  /\ commands' = commands + 1
  /\ UNCHANGED <<machine, modelVars, override, engineVars, proc, thread, passVars,
                 lease, arbiter, passes, faults>>

(* runtime_recover and restart_granite_engine *)
RestartEngine ==
  /\ UiIdle /\ arbiter = "none" /\ ~lease
  /\ ui' = [op |-> "restart", at |-> "take"]
  /\ commands' = commands + 1
  /\ arbiter' = "engine"
  /\ crashes' = 0
  /\ UNCHANGED <<machine, modelVars, override, slot, lock, warm, device, integrity,
                 proc, thread, passVars, lease, passes, faults>>

SwitchProvider(provider) ==
  /\ UiIdle /\ arbiter = "none" /\ ~lease
  /\ machine.staged /\ (provider = machine.installed \/ machine.alternate)
  /\ override' = IF provider = machine.installed THEN "none" ELSE provider
  /\ ui' = [op |-> "switch", at |-> "take"]
  /\ commands' = commands + 1
  /\ arbiter' = "engine"
  /\ crashes' = 0
  /\ UNCHANGED <<machine, modelVars, slot, lock, warm, device, integrity, proc,
                 thread, passVars, lease, passes, faults>>

(* GraniteEngineCoordinator::shutdown: the slot under its lock, the warm    *)
(* state afterwards.                                                        *)
UiTakes ==
  /\ ui.at = "take" /\ lock = NoThread
  /\ slot' = NoWorker
  /\ proc' = Dropped(proc, NoWorker, thread)
  /\ ui' = [ui EXCEPT !.at = "cold"]
  /\ UNCHANGED <<machine, modelVars, override, lock, warm, device, integrity, crashes,
                 thread, passVars, lease, arbiter, boundVars>>

(* Mutant: the discarded worker is still called ready *)
UiForgetsCold ==
  /\ ui.at = "cold"
  /\ ui' = [ui EXCEPT !.at = "warm"]
  /\ UNCHANGED <<machine, modelVars, override, engineVars, proc, thread, passVars,
                 lease, arbiter, boundVars>>

UiRecordsCold ==
  /\ ui.at = "cold"
  /\ warm' = "cold"
  /\ ui' = [ui EXCEPT !.at = "warm"]
  /\ UNCHANGED <<machine, modelVars, override, slot, lock, device, integrity, crashes,
                 proc, thread, passVars, lease, arbiter, boundVars>>

StartWarmer(w) ==
  /\ w \in Warmers /\ Running(w, "idle")
  /\ thread' = [thread EXCEPT ![w] = [IdleThread EXCEPT !.at = "read"]]

(* warm_granite_engine, and the end of the command                          *)
UiWarms(w) ==
  /\ ui.at = "warm"
  /\ StartWarmer(w)
  /\ MarkVerifying
  /\ ui' = [op |-> "none", at |-> "idle"]
  /\ arbiter' = IF arbiter = "engine" THEN "none" ELSE arbiter
  /\ UNCHANGED <<machine, disk, override, engineVars, proc, passVars, lease, boundVars>>

----------------------------------------------------------------------------
(* The model on disk *)

InstallBegins ==
  /\ arbiter = "none" /\ commands < MaxCommands
  /\ commands' = commands + 1
  /\ arbiter' = "install"
  /\ status' = "downloading"
  /\ UNCHANGED <<machine, disk, override, engineVars, proc, thread, passVars, lease,
                 ui, passes, faults>>

InstallSucceeds(w) ==
  /\ arbiter = "install"
  /\ disk' = "intact"
  /\ status' = "verified_on_disk"
  /\ StartWarmer(w)
  /\ arbiter' = "none"
  /\ UNCHANGED <<machine, override, engineVars, proc, passVars, lease, ui, boundVars>>

InstallFails ==
  /\ arbiter = "install"
  /\ status' \in {"failed", "cancelled"}
  /\ arbiter' = "none"
  /\ UNCHANGED <<machine, disk, override, engineVars, proc, thread, passVars, lease,
                 ui, boundVars>>

(* model_remove: the status is not told                                     *)
ModelRemove ==
  /\ arbiter = "none" /\ commands < MaxCommands /\ disk # "absent"
  /\ commands' = commands + 1
  /\ disk' = "absent"
  /\ UNCHANGED <<machine, status, override, engineVars, proc, thread, passVars, lease,
                 arbiter, ui, passes, faults>>

----------------------------------------------------------------------------
ThreadStep(t) ==
  \/ Gate(t) \/ Enter(t) \/ Hash(t)
  \/ Load(t) \/ LoadFails(t) \/ Settle(t)

PassStep ==
  \/ SendRequest \/ GiveUpWaiting \/ ReceiveResponse \/ WorkerGone
  \/ PassFails \/ PassTakes \/ PassRecordsCold \/ PassEnds

UiStep == UiTakes \/ UiRecordsCold \/ (\E w \in Warmers : UiWarms(w))

Commands ==
  \/ (\E retry \in BOOLEAN : PassBegins(retry)) \/ CancelPass
  \/ GpuRetest \/ RestartEngine \/ (\E q \in Providers : SwitchProvider(q))
  \/ InstallBegins \/ (\E w \in Warmers : InstallSucceeds(w)) \/ InstallFails
  \/ ModelRemove

ThreadsRun == (\E t \in Threads : ThreadStep(t)) \/ PassStep \/ UiStep

Next ==
  \/ ThreadsRun \/ Commands
  \/ \E p \in Workers : WorkerHandles(p) \/ WorkerCrashes(p)

Spec == Init /\ [][Next]_vars

(* Some thread that can run does; a worker may hang.  Commands are finitely *)
(* many, so this is weaker than the scheduler's fairness to each thread.    *)
Fairness == WF_vars(ThreadsRun)

FairSpec == Spec /\ Fairness
----------------------------------------------------------------------------
ThreadPlaces == {"idle", "read", "enter", "hash", "loading", "settle",
                 "stream", "failed", "take", "cold", "ended"}
Codes == {"none", "adapter_failed", "deadline_exceeded", "cancelled", "stale_event",
          "no_speech_detected", "granite_worker_missing", "memory_below_granite_floor",
          "granite_quarantined", "not_configured"}
Requests == [command : {"load", "start", "push", "finish"}, session : 0 .. MaxCommands,
             sequence : 0 .. Chunks, sent : BOOLEAN]

(* ProviderIntegrity; WarmVerification, whose ResidentMismatch needs a       *)
(* second admitted pack.                                                    *)
Integrities == {"unrecorded", "ok", "gpu_install_not_operational",
                "running_beyond_record", "gpu_record_unconfirmed"}
Verifications == {"not_attempted", "verified", "already_loaded", "failed"}

(* The shapes of the coordinator's, the client's and the workers' state.    *)
TypeOK ==
  /\ machine \in Machines
  /\ disk \in {"absent", "intact", "corrupt"}
  /\ status \in {"absent", "installed_unverified", "verifying", "verified_on_disk",
                 "failed", "downloading", "cancelled"}
  /\ override \in Providers \cup {"none"}
  /\ crashes \in Nat
  /\ slot \in Workers \cup {NoWorker} /\ lock \in Threads \cup {NoThread}
  /\ warm \in {"cold", "warming", "ready", "adapter_failed", "not_configured",
               "granite_model_files_unverified", "granite_worker_missing",
               "memory_below_granite_floor"}
  /\ device \in {"not_configured", "cpu", "cuda", "cuda_unverified"}
  /\ integrity \in Integrities
  /\ \A p \in Workers :
       /\ proc[p].life \in {"none", "alive", "crashed", "killed"}
       /\ Len(proc[p].inbox) + Len(proc[p].outbox) <= 1
  /\ \A t \in Threads :
       /\ thread[t].at \in ThreadPlaces /\ thread[t].error \in Codes
       /\ thread[t].proc \in Workers \cup {NoWorker}
       /\ thread[t].verification \in Verifications
  /\ request \in Requests /\ cancel \in BOOLEAN
  /\ lease \in BOOLEAN /\ arbiter \in {"none", "dictation", "engine", "install"}
  /\ ui.at \in {"idle", "take", "cold", "warm"}
  /\ passes \in 0 .. MaxCommands /\ commands \in 0 .. MaxCommands /\ faults \in 0 .. MaxFaults

(* The dock says "ready" only while a worker is resident, or in the instant *)
(* between an invalidate's two stores: warm loads, retests, restarts,       *)
(* switches and failing passes all store the slot and the warm state        *)
(* separately (shutdown, ensure_ready).                                     *)
ReadyIsResident ==
  warm = "ready" => slot # NoWorker \/ ui.at = "cold" \/ thread[Pass].at = "cold"

(* The device and the integrity verdict on show are those of the resident   *)
(* worker, whichever thread loaded it and whatever was switched since       *)
(* (record_worker_provider).                                                *)
ResidentIsDescribed ==
  slot # NoWorker =>
    /\ device = DeviceName(HasCuda(slot), proc[slot].context)
    /\ integrity = Assess(proc[slot].provider, device)

(* No reply to an abandoned request is left for the next one to read: a     *)
(* client that stops waiting kills its worker (receive_until), so every     *)
(* reply in the pipe answers the request the pass is waiting for.           *)
NoStaleResponse ==
  Running(Pass, "stream") =>
    \A i \in DOMAIN proc[Held].outbox :
      request.sent /\ proc[Held].outbox[i].request = request

(* A pass that returns a transcript heard its own utterance, every chunk    *)
(* once and in order, although workers outlive the passes that used them,   *)
(* crash, and keep the streams of passes that were cancelled                *)
(* (BatchFinalPass::run, push_audio).                                       *)
TranscriptIsWhole ==
  Running(Pass, "ended") /\ thread[Pass].error = "none" =>
    heard = [i \in 1 .. Chunks |-> <<passes, i - 1>>]

(* A pack is called verified only if its bytes hashed, by a warm thread     *)
(* that may settle long after the files were replaced (settled_model_state).*)
VerifiedIsIntact == status = "verified_on_disk" => disk # "corrupt"

(* Dictation is blocked while the status is "verifying", so every warm      *)
(* thread that was announced settles it, whatever the warm came to          *)
(* (warm_granite_engine, settle_after_warm).                                *)
VerifyingEnds == status = "verifying" ~> status # "verifying"

(* The runtime lease comes back even if the worker hangs, dies or is        *)
(* discarded under the pass (receive_until's deadline).                     *)
PassReturns == lease ~> ~lease

(* What the desktop says of its engine is so: "ready" means a resident      *)
(* worker, the device and the verdict shown are that worker's, and           *)
(* "verified" means the files on the disk are the pinned ones.               *)
StatusIsTrue ==
  /\ ReadyIsResident
  /\ ResidentIsDescribed
  /\ VerifiedIsIntact

(* A pass reads the replies to its own requests and nothing left over from a *)
(* pass that was cancelled or timed out, and its transcript is of every      *)
(* chunk of its own utterance, once and in order.                            *)
PassIsWhole == NoStaleResponse /\ TranscriptIsWhole

(* Neither the verification nor a pass, both of which the user waits for,    *)
(* goes on for ever.                                                         *)
CallsReturn == VerifyingEnds /\ PassReturns
=============================================================================
