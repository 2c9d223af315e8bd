----------------------------- MODULE Dictation -----------------------------
(***************************************************************************)
(* One dictation from key press to delivered text, with every thread that  *)
(* takes part in it (apps/desktop/src-tauri/src):                          *)
(*                                                                         *)
(*   main     the UI thread: shortcut handler, dock buttons, cancel        *)
(*   thread   the capture thread of each session (capture_wizard.rs)       *)
(*   watcher  the 200 ms poll that notices a capture ending by itself      *)
(*   waiter   the task that waits for retained audio and queues it         *)
(*   runner   the single queue consumer and the settings page's retry      *)
(*                                                                         *)
(* The threads share the capture coordinator (status, active, retained,    *)
(* stop_requested, cancelled), the activation reducer, the exclusive       *)
(* operation slot, the runtime lease and the HUD's live state, and take    *)
(* their locks one store at a time; each action below is one such store,   *)
(* or several that hold a common lock.                                     *)
(***************************************************************************)
EXTENDS ActivationReducer, Sequences, FiniteSets

CONSTANTS
  MaxSessions,   \* bound: session identifiers issued by one behaviour
  Mode,          \* HotkeyCoordinator.mode
  Capacity,      \* DEFAULT_FINALIZATION_QUEUE_CAPACITY
  MaxCancels,    \* bound: cancel presses
  MaxRetries,    \* bound: retry presses
  Environment    \* what the environment may do; see EnvironmentEvents

(* "ceiling": a recording may reach the two-minute limit                    *)
(* "device_fault": the device may fail to open, fault, or yield no frames   *)
(* "empty_text": personalization may leave no text                          *)
(* "exclusive": another exclusive operation may own the arbiter             *)
(* "late_stop": a stop may land between two adjacent steps of a thread: a   *)
(*   capture's last status store and the release of its slot, or the two    *)
(*   reads of a watcher's poll                                              *)
(* "untimely": the pollers and the drain may be slower than the user; when  *)
(*   absent, the Timely... operators below are assumed                      *)
EnvironmentEvents == {"ceiling", "device_fault", "empty_text", "exclusive",
                      "late_stop", "untimely"}

ASSUME ConstantsAssumption ==
  /\ MaxSessions \in Nat \ {0}
  /\ Mode \in ActivationModes
  /\ Capacity \in Nat \ {0}
  /\ MaxCancels \in Nat
  /\ MaxRetries \in Nat
  /\ Environment \subseteq EnvironmentEvents

Sessions == 1 .. MaxSessions
Other == MaxSessions + 1          \* an ExclusiveOperation that is no dictation
Waiters == {"stop", "watch"} \X Sessions
Runners == {"queue", "retry"}

VARIABLES
  main, target,                   \* UI thread: its place, the session it handles
  hotSession, activation,         \* HotkeyCoordinator
  status, active, retained, stopRequested, cancelled, stopFlag,
                                  \* CaptureWizardCoordinator
  thread, watcher, waiter, held,  \* per session, per waiter
  queue, runner, job, result,     \* OrderedFinalizationQueue and its consumers
  lease, token,                   \* RuntimeWizardCoordinator.active
  slot, owner,                    \* OperationCoordinator
  resolved,                       \* CaptureHudCoordinator.live: delivery_outcome.is_some()
  issued, cancels, retries,       \* counters that bound the behaviour
  delivered,                      \* history: utterances delivered, in order
  abandoned                       \* history: captures cancelled before they ended

mainVars    == <<main, target>>
hotkeyVars  == <<hotSession, activation>>
captureVars == <<status, active, retained, stopRequested, cancelled, stopFlag>>
waiterVars  == <<waiter, held>>
runnerVars  == <<queue, runner, job, result, lease, token>>
opVars      == <<slot, owner>>
boundVars   == <<issued, cancels, retries>>
ghostVars   == <<delivered, abandoned>>

vars == <<mainVars, hotkeyVars, captureVars, thread, watcher, waiterVars,
          runnerVars, opVars, resolved, boundVars, ghostVars>>

MainPlaces   == {"idle", "check", "claim", "arm", "spawn", "stop", "drain",
                 "cancel_capture", "cancel_rest"}
Statuses     == {"idle", "arming", "capturing", "draining", "captured",
                 "finalizing", "complete", "failed"}
ThreadPlaces == {"none", "arming", "recording", "ok", "err", "keep", "kept",
                 "fail", "release", "discard", "rest", "done"}
WatcherPlaces == {"none", "watching", "deliver", "no_audio", "done"}
WaiterPlaces == {"none", "waiting", "ready", "holding", "done"}
RunnerPlaces == {"idle", "pass", "answered", "publish", "deliver", "deliver_empty"}
Results      == {"none", "ok", "silence", "error"}

Init ==
  /\ main = "idle" /\ target = NoSession
  /\ hotSession = NoSession /\ activation = DefaultReducer
  /\ status = "idle" /\ active = NoSession /\ retained = NoSession
  /\ stopRequested = FALSE /\ cancelled = FALSE
  /\ stopFlag = [s \in Sessions |-> FALSE]
  /\ thread = [s \in Sessions |-> "none"]
  /\ watcher = [s \in Sessions |-> "none"]
  /\ waiter = [w \in Waiters |-> "none"]
  /\ held = [w \in Waiters |-> NoSession]
  /\ queue = <<>>
  /\ runner = [r \in Runners |-> "idle"]
  /\ job = [r \in Runners |-> NoSession]
  /\ result = [r \in Runners |-> "none"]
  /\ lease = "none" /\ token = FALSE
  /\ slot = NoSession /\ owner = NoSession
  /\ resolved = FALSE
  /\ issued = 0 /\ cancels = 0 /\ retries = 0
  /\ delivered = <<>> /\ abandoned = {}

-----------------------------------------------------------------------------
(* Shared steps *)

(* Mutant: start_with_identity does not look at the capture slot *)
CaptureSlotUnchecked == TRUE

(* CaptureWizardCoordinator.active is None *)
CaptureSlotFree == active = NoSession

(* HotkeyCoordinator::abandon_active_session *)
AbandonActiveSession ==
  /\ hotSession' = NoSession
  /\ activation' = DefaultReducer

(* OperationArbiter::finish of the operation in the slot, if there is one *)
OwnerWithoutSlot == IF slot # NoSession /\ owner = slot THEN NoSession ELSE owner

(* Mutant: the slot is emptied and the arbiter never told *)
FinishDictationKeepingOwner ==
  /\ slot' = NoSession
  /\ owner' = owner

(* OperationCoordinator::finish_dictation: whatever dictation is in the slot, *)
(* not necessarily the caller's                                               *)
FinishDictation ==
  /\ slot' = NoSession
  /\ owner' = OwnerWithoutSlot

(* Mutant: transcribed text counts as delivered *)
DictationIsFinishingEarly ==
  \/ status \in {"draining", "captured", "finalizing"}

(* hud_session_with_delivery(..) is "stopping" or "finalizing" *)
DictationIsFinishing ==
  \/ status \in {"draining", "captured", "finalizing"}
  \/ status = "complete" /\ ~resolved

-----------------------------------------------------------------------------
(* The UI thread: shortcut events and dock buttons *)

FreshSession == issued + 1

(* The reducer input of a shortcut event; a released key means nothing      *)
(* outside push-to-talk.                                                    *)
ShortcutInputs ==
  CASE Mode = "toggle"       -> {"toggle_pressed"}
    [] Mode = "push_to_talk" -> {"push_to_talk_pressed", "push_to_talk_released"}
    [] Mode = "hands_free"   -> {"hands_free_pressed"}

(* Act on what the reducer decided: HotkeyAction::Start or ::Stop.  Every   *)
(* other effect changes nothing.                                            *)
ActOn(decision, s) ==
  /\ activation' = decision.reducer
  /\ \/ /\ decision.effect = "start"
        /\ hotSession' = s
        /\ main' = "check"
        /\ issued' = IF s > issued THEN s ELSE issued
     \/ /\ decision.effect = "stop"
        /\ hotSession' = NoSession
        /\ main' = "stop"
        /\ issued' = issued
  /\ target' = s
  /\ UNCHANGED <<captureVars, thread, watcher, waiterVars, runnerVars, opVars,
                 resolved, cancels, retries, ghostVars>>

(* HotkeyCoordinator::on_event; a debounced press is a stuttering step *)
OnEvent ==
  /\ main = "idle"
  /\ \E input \in ShortcutInputs :
       LET s == IF hotSession # NoSession THEN hotSession ELSE FreshSession
       IN  s \in Sessions /\ ActOn(ApplyActivation(activation, input, s), s)

(* HotkeyCoordinator::request_start, from the dock's button *)
RequestStart ==
  /\ main = "idle"
  /\ FreshSession \in Sessions
  /\ LET decision == ApplyActivation(activation, "toggle_pressed", FreshSession)
     IN  decision.effect = "start" /\ ActOn(decision, FreshSession)

(* HotkeyCoordinator::request_stop, from the dock's button *)
RequestStop ==
  /\ main = "idle"
  /\ hotSession # NoSession
  /\ LET decision == ApplyActivation(activation, "manual_stop", hotSession)
     IN  decision.effect = "stop" /\ ActOn(decision, hotSession)

-----------------------------------------------------------------------------
(* The UI thread inside start_dictation *)

(* A refusal before anything was claimed: still finishing, or a blocker or  *)
(* a missing device, which the environment decides.                         *)
StartRefused ==
  /\ main = "check"
  /\ main' = "idle" /\ target' = NoSession
  /\ AbandonActiveSession
  /\ UNCHANGED <<captureVars, thread, watcher, waiterVars, runnerVars,
                 opVars, resolved, boundVars, ghostVars>>

(* A poller that its next poll would end. *)
PollEnds(w) == waiter[w] = "waiting" /\ status \in {"captured", "failed"}
CaptureRuns == status \in {"arming", "capturing"}
WatchEnds(s) ==
  watcher[s] = "watching" /\ (stopRequested \/ ~CaptureRuns)

(* Timing assumption: an ended capture releases its slot, and the 25 ms and *)
(* 200 ms polls that notice its end run, before the user starts another one.*)
TimelyPollers ==
  "untimely" \in Environment
    \/ (/\ \A w \in Waiters : ~PollEnds(w) /\ waiter[w] # "ready"
        /\ \A s \in Sessions :
             /\ ~WatchEnds(s) /\ watcher[s] \notin {"deliver", "no_audio"}
             /\ thread[s] # "release")

StartAdmitted ==
  /\ main = "check"
  /\ TimelyPollers
  /\ ~DictationIsFinishing
  /\ main' = "claim"
  /\ UNCHANGED <<target, hotkeyVars, captureVars, thread, watcher, waiterVars,
                 runnerVars, opVars, resolved, boundVars, ghostVars>>

(* start_for_session refuses: capture_already_active, or a conflict in      *)
(* replace_completed_dictation.  finish_dictation runs either way.          *)
StartRejected ==
  /\ main = "claim"
  /\ ~CaptureSlotFree \/ OwnerWithoutSlot \notin {NoSession, target}
  /\ resolved' = FALSE                  \* CaptureHudCoordinator::begin
  /\ main' = "idle" /\ target' = NoSession
  /\ FinishDictation
  /\ AbandonActiveSession
  /\ UNCHANGED <<captureVars, thread, watcher, waiterVars, runnerVars,
                 boundVars, ghostVars>>

(* start_with_identity under the active lock: replace_completed_dictation   *)
(* admits the session, which takes the capture slot.                        *)
StartClaims ==
  /\ main = "claim"
  /\ CaptureSlotFree
  /\ OwnerWithoutSlot \in {NoSession, target}
  /\ resolved' = FALSE                  \* CaptureHudCoordinator::begin
  /\ slot' = target /\ owner' = target
  /\ active' = target
  /\ main' = "arm"
  /\ UNCHANGED <<target, hotkeyVars, status, retained, stopRequested, cancelled,
                 stopFlag, thread, watcher, waiterVars, runnerVars, boundVars,
                 ghostVars>>

(* Mutant: the audio of the previous capture is not dropped *)
StartArmsKeepingAudio ==
  /\ main = "arm"
  /\ status' = "arming"
  /\ main' = "spawn"
  /\ UNCHANGED <<target, hotkeyVars, retained, active, stopRequested, cancelled, stopFlag,
                 thread, watcher, waiterVars, runnerVars, opVars, resolved,
                 boundVars, ghostVars>>

StartArms ==
  /\ main = "arm"
  /\ retained' = NoSession
  /\ status' = "arming"
  /\ main' = "spawn"
  /\ UNCHANGED <<target, hotkeyVars, active, stopRequested, cancelled, stopFlag,
                 thread, watcher, waiterVars, runnerVars, opVars, resolved,
                 boundVars, ghostVars>>

(* The shared flags are reset and the two threads of the session spawned *)
StartSpawns ==
  /\ main = "spawn"
  /\ stopRequested' = FALSE
  /\ cancelled' = FALSE
  /\ thread' = [thread EXCEPT ![target] = "arming"]
  /\ watcher' = [watcher EXCEPT ![target] = "watching"]
  /\ main' = "idle" /\ target' = NoSession
  /\ UNCHANGED <<hotkeyVars, status, active, retained, stopFlag,
                 waiterVars, runnerVars, opVars, resolved, boundVars, ghostVars>>

-----------------------------------------------------------------------------
(* The UI thread inside stop_dictation and capture_transcribe_cancel *)

(* CaptureWizardCoordinator::stop up to its status store; the active lock   *)
(* is held until that store.                                                *)
StopSignals ==
  /\ main = "stop"
  /\ "late_stop" \in Environment \/ \A s \in Sessions : thread[s] # "release"
  /\ IF active = NoSession
     THEN /\ main' = "idle" /\ target' = NoSession     \* capture_not_active
          /\ UNCHANGED <<stopRequested, stopFlag>>
     ELSE /\ main' = "drain" /\ UNCHANGED target
          /\ stopRequested' = TRUE
          /\ stopFlag' = [stopFlag EXCEPT ![active] = TRUE]
  /\ UNCHANGED <<hotkeyVars, status, active, retained, cancelled, thread,
                 watcher, waiterVars, runnerVars, opVars, resolved, boundVars,
                 ghostVars>>

(* stop's status store, then transcribe_and_deliver *)
StopDrains ==
  /\ main = "drain"
  /\ status' = "draining"
  /\ waiter' = [waiter EXCEPT ![<<"stop", target>>] = "waiting"]
  /\ main' = "idle" /\ target' = NoSession
  /\ UNCHANGED <<hotkeyVars, active, retained, stopRequested, cancelled,
                 stopFlag, thread, watcher, held, runnerVars, opVars, resolved,
                 boundVars, ghostVars>>

(* A capture whose thread has not yet asked whether it was cancelled *)
Unjudged(s) == thread[s] \in {"arming", "recording", "ok", "err"}

CancelPressed ==
  /\ main = "idle"
  /\ cancels < MaxCancels
  /\ cancels' = cancels + 1
  /\ cancelled' = TRUE
  /\ abandoned' = abandoned \cup {s \in Sessions : Unjudged(s)}
  /\ main' = "cancel_capture"
  /\ UNCHANGED <<target, hotkeyVars, status, active, retained, stopRequested,
                 stopFlag, thread, watcher, waiterVars, runnerVars, opVars,
                 resolved, issued, retries, delivered>>

(* The rest of CaptureWizardCoordinator::cancel *)
CancelCapture ==
  /\ main = "cancel_capture"
  /\ IF active # NoSession
     THEN /\ stopRequested' = TRUE
          /\ stopFlag' = [stopFlag EXCEPT ![active] = TRUE]
          /\ UNCHANGED <<retained, status>>
     ELSE /\ retained' = NoSession
          /\ status' = "idle"
          /\ UNCHANGED <<stopRequested, stopFlag>>
  /\ main' = "cancel_rest"
  /\ UNCHANGED <<target, hotkeyVars, active, cancelled, thread, watcher,
                 waiterVars, runnerVars, opVars, resolved, boundVars, ghostVars>>

(* runtime.cancel, abandon_active_session, finish_dictation, hud.abandon *)
CancelRest ==
  /\ main = "cancel_rest"
  /\ token' = (token \/ lease # "none")
  /\ AbandonActiveSession
  /\ FinishDictation
  /\ resolved' = FALSE                  \* CaptureHudCoordinator::abandon
  /\ main' = "idle" /\ target' = NoSession
  /\ UNCHANGED <<captureVars, thread, watcher, waiterVars, queue, runner,
                 job, result, lease, boundVars, ghostVars>>

-----------------------------------------------------------------------------
(* The capture thread *)

ThreadStep(s, from, to) ==
  /\ thread[s] = from
  /\ thread' = [thread EXCEPT ![s] = to]

(* The device opens: capture() reports "capturing", whatever the status was *)
ThreadOpens(s) ==
  /\ ThreadStep(s, "arming", "recording")
  /\ status' = "capturing"
  /\ UNCHANGED <<mainVars, hotkeyVars, active, retained, stopRequested, cancelled,
                 stopFlag, watcher, waiterVars, runnerVars, opVars, resolved,
                 boundVars, ghostVars>>

(* Timing assumption: the handler the UI thread is in ends before a capture *)
(* thread has drained its device or published the result.                   *)
TimelyDrain == "untimely" \in Environment \/ main = "idle"

(* capture() returns Ok: the user's stop, or the safety ceiling *)
ThreadRecorded(s) ==
  /\ ThreadStep(s, "recording", "ok")
  /\ \/ stopFlag[s] /\ TimelyDrain
     \/ ~stopFlag[s] /\ "ceiling" \in Environment
  /\ UNCHANGED <<mainVars, hotkeyVars, captureVars, watcher, waiterVars,
                 runnerVars, opVars, resolved, boundVars, ghostVars>>

(* capture() returns Err: open failure, device fault, or no frames at all *)
ThreadFaults(s) ==
  /\ "device_fault" \in Environment
  /\ ThreadStep(s, "arming", "err") \/ ThreadStep(s, "recording", "err")
  /\ TimelyDrain
  /\ UNCHANGED <<mainVars, hotkeyVars, captureVars, watcher, waiterVars,
                 runnerVars, opVars, resolved, boundVars, ghostVars>>

(* Mutant: a capture the user had stopped before cancelling is kept *)
DiscardsUnlessDraining == cancelled /\ status # "draining"

Discards == cancelled

(* The one look at the shared cancelled flag; discard_cancelled_capture     *)
(* begins by dropping the retained audio.                                   *)
ThreadJudges(s) ==
  /\ \/ /\ Discards
        /\ ThreadStep(s, "ok", "discard") \/ ThreadStep(s, "err", "discard")
        /\ retained' = NoSession
     \/ /\ ~Discards
        /\ ThreadStep(s, "ok", "keep") \/ ThreadStep(s, "err", "fail")
        /\ UNCHANGED retained
  /\ UNCHANGED <<mainVars, hotkeyVars, status, active, stopRequested, cancelled,
                 stopFlag, watcher, waiterVars, runnerVars, opVars, resolved,
                 boundVars, ghostVars>>

(* retain_captured *)
ThreadRetains(s) ==
  /\ ThreadStep(s, "keep", "kept")
  /\ retained' = s
  /\ UNCHANGED <<mainVars, hotkeyVars, status, active, stopRequested, cancelled,
                 stopFlag, watcher, waiterVars, runnerVars, opVars, resolved,
                 boundVars, ghostVars>>

(* The status a capture ends with *)
ThreadPublishes(s) ==
  /\ TimelyDrain
  /\ \/ ThreadStep(s, "kept", "release") /\ status' = "captured"
     \/ ThreadStep(s, "fail", "release") /\ status' = "failed"
  /\ UNCHANGED <<mainVars, hotkeyVars, active, retained, stopRequested, cancelled,
                 stopFlag, watcher, waiterVars, runnerVars, opVars, resolved,
                 boundVars, ghostVars>>

(* The capture slot is emptied; stop() holds its lock while it drains *)
ThreadReleases(s) ==
  /\ main # "drain"
  /\ ThreadStep(s, "release", "done") \/ ThreadStep(s, "discard", "rest")
  /\ active' = NoSession
  /\ UNCHANGED <<mainVars, hotkeyVars, status, retained, stopRequested, cancelled,
                 stopFlag, watcher, waiterVars, runnerVars, opVars, resolved,
                 boundVars, ghostVars>>

(* The last store of discard_cancelled_capture, after the slot was released *)
ThreadRests(s) ==
  /\ ThreadStep(s, "rest", "done")
  /\ status' = "idle"
  /\ UNCHANGED <<mainVars, hotkeyVars, active, retained, stopRequested, cancelled,
                 stopFlag, watcher, waiterVars, runnerVars, opVars, resolved,
                 boundVars, ghostVars>>

-----------------------------------------------------------------------------
(* watch_for_unattended_capture_end *)

(* Mutant: the watcher ignores that the user's stop already took the audio *)
UnattendedAlways == TRUE

(* stop_was_requested answered no.  The flag is read before the view, so a  *)
(* stop that lands between the two reads is missed.                         *)
Unattended == ~stopRequested \/ "late_stop" \in Environment

(* Mutant: a capture that ended by itself is treated as one without audio *)
CanTranscribeNever == FALSE

(* CaptureWizardView.can_transcribe *)
CanTranscribe == status = "captured"

WatcherStep(s, to) ==
  /\ watcher[s] = "watching"
  /\ watcher' = [watcher EXCEPT ![s] = to]

(* A poll that ends the watch; any other poll changes nothing *)
WatcherPolls(s) ==
  /\ \/ stopRequested /\ WatcherStep(s, "done")
     \/ Unattended /\ CanTranscribe /\ WatcherStep(s, "deliver")
     \/ Unattended /\ ~CaptureRuns /\ ~CanTranscribe /\ WatcherStep(s, "no_audio")
  /\ UNCHANGED <<mainVars, hotkeyVars, captureVars, thread, waiterVars, runnerVars,
                 opVars, resolved, boundVars, ghostVars>>

(* request_stop or abandon_active_session, then transcribe_and_deliver or   *)
(* finish_dictation                                                         *)
WatcherActs(s) ==
  /\ watcher[s] \in {"deliver", "no_audio"}
  /\ watcher' = [watcher EXCEPT ![s] = "done"]
  /\ AbandonActiveSession
  /\ IF watcher[s] = "deliver"
     THEN waiter' = [waiter EXCEPT ![<<"watch", s>>] = "waiting"] /\ UNCHANGED opVars
     ELSE FinishDictation /\ UNCHANGED waiter
  /\ UNCHANGED <<mainVars, captureVars, thread, held, runnerVars, resolved,
                 boundVars, ghostVars>>

-----------------------------------------------------------------------------
(* transcribe_and_deliver: wait_for_captured_audio, retained_audio, submit *)

WaiterStep(w, from, to) ==
  /\ waiter[w] = from
  /\ waiter' = [waiter EXCEPT ![w] = to]

WaiterSeesAudio(w) ==
  /\ CanTranscribe
  /\ WaiterStep(w, "waiting", "ready")
  /\ UNCHANGED <<mainVars, hotkeyVars, captureVars, thread, watcher, held,
                 runnerVars, opVars, resolved, boundVars, ghostVars>>

(* Timing assumption: a capture that is ending is drained within            *)
(* CAPTURE_DRAIN_TIMEOUT, so a wait only times out on one that never will.  *)
TimelyTimeout ==
  \/ "untimely" \in Environment
  \/ \A s \in Sessions :
       \/ thread[s] \in {"none", "done"}
       \/ thread[s] \in {"arming", "recording"} /\ ~stopFlag[s]

(* Mutant: the wait for audio has no deadline *)
DrainNeverTimesOut == FALSE

(* CAPTURE_DRAIN_TIMEOUT has passed *)
DrainTimedOut == status \notin {"captured", "failed"} /\ TimelyTimeout

(* retained_audio() is Ok *)
AudioRetained == retained # NoSession

(* Mutant: the early return forgets finish_dictation *)
WaiterGivesUpLeaking(w) ==
  /\ \/ status = "failed" /\ WaiterStep(w, "waiting", "done")
     \/ DrainTimedOut /\ WaiterStep(w, "waiting", "done")
     \/ ~AudioRetained /\ WaiterStep(w, "ready", "done")
  /\ UNCHANGED <<mainVars, hotkeyVars, captureVars, thread, watcher, held,
                 runnerVars, opVars, resolved, boundVars, ghostVars>>

(* capture_failed, capture_drain_timeout, or nothing retained after all *)
WaiterGivesUp(w) ==
  /\ \/ status = "failed" /\ WaiterStep(w, "waiting", "done")
     \/ DrainTimedOut /\ WaiterStep(w, "waiting", "done")
     \/ ~AudioRetained /\ WaiterStep(w, "ready", "done")
  /\ FinishDictation
  /\ UNCHANGED <<mainVars, hotkeyVars, captureVars, thread, watcher, held,
                 runnerVars, resolved, boundVars, ghostVars>>

(* retained_audio() clones whichever utterance is retained now *)
WaiterClones(w) ==
  /\ AudioRetained
  /\ WaiterStep(w, "ready", "holding")
  /\ held' = [held EXCEPT ![w] = retained]
  /\ UNCHANGED <<mainVars, hotkeyVars, captureVars, thread, watcher, runnerVars,
                 opVars, resolved, boundVars, ghostVars>>

(* OrderedFinalizationQueue::submit waits while the queue is full *)
WaiterSubmits(w) ==
  /\ Len(queue) < Capacity
  /\ WaiterStep(w, "holding", "done")
  /\ queue' = Append(queue, held[w])
  /\ held' = [held EXCEPT ![w] = NoSession]
  /\ UNCHANGED <<mainVars, hotkeyVars, captureVars, thread, watcher, runner, job,
                 result, lease, token, opVars, resolved, boundVars, ghostVars>>

-----------------------------------------------------------------------------
(* run_retained_transcription, on the queue consumer and on a retry *)

(* The settings page offers Retry once a pass has failed; what it shows is  *)
(* as old as its last poll.                                                 *)
RetryOffered == "untimely" \in Environment \/ status = "failed"

(* The audio a runner would transcribe next, and how it leaves its source *)
TakeJob(r, audio) ==
  \/ /\ r = "queue" /\ queue # <<>>
     /\ audio = Head(queue)
     /\ queue' = Tail(queue)
     /\ UNCHANGED retries
  \/ /\ r = "retry" /\ retries < MaxRetries /\ RetryOffered
     /\ AudioRetained /\ audio = retained
     /\ retries' = retries + 1
     /\ UNCHANGED queue

(* Mutant: runtime.begin does not look for a running pass *)
LeaseUnchecked == TRUE

(* RuntimeWizardCoordinator.active is None *)
LeaseFree == lease = "none"

(* runtime.begin succeeds, then mark_finalizing *)
RunnerBegins(r) ==
  /\ runner[r] = "idle"
  /\ LeaseFree
  /\ \E audio \in Sessions :
       TakeJob(r, audio) /\ job' = [job EXCEPT ![r] = audio]
  /\ lease' = r /\ token' = FALSE
  /\ status' = "finalizing"
  /\ runner' = [runner EXCEPT ![r] = "pass"]
  /\ UNCHANGED <<mainVars, hotkeyVars, active, retained, stopRequested, cancelled,
                 stopFlag, thread, watcher, waiterVars, result, opVars, resolved,
                 issued, cancels, ghostVars>>

(* runtime_busy: another pass holds the lease.  The consumer is one thread;  *)
(* a retry is a new task for every press.                                    *)
RunnerBusy(r) ==
  /\ r = "queue" => runner[r] = "idle"
  /\ ~LeaseFree
  /\ \E audio \in Sessions : TakeJob(r, audio)
  /\ status' = "failed"
  /\ FinishDictation
  /\ UNCHANGED <<mainVars, hotkeyVars, active, retained, stopRequested, cancelled,
                 stopFlag, thread, watcher, waiterVars, runner, job, result, lease,
                 token, resolved, issued, cancels, ghostVars>>

(* The Granite pass and its verdict.  The client looks at the token while   *)
(* it waits, and no longer once the worker has answered.                    *)
RunnerHears(r) ==
  /\ runner[r] = "pass"
  /\ \E verdict \in {"ok", "silence", "error"} :
       /\ token => verdict = "error"
       /\ result' = [result EXCEPT ![r] = verdict]
  /\ runner' = [runner EXCEPT ![r] = "answered"]
  /\ UNCHANGED <<mainVars, hotkeyVars, captureVars, thread, watcher, waiterVars,
                 queue, job, lease, token, opVars, resolved, boundVars, ghostVars>>

(* runtime.finish and finish_dictation *)
RunnerFinishes(r) ==
  /\ runner[r] = "answered"
  /\ runner' = [runner EXCEPT ![r] = "publish"]
  /\ lease' = "none" /\ token' = FALSE
  /\ FinishDictation
  /\ UNCHANGED <<mainVars, hotkeyVars, captureVars, thread, watcher, waiterVars,
                 queue, job, result, resolved, boundVars, ghostVars>>

(* publish_successful_transcript and mark_transcription_finished.  Text that *)
(* personalization emptied is rejected by ResultCoordinator::accept before   *)
(* the status is stored.                                                     *)
RunnerPublishes(r) ==
  /\ runner[r] = "publish"
  /\ \/ /\ result[r] = "ok"
        /\ status' = "complete"
        /\ runner' = [runner EXCEPT ![r] = IF r = "queue" THEN "deliver" ELSE "idle"]
     \/ /\ result[r] = "ok" /\ "empty_text" \in Environment
        /\ UNCHANGED status
        /\ runner' = [runner EXCEPT ![r] = "idle"]
     \/ /\ result[r] = "silence"
        /\ status' = "complete"
        /\ runner' = [runner EXCEPT ![r] = IF r = "queue" THEN "deliver_empty" ELSE "idle"]
     \/ /\ result[r] = "error"
        /\ status' = "failed"
        /\ runner' = [runner EXCEPT ![r] = "idle"]
  /\ result' = [result EXCEPT ![r] = "none"]
  /\ job' = [job EXCEPT ![r] = IF runner'[r] = "idle" THEN NoSession ELSE job[r]]
  /\ UNCHANGED <<mainVars, hotkeyVars, active, retained, stopRequested, cancelled,
                 stopFlag, thread, watcher, waiterVars, queue, lease, token, opVars,
                 resolved, boundVars, ghostVars>>

(* Mutant: hud.finish is not called *)
RunnerDeliversSilently ==
  /\ runner["queue"] \in {"deliver", "deliver_empty"}
  /\ delivered' = IF runner["queue"] = "deliver"
                  THEN Append(delivered, job["queue"]) ELSE delivered
  /\ runner' = [runner EXCEPT !["queue"] = "idle"]
  /\ job' = [job EXCEPT !["queue"] = NoSession]
  /\ UNCHANGED <<mainVars, hotkeyVars, captureVars, thread, watcher, waiterVars,
                 queue, result, lease, token, opVars, resolved, boundVars,
                 abandoned>>

(* deliver_final_text on the consumer; every outcome ends in hud.finish,    *)
(* which does not ask whose session the HUD shows                           *)
RunnerDelivers ==
  /\ runner["queue"] \in {"deliver", "deliver_empty"}
  /\ delivered' = IF runner["queue"] = "deliver"
                  THEN Append(delivered, job["queue"]) ELSE delivered
  /\ resolved' = TRUE
  /\ runner' = [runner EXCEPT !["queue"] = "idle"]
  /\ job' = [job EXCEPT !["queue"] = NoSession]
  /\ UNCHANGED <<mainVars, hotkeyVars, captureVars, thread, watcher, waiterVars,
                 queue, result, lease, token, opVars, boundVars,
                 abandoned>>

-----------------------------------------------------------------------------
(* OperationCoordinator::begin and ::finish of a model or storage operation *)

ExclusiveBegins ==
  /\ "exclusive" \in Environment
  /\ owner = NoSession
  /\ owner' = Other
  /\ UNCHANGED <<mainVars, hotkeyVars, captureVars, thread, watcher, waiterVars,
                 runnerVars, slot, resolved, boundVars, ghostVars>>

ExclusiveFinishes ==
  /\ owner = Other
  /\ owner' = NoSession
  /\ UNCHANGED <<mainVars, hotkeyVars, captureVars, thread, watcher, waiterVars,
                 runnerVars, slot, resolved, boundVars, ghostVars>>

-----------------------------------------------------------------------------
User == OnEvent \/ RequestStart \/ RequestStop \/ CancelPressed

MainStep ==
  \/ StartRefused \/ StartAdmitted \/ StartRejected \/ StartClaims
  \/ StartArms \/ StartSpawns \/ StopSignals \/ StopDrains
  \/ CancelCapture \/ CancelRest

ThreadSteps(s) ==
  \/ ThreadOpens(s) \/ ThreadRecorded(s) \/ ThreadFaults(s) \/ ThreadJudges(s)
  \/ ThreadRetains(s) \/ ThreadPublishes(s) \/ ThreadReleases(s) \/ ThreadRests(s)

WatcherSteps(s) == WatcherPolls(s) \/ WatcherActs(s)

WaiterSteps(w) ==
  \/ WaiterSeesAudio(w) \/ WaiterGivesUp(w) \/ WaiterClones(w) \/ WaiterSubmits(w)

RunnerSteps(r) ==
  \/ RunnerBegins(r) \/ RunnerBusy(r) \/ RunnerHears(r) \/ RunnerFinishes(r)
  \/ RunnerPublishes(r)

Exclusive == ExclusiveBegins \/ ExclusiveFinishes

Next ==
  \/ User \/ MainStep \/ Exclusive \/ RunnerDelivers
  \/ \E s \in Sessions : ThreadSteps(s) \/ WatcherSteps(s)
  \/ \E w \in Waiters : WaiterSteps(w)
  \/ \E r \in Runners : RunnerSteps(r)

Spec == Init /\ [][Next]_vars

(* Every background thread keeps running: the operating system schedules    *)
(* them, the pass has a deadline, and a started handler runs to its end.    *)
(* Nothing is assumed of the user or of the other exclusive operations.     *)
Fairness ==
  /\ WF_vars(MainStep)
  /\ WF_vars(RunnerDelivers)
  /\ WF_vars(RunnerBegins("queue") \/ RunnerBusy("queue"))
  /\ \A s \in Sessions : WF_vars(ThreadSteps(s)) /\ WF_vars(WatcherSteps(s))
  /\ \A w \in Waiters : WF_vars(WaiterSteps(w))
  /\ \A r \in Runners : 
       WF_vars(RunnerHears(r) \/ RunnerFinishes(r) \/ RunnerPublishes(r))

FairSpec == Spec /\ Fairness

-----------------------------------------------------------------------------
(* Properties *)

OptSessions == Sessions \cup {NoSession}

(* Every variable holds a value of its type.                                *)
TypeOK ==
  /\ main \in MainPlaces /\ target \in OptSessions
  /\ hotSession \in OptSessions /\ activation \in ReducerType(Sessions)
  /\ status \in Statuses /\ active \in OptSessions /\ retained \in OptSessions
  /\ stopRequested \in BOOLEAN /\ cancelled \in BOOLEAN
  /\ stopFlag \in [Sessions -> BOOLEAN]
  /\ thread \in [Sessions -> ThreadPlaces]
  /\ watcher \in [Sessions -> WatcherPlaces]
  /\ waiter \in [Waiters -> WaiterPlaces] /\ held \in [Waiters -> OptSessions]
  /\ queue \in Seq(Sessions)
  /\ runner \in [Runners -> RunnerPlaces]
  /\ job \in [Runners -> OptSessions] /\ result \in [Runners -> Results]
  /\ lease \in Runners \cup {"none"} /\ token \in BOOLEAN
  /\ slot \in OptSessions /\ owner \in OptSessions \cup {Other}
  /\ resolved \in BOOLEAN
  /\ issued \in 0 .. MaxSessions /\ cancels \in Nat /\ retries \in Nat
  /\ delivered \in Seq(Sessions)
  /\ abandoned \subseteq Sessions

(* A capture thread between its spawn and the release of the capture slot *)
Capturing(s) ==
  thread[s] \in {"arming", "recording", "ok", "err", "keep", "kept", "fail",
                 "release", "discard"}

(* The microphone belongs to one capture: whichever way presses, cancels    *)
(* and device faults interleave, two capture threads never run at once, and *)
(* the one that runs is the one the capture slot names                      *)
(* (CaptureWizardCoordinator.active).                                       *)
MicrophoneExclusive == \A s \in Sessions : Capturing(s) => active = s

(* Only one inference pass runs at a time, although the queue consumer and  *)
(* a retry both run run_retained_transcription: a pass always holds the     *)
(* runtime lease, and the lease is never left behind.                       *)
PassHoldsLease == \A r \in Runners : runner[r] \in {"pass", "answered"} <=> lease = r

(* The audio kept for transcription is that of the newest capture: a slow   *)
(* thread of an earlier session never overwrites or resurrects it.          *)
RetainedIsNewest ==
  retained # NoSession =>
    \A s \in Sessions : s > retained => thread[s] = "none"

(* The dictation slot and the arbiter agree: a dictation in the slot owns   *)
(* the arbiter, and a dictation never owns it without being in the slot, so *)
(* finish_dictation can always release what was claimed.                    *)
ArbiterMatchesSlot ==
  /\ slot # NoSession => owner = slot
  /\ owner \in Sessions => slot = owner

(* Cancelling while the microphone is open throws the recording away: a     *)
(* capture whose thread had not yet looked at the cancelled flag is never   *)
(* retained, queued, transcribed or delivered afterwards, although the flag *)
(* is shared by all captures and reset by the next start.                   *)
CancelledCaptureIsDropped ==
  \A s \in abandoned :
    /\ retained # s
    /\ \A w \in Waiters : held[w] # s
    /\ \A r \in Runners : job[r] # s
    /\ \A i \in 1 .. Len(queue) : queue[i] # s
    /\ \A i \in 1 .. Len(delivered) : delivered[i] # s

(* An utterance is delivered at most once and deliveries follow the order   *)
(* in which the utterances were recorded.                                   *)
DeliveredInOrder ==
  \A i, j \in 1 .. Len(delivered) : i < j => delivered[i] < delivered[j]

(* One dictation at a time: while a microphone is open nothing of an        *)
(* earlier dictation is still waiting, queued, transcribing or delivering.  *)
OneDictationAtATime ==
  \A s \in Sessions :
    thread[s] \in {"arming", "recording"} =>
      /\ \A w \in Waiters : waiter[w] \in {"waiting", "ready", "holding"} => w[2] = s
      /\ queue = <<>>
      /\ runner["queue"] = "idle"

(* Every runner is between two passes.                                      *)
NoPass == \A r \in Runners : runner[r] = "idle"

(* A late stop: one that came after the capture's last status store and     *)
(* before the release of its slot has stored "draining" over that store, or *)
(* one that came between the two reads of a watcher's poll was missed there,*)
(* so that the stop and the watcher both submit the audio.                  *)
Overtaken(s) == status = "draining" /\ thread[s] \in {"release", "done"}
TakenTwice == \E s \in Sessions :
                waiter[<<"stop", s>>] # "none" /\ waiter[<<"watch", s>>] # "none"

(* A pass whose text personalization emptied has ended.                     *)
Emptied == status = "finalizing" /\ NoPass

(* A retry of the settings page was pressed: its pass stores the status     *)
(* over that of a dictation started meanwhile, and nobody delivers its text.*)
Retried == retries > 0

(* The refusal of the next press ends, whatever the capture, the pass and   *)
(* the delivery run into, with three exceptions, after which the code may   *)
(* stay in the state DictationIsFinishing refuses on until Cancel: a late   *)
(* stop, an emptied text and a retry.  It is not said of threads slower     *)
(* than the user, nor where a cancel or another exclusive operation may     *)
(* come, which may leave that state behind as well.                         *)
FinishingEnds ==
  MaxCancels = 0 /\ Environment \cap {"exclusive", "untimely"} = {} =>
    (DictationIsFinishing ~>
        ~DictationIsFinishing \/ Emptied \/ Retried \/ TakenTwice
          \/ \E s \in Sessions : Overtaken(s))

(* A stop, or a capture that ended by itself, is always followed through:   *)
(* the task waiting for its audio queues it or gives up.                    *)
StopIsFollowedThrough ==
  \A w \in Waiters : waiter[w] = "waiting" ~> waiter[w] = "done"

(* The exclusive operation a dictation claimed is always given back.        *)
OperationIsReleased == \A s \in Sessions : slot = s ~> slot # s

(* Audio that was captured and not cancelled reaches an inference pass, or  *)
(* the status says "failed" while it is still retained, so that Retry would *)
(* transcribe it.  The exceptions are the code's: a late stop, which stores *)
(* "draining" over this very capture's "captured"; audio submitted twice,   *)
(* or a retry pressed, whose pass stores its status over this capture's.    *)
(* It is not said of threads slower than the user or with a cancel.         *)
CapturedIsTranscribed ==
  MaxCancels = 0 /\ "untimely" \notin Environment =>
    \A s \in Sessions :
      thread[s] = "keep" ~>
        \/ \E r \in Runners : job[r] = s
        \/ status = "failed" /\ retained = s
        \/ Overtaken(s) /\ retained = s
        \/ Retried \/ TakenTwice
=============================================================================
