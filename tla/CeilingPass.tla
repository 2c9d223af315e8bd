---------------------------- MODULE CeilingPass ----------------------------
(***************************************************************************)
(* One dictation that runs into its ceiling, from the microphone to the    *)
(* worker: the capture thread's clock (capture_wizard.rs capture), the     *)
(* utterance buffer that holds one second more than the ceiling            *)
(* (pipeline_config) and the worker's own limit on one utterance           *)
(* (granite-worker push_audio).  The three are two minutes by three        *)
(* clocks: the device's, the thread's and the worker's count of samples.   *)
(*                                                                         *)
(* A unit is an amount of audio the device delivers at once; a push        *)
(* carries one.  The device, the worker and its model work throughout.     *)
(***************************************************************************)
EXTENDS GraniteWorker

CONSTANTS Ceiling, \* MAX_CAPTURE_SECONDS, in units: the worker's MaxChunks too
          Spare    \* what the utterance buffer holds beyond it

VARIABLES pc,       \* the capture thread, then the pass
          recorded, \* units the device has delivered
          clock,    \* units since `started`
          sequence, \* the push that comes next
          worker    \* the worker process

vars == <<pc, recorded, clock, sequence, worker>>

Session == 1

Init ==
  /\ pc = "opening"
  /\ recorded = 0 /\ clock = 0 /\ sequence = 0
  /\ worker = FreshWorker

\* CpalCaptureSession::start_selected: the device runs when it returns.
OpenStream ==
  /\ pc = "opening" /\ pc' = "starting"
  /\ UNCHANGED <<recorded, clock, sequence, worker>>

\* started = Instant::now()
StartClock ==
  /\ pc = "starting" /\ pc' = "capturing"
  /\ UNCHANGED <<recorded, clock, sequence, worker>>

\* The device delivers; the buffer keeps what it has room for.
Deliver ==
  /\ pc \in {"starting", "capturing", "closing"}
  /\ clock <= Ceiling
  /\ recorded' = IF recorded < Ceiling + Spare THEN recorded + 1 ELSE recorded
  /\ clock' = IF pc = "starting" THEN clock ELSE clock + 1
  /\ UNCHANGED <<pc, sequence, worker>>

\* The user's stop, or Instant::now() >= deadline.
LeaveLoop(byUser) ==
  /\ pc = "capturing" /\ pc' = "closing"
  /\ byUser \/ clock >= Ceiling
  /\ UNCHANGED <<recorded, clock, sequence, worker>>

\* session.stop(), finish_utterance and judge_completion.
CloseStream ==
  /\ pc = "closing"
  /\ pc' = IF recorded = 0 THEN "empty" ELSE "pass"
  /\ UNCHANGED <<recorded, clock, sequence, worker>>

Answer(reply, place) ==
  /\ worker' = reply.worker
  /\ pc' = IF reply.event = "error" THEN "failed" ELSE place

BeginPass ==
  /\ pc = "pass"
  /\ LET loaded == Handle(worker, [command |-> "load"], TRUE, TRUE, TRUE)
     IN  Answer(Handle(loaded.worker, [command |-> "start", session |-> Session],
                       TRUE, TRUE, TRUE), "push")
  /\ UNCHANGED <<recorded, clock, sequence>>

PushNext ==
  /\ pc = "push" /\ sequence < recorded
  /\ Answer(Handle(worker, [command |-> "push", session |-> Session,
                            sequence |-> sequence], TRUE, TRUE, TRUE), "push")
  /\ sequence' = sequence + 1
  /\ UNCHANGED <<recorded, clock>>

FinishPass ==
  /\ pc = "push" /\ sequence = recorded
  /\ Answer(Handle(worker, [command |-> "finish", session |-> Session],
                   TRUE, TRUE, TRUE), "transcribed")
  /\ UNCHANGED <<recorded, clock, sequence>>

Next ==
  \/ OpenStream \/ StartClock \/ Deliver \/ CloseStream
  \/ \E byUser \in BOOLEAN : LeaveLoop(byUser)
  \/ BeginPass \/ PushNext \/ FinishPass

Spec == Init /\ [][Next]_vars

(***************************************************************************)
(* What was captured is transcribed: the worker's limit is aligned with    *)
(* the ceiling of the capture, so that a dictation stopped by its ceiling  *)
(* is not refused by the worker.                                           *)
(***************************************************************************)
CeilingIsAligned == pc # "failed"
=============================================================================
