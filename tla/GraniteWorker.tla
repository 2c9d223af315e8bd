--------------------------- MODULE GraniteWorker ---------------------------
(***************************************************************************)
(* The granite-worker process (workers/granite-worker/src/main.rs) as the  *)
(* state machine its pipe drives: one request in, one reply out, the model *)
(* resident between requests and at most one audio stream open.            *)
(* Samples are abstracted to <<session, sequence>>, so that a transcript   *)
(* is the sequence of the chunks that the model heard.                     *)
(***************************************************************************)
EXTENDS Naturals, Sequences

CONSTANT MaxChunks   \* MAX_UTTERANCE_SAMPLES, in chunks

ASSUME MaxChunksAssumption == MaxChunks \in Nat \ {0}

NoStream == [session |-> 0, heard |-> <<>>]

(* Worker::new: no artifact, no model, no active stream.                    *)
FreshWorker == [loaded |-> FALSE, active |-> NoStream]

Reply(w, event) == [worker |-> w, event |-> event, heard |-> <<>>]
ErrorReply(w) == Reply(w, "error")

LoadModel(w, filesPresent, loads) ==
  IF w.active # NoStream THEN ErrorReply(w)
  ELSE IF w.loaded THEN Reply(w, "model_loaded")
  ELSE IF filesPresent /\ loads
       THEN Reply([w EXCEPT !.loaded = TRUE], "model_loaded")
       ELSE ErrorReply(w)

StartStream(w, session) ==
  IF w.active = NoStream /\ w.loaded
  THEN Reply([w EXCEPT !.active = [session |-> session, heard |-> <<>>]],
             "stream_started")
  ELSE ErrorReply(w)

PushAudio(w, session, sequence) ==
  IF /\ w.active.session = session
     /\ Len(w.active.heard) = sequence
     /\ Len(w.active.heard) < MaxChunks
  THEN Reply([w EXCEPT !.active.heard = Append(@, <<session, sequence>>)],
             "audio_accepted")
  ELSE ErrorReply(w)

(* The stream is closed whether or not inference succeeds.                  *)
FinishStream(w, session, infers) ==
  IF w.active.session # session THEN ErrorReply(w)
  ELSE LET closed == [w EXCEPT !.active = NoStream] IN
       IF infers THEN [Reply(closed, "stream_finished") EXCEPT !.heard = w.active.heard]
       ELSE ErrorReply(closed)

(* Worker::handle.  filesPresent, loads and infers are what the disk and    *)
(* the inference library answer.  Hello and Health change nothing; the      *)
(* client never sends UnloadModel, Cancel or Shutdown to this worker.       *)
Handle(w, request, filesPresent, loads, infers) ==
  CASE request.command = "load"   -> LoadModel(w, filesPresent, loads)
    [] request.command = "start"  -> StartStream(w, request.session)
    [] request.command = "push"   -> PushAudio(w, request.session, request.sequence)
    [] request.command = "finish" -> FinishStream(w, request.session, infers)

(* worker_response_is_terminal: the reply that ends each command.           *)
Terminal == [load |-> "model_loaded", start |-> "stream_started",
             push |-> "audio_accepted", finish |-> "stream_finished"]
=============================================================================
