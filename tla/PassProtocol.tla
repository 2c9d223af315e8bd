---------------------------- MODULE PassProtocol ----------------------------
(***************************************************************************)
(* What one pass says over the pipe and what becomes of the answer: frames *)
(* and requests (worker_protocol.rs), the transcript a pass puts together  *)
(* from the worker's events (speakeasy-worker lib.rs), the generation loop *)
(* that produced it (speakeasy-granite) and the verdict on it              *)
(* (speakeasy-worker verdict.rs).                                          *)
(*                                                                         *)
(* Pure operators.  A stream of bytes is a sequence of numbers in which    *)
(* one number stands for the four bytes of a length.  A text is the number *)
(* of its words, 0 for a blank one.                                        *)
(*   event : [kind, session, words, final]                                 *)
(*   pass  : [outcome, words, error]                                       *)
(***************************************************************************)
EXTENDS Integers, Sequences, FiniteSets, SequencesExt

CONSTANTS MaxFrame,        \* MAX_FRAME_BYTES
          MaxPushSamples   \* MAX_AUDIO_SAMPLES_PER_REQUEST

-----------------------------------------------------------------------------
(***************************************************************************)
(* Frames.                                                                 *)
(***************************************************************************)
\* The frame of a payload, or nothing when it is too large to be sent.
frame_bytes(payload) ==
  IF Len(payload) <= MaxFrame THEN <<Len(payload)>> \o payload ELSE <<>>

LengthIsRead(length) == length <= MaxFrame

\* "eof" also when the bytes end within the payload: read_exact knows no other
\* end, and the worker's loop leaves quietly on either.
read_frame(stream) ==
  CASE stream = <<>>                     -> [got |-> "eof"]
    [] ~LengthIsRead(stream[1])          -> [got |-> "too_large"]
    [] Len(stream) < stream[1] + 1       -> [got |-> "eof"]
    [] OTHER -> [got     |-> "frame",
                 payload |-> SubSeq(stream, 2, stream[1] + 1),
                 rest    |-> SubSeq(stream, stream[1] + 2, Len(stream))]

\* What the loop of a reader makes of n frames at most.
FramesRead(stream, n) ==
  LET step[i \in 0 .. n] ==
        IF i = 0 THEN [payloads |-> <<>>, rest |-> stream]
        ELSE LET before == step[i - 1]
                 frame  == read_frame(before.rest)
             IN  IF frame.got = "frame"
                 THEN [payloads |-> Append(before.payloads, frame.payload),
                       rest     |-> frame.rest]
                 ELSE before
  IN  step[n].payloads

\* WorkerRequest::validate, on both sides of the pipe.
RequestIsValid(r) ==
  CASE r.command = "load"  -> r.artifact \in 1 .. 128 /\ r.root \in 1 .. 32768
    [] r.command = "start" -> r.rate \in 8000 .. 192000
    [] r.command = "push"  -> r.samples \in 1 .. MaxPushSamples
    [] OTHER               -> TRUE

-----------------------------------------------------------------------------
(***************************************************************************)
(* The transcript of a pass.                                               *)
(***************************************************************************)
WorkerEvents(sessions) ==
  [kind : {"transcript"}, session : sessions, words : 0 .. 2, final : BOOLEAN]
    \cup [kind : {"stream_finished", "audio_accepted", "error"},
          session : sessions, words : {0}, final : {FALSE}]

IsLine(e, final) == e.kind = "transcript" /\ e.words > 0 /\ e.final = final

\* A transcript of another session or an error ends the pass.
collect_transcripts(events, own) ==
  [ok    |-> \A i \in DOMAIN events :
               /\ events[i].kind # "error"
               /\ events[i].kind = "transcript" => events[i].session = own,
   lines |-> SelectSeq(events, LAMBDA e : IsLine(e, TRUE)),
   draft |-> SelectSeq(events, LAMBDA e : IsLine(e, FALSE))]

Failed(code) == [outcome |-> "error", words |-> <<>>, error |-> code]

Words(lines) == [i \in DOMAIN lines |-> lines[i].words]

\* pushed: the events of all PushAudio requests; last: those of FinishStream.
PassResult(pushed, last, own) ==
  LET got == collect_transcripts(pushed \o last, own)
      raw == IF got.lines # <<>> THEN Words(got.lines)
             ELSE IF got.draft # <<>> THEN <<Last(got.draft).words>> ELSE <<>>
      finished == \E i \in DOMAIN last :
                    last[i].kind = "stream_finished" /\ last[i].session = own
  IN  CASE ~got.ok    -> Failed("stale_event")
        [] ~finished  -> Failed("adapter_failed")
        [] raw = <<>> -> Failed("no_speech_detected")
        [] OTHER      -> [outcome |-> "transcript", words |-> raw, error |-> "none"]

-----------------------------------------------------------------------------
(***************************************************************************)
(* The verdict.                                                            *)
(***************************************************************************)
FreeWords         == 3
MaxWordsPerSecond == 4

is_plausible(words, seconds) == words <= FreeWords + seconds * MaxWordsPerSecond

Delivered    == [delivered |-> TRUE, reason |-> "none"]
Withheld(reason) == [delivered |-> FALSE, reason |-> reason]

\* An outcome "absent" is a pass that no engine ran.
judge_granite_pass(outcome, words, error, seconds) ==
  CASE outcome = "error" ->
         Withheld(CASE error = "engine_quarantined" -> "granite_quarantined"
                [] error = "no_speech_detected" -> "no_speech"
                [] OTHER                        -> "granite_failed")
    [] outcome = "absent"            -> Withheld("granite_unavailable")
    [] words = 0                     -> Withheld("granite_empty")
    [] ~is_plausible(words, seconds) -> Withheld("granite_implausible")
    [] OTHER                         -> Delivered

-----------------------------------------------------------------------------
(***************************************************************************)
(* The generation loop, with the numbers of GraniteOptions::default.       *)
(***************************************************************************)
ContextTokens == 4096
MaxUtterance  == 120

(* Mutant: the loop stops while a whole utterance may still be going on. *)
MaxNewTokens_512 == 512

MaxNewTokens == 2048

\* A reply of `length` tokens generated from `first` on: the context refuses a
\* position past its end, the budget just stops the loop.
transcribe(first, length) ==
  LET written == IF length < MaxNewTokens THEN length ELSE MaxNewTokens
  IN  CASE first > ContextTokens           -> [result |-> "error", tokens |-> 0]
        [] first + written > ContextTokens -> [result |-> "error", tokens |-> 0]
        [] OTHER                           -> [result |-> "text", tokens |-> written]

\* What the tokens spell: about three words in four (lib.rs: 312 words in 400).
WordsOf(tokens) == (3 * tokens) \div 4

-----------------------------------------------------------------------------
Payloads == UNION {[1 .. n -> {7}] : n \in 1 .. MaxFrame + 1}

(***************************************************************************)
(* A peer that dies while writing is heard up to its last whole frame and  *)
(* no further, and every payload that may be written is also read.         *)
(***************************************************************************)
FramesReadBack ==
  \A a, b \in Payloads :
    LET sent == SelectSeq(<<a, b>>, LAMBDA p : frame_bytes(p) # <<>>)
        upTo[i \in 0 .. Len(sent)] ==
          IF i = 0 THEN <<>> ELSE upTo[i - 1] \o frame_bytes(sent[i])
        stream == upTo[Len(sent)]
    IN  \A cut \in 0 .. Len(stream) :
          FramesRead(SubSeq(stream, 1, cut), 3)
            = SubSeq(sent, 1, Cardinality({i \in DOMAIN sent : Len(upTo[i]) <= cut}))

(***************************************************************************)
(* A pass that ends in a transcript has the worker's whole answer: its     *)
(* stream was finished, no event was an error or another dictation's, and  *)
(* no final line is missing or replaced by a draft.                        *)
(***************************************************************************)
TranscriptsAreFinished ==
  \A pushed \in SeqOf(WorkerEvents({1, 2}), 1), last \in SeqOf(WorkerEvents({1, 2}), 2) :
    LET result == PassResult(pushed, last, 1)
        said   == SelectSeq(pushed \o last, LAMBDA e : e.kind = "transcript" /\ e.words > 0)
        finals == SelectSeq(said, LAMBDA e : e.final)
    IN  result.outcome = "transcript" =>
          /\ \E i \in DOMAIN last : last[i].kind = "stream_finished" /\ last[i].session = 1
          /\ \A i \in DOMAIN said : said[i].session = 1
          /\ \A i \in DOMAIN pushed : pushed[i].kind # "error"
          /\ result.words = IF finals # <<>> THEN Words(finals) ELSE <<Last(said).words>>

(***************************************************************************)
(* A reply that the budget cut off is never delivered as a whole: either   *)
(* the context ran out first, which fails the pass, or the text says more  *)
(* than any utterance of two minutes could hold.                           *)
(***************************************************************************)
TruncatedIsNotDelivered ==
  \A seconds \in {1, 30, 60, MaxUtterance}, first \in {0, 60, 1500, 2047, 2048, 3000, 4095, 4097},
     length \in {1, 100, 400, 511, 512, 513, 2047, 2048, 2049, 4096} :
    LET reply   == transcribe(first, length)
        verdict == judge_granite_pass("text", WordsOf(reply.tokens), "none", seconds)
    IN  reply.result = "text" /\ verdict.delivered => reply.tokens = length
=============================================================================
