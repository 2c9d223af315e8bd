---------------------------- MODULE AudioCapture ----------------------------
(* One dictation's audio, from the device's callback to the utterance that is *)
(* retained: the callback thread writing native blocks into a bounded ring,   *)
(* the capture thread taking them out, resampling them and appending them to  *)
(* the utterance, and the three ways a recording ends: the user's stop, the   *)
(* ceiling, and a fault of the device.                                        *)
EXTENDS AudioPlan

CONSTANTS
    Slots,          \* callback_block_count of the ring
    BlockFrames,    \* max_native_frames_per_block
    PreRoll,        \* capacity of the pre-roll in output samples
    Plans,          \* the plans a capture may have
    Callbacks,      \* the frame counts of the device's callbacks
    MaxFrames       \* bound on the native frames the device delivers

(* The rates are NonZeroU32; build_audio_pipeline refuses a plan whose limit   *)
(* is below the pre-roll.                                                      *)
ASSUME AudioAssumption ==
    /\ Slots \in Nat \ {0} /\ BlockFrames \in Nat \ {0} /\ PreRoll \in Nat \ {0}
    /\ MaxFrames \in Nat /\ Callbacks \subseteq Nat
    /\ \A plan \in Plans : /\ {plan.source, plan.target} \subseteq Nat \ {0}
                          /\ {plan.duration, plan.bytes, plan.capacity} \subseteq Nat
                          /\ UtteranceLimit(plan) >= PreRoll

VARIABLES
    plan,
    device, faulted,       \* the stream, and the flag its error callback sets
    nextFrame, expected,   \* build_stream's running index; CaptureCallback's
    pending,               \* discontinuity marks waiting for a block
    cb,                    \* the callback running
    slots, published, consumed,
    received, enqueued, dropped, overflows, \* CallbackCounters
    pc, stop, late,        \* the capture thread; the stop flag; the deadline
    block, resampler, produced, preRoll,    \* AudioWorker
    utterance, rejected, issues,
    tap, outcome,
    offered                \* every frame a well-formed callback brought

stream == <<device, faulted, nextFrame, expected, pending, cb>>
ring == <<slots, published, consumed>>
counters == <<received, enqueued, dropped, overflows>>
worker == <<block, resampler, produced, preRoll, utterance, rejected, issues, tap>>
vars == <<plan, stream, ring, counters, worker, pc, stop, late, outcome, offered>>

Marks == {"gap", "overflow"}
Issues == {"duration", "bytes", "capacity", "queue", "discontinuity"}
Running == "running"
Idle == [at |-> "idle", first |-> 0, count |-> 0, done |-> 0, marks |-> {}]
Empty == [frames |-> <<>>, marks |-> {}]

(* The pipeline is built and the utterance begun before the stream exists, so *)
(* the pre-roll it is begun from is empty.                                    *)
Init ==
    /\ plan \in Plans
    /\ device = "closed" /\ faulted = FALSE
    /\ nextFrame = 0 /\ expected = Unknown /\ pending = {} /\ cb = Idle
    /\ slots = [i \in 0 .. Slots - 1 |-> Empty] /\ published = 0 /\ consumed = 0
    /\ received = 0 /\ enqueued = 0 /\ dropped = 0 /\ overflows = 0
    /\ pc = "open" /\ stop = FALSE /\ late = FALSE
    /\ block = Empty /\ resampler = ResamplerReset /\ produced = 0
    /\ preRoll = <<>> /\ utterance = <<>> /\ rejected = 0 /\ issues = {}
    /\ tap = <<>> /\ outcome = [result |-> Running, note |-> "none"]
    /\ offered = {}

----------------------------------------------------------------------------
(* The device. A callback in progress is finished before a stream is dropped. *)

(* CaptureCallback::write up to its loop, on a callback of so many frames.    *)
Deliver(count) ==
    LET gap   == IF expected \in {Unknown, nextFrame} THEN {} ELSE {"gap"}
        marks == pending \cup gap
    IN /\ device = "open" /\ cb.at = "idle" /\ nextFrame + count <= MaxFrames
       /\ nextFrame' = nextFrame + count /\ expected' = nextFrame + count
       /\ received' = received + count
       /\ offered' = offered \cup (nextFrame .. nextFrame + count - 1)
       /\ IF count = 0
          THEN pending' = marks /\ UNCHANGED cb
          ELSE /\ pending' = {}
               /\ cb' = [at |-> "check", first |-> nextFrame, count |-> count,
                         done |-> 0, marks |-> marks]
       /\ UNCHANGED <<plan, device, faulted, ring, enqueued, dropped, overflows,
                      worker, pc, stop, late, outcome>>

(* A callback whose samples do not divide into frames is refused, after the   *)
(* frames it would have had were counted by build_stream.                     *)
DeliverMalformed(count) ==
    /\ device = "open" /\ cb.at = "idle" /\ nextFrame + count <= MaxFrames
    /\ nextFrame' = nextFrame + count
    /\ UNCHANGED <<plan, device, faulted, expected, pending, cb, ring, counters,
                   worker, pc, stop, late, outcome, offered>>

RingFull == published - consumed >= Slots

MarksAfterOverflow ==
    pending \cup {"overflow"} \cup (IF cb.done = 0 THEN cb.marks ELSE {})

DropRest ==
    /\ cb.at = "check" /\ RingFull
    /\ dropped' = dropped + (cb.count - cb.done) /\ overflows' = overflows + 1
    /\ pending' = MarksAfterOverflow /\ cb' = Idle
    /\ UNCHANGED <<plan, device, faulted, nextFrame, expected, ring, received,
                   enqueued, worker, pc, stop, late, outcome, offered>>

FillSlot ==
    LET frames == Least({cb.count - cb.done, BlockFrames})
        first  == cb.first + cb.done
    IN /\ cb.at = "check" /\ ~RingFull
       /\ slots' = [slots EXCEPT ![published % Slots] =
                        [frames |-> [k \in 1 .. frames |-> first + k - 1],
                         marks  |-> cb.marks]]
       /\ enqueued' = enqueued + frames
       /\ cb' = [cb EXCEPT !.at = "publish", !.done = @ + frames]
       /\ UNCHANGED <<plan, device, faulted, nextFrame, expected, pending, published,
                      consumed, received, dropped, overflows, worker, pc, stop, late,
                      outcome, offered>>

PublishSlot ==
    /\ cb.at = "publish"
    /\ published' = published + 1
    /\ cb' = IF cb.done = cb.count THEN Idle
             ELSE [cb EXCEPT !.at = "check", !.marks = {}]
    /\ UNCHANGED <<plan, device, faulted, nextFrame, expected, pending, slots, consumed,
                   counters, worker, pc, stop, late, outcome, offered>>

Callback == DropRest \/ FillSlot \/ PublishSlot

ErrorCallback ==
    /\ device = "open" /\ ~faulted /\ faulted' = TRUE
    /\ UNCHANGED <<plan, device, nextFrame, expected, pending, cb, ring, counters,
                   worker, pc, stop, late, outcome, offered>>

----------------------------------------------------------------------------
(* The capture thread. *)
Rest == UNCHANGED <<plan, faulted, nextFrame, expected, pending, cb, slots, published,
                    counters, stop, late, offered>>

Fail(code) == outcome' = [result |-> "failed", note |-> code]

OpenStream ==
    /\ pc = "open"
    /\ \/ device' = "open" /\ pc' = "loop" /\ UNCHANGED outcome
       \/ UNCHANGED device /\ pc' = "done" /\ Fail("start")
    /\ Rest /\ UNCHANGED <<consumed, worker>>

(* Mutant: the recording has no ceiling. *)
LoopTestUserOnly ==
    /\ pc = "loop"
    /\ pc' = IF stop THEN "close" ELSE "pop"
    /\ Rest /\ UNCHANGED <<device, consumed, worker, outcome>>

LoopTest ==
    /\ pc = "loop"
    /\ pc' = IF stop \/ late THEN "close" ELSE "pop"
    /\ Rest /\ UNCHANGED <<device, consumed, worker, outcome>>

(* RingConsumer::try_pop: the block is copied before its slot is given back.  *)
Pop ==
    /\ pc = "pop" /\ consumed # published
    /\ block' = slots[consumed % Slots] /\ pc' = "process"
    /\ Rest /\ UNCHANGED <<device, consumed, resampler, produced, preRoll, utterance,
                           rejected, issues, tap, outcome>>

NothingQueued ==
    /\ pc = "pop" /\ consumed = published
    /\ pc' = IF device = "open" THEN "poll" ELSE "judge"
    /\ Rest /\ UNCHANGED <<device, consumed, worker, outcome>>

(* Mutant: a block after a break is resampled as if it followed on. *)
ResamplerForAlways == resampler

ResamplerFor == IF block.marks = {} THEN resampler ELSE ResamplerReset

Resampled == Resample(ResamplerFor, block.frames, plan)

(* The output samples of the block, each with the index it is numbered by and *)
(* the first native frame of its block.                                       *)
Output(out) ==
    [k \in DOMAIN out |-> [instant |-> out[k], index |-> produced + k - 1,
                           source  |-> block.frames[1]]]

LastOf(s, n) == SubSeq(s, Len(s) - Least({n, Len(s)}) + 1, Len(s))

Accepted(count) == Least({UtteranceLimit(plan) - Len(utterance), count})

IssuesAfter(refused) ==
    issues \cup (IF block.marks = {} THEN {} ELSE {"discontinuity"})
           \cup (IF refused > 0 THEN LimitIssues(plan) ELSE {})

(* The rest of process_next, and the loop's use of the block it returns.      *)
Process ==
    LET result  == Resampled
        output  == Output(result.out)
        taken   == Accepted(Len(output))
        refused == Len(output) - taken
    IN /\ pc = "process"
       /\ consumed' = consumed + 1
       /\ resampler' = result.resampler
       /\ preRoll' = LastOf(preRoll \o output, PreRoll)
       /\ utterance' = utterance \o SubSeq(output, 1, taken)
       /\ rejected' = rejected + refused
       /\ issues' = IssuesAfter(refused)
       /\ produced' = produced + Len(output)
       /\ tap' = IF device = "open" THEN tap \o result.out ELSE tap
       /\ block' = Empty /\ pc' = "pop"
       /\ Rest /\ UNCHANGED <<device, outcome>>

PollFault ==
    /\ pc = "poll"
    /\ IF faulted THEN pc' = "close" /\ Fail("fault")
       ELSE pc' = "loop" /\ UNCHANGED outcome
    /\ Rest /\ UNCHANGED <<device, consumed, worker>>

StreamReleased == cb.at = "idle" /\ device' = "closed"

CloseStream ==
    /\ pc = "close" /\ StreamReleased
    /\ pc' = IF outcome.result = "failed" THEN "done" ELSE "pop"
    /\ Rest /\ UNCHANGED <<consumed, worker, outcome>>

(* Mutant: only what the buffer says is asked, not the callback's counter. *)
FinalIssuesOfBuffer == issues

FinalIssues == issues \cup (IF overflows > 0 THEN {"queue"} ELSE {})

(* issue_code: the one note a capture carries.                                *)
IssueCode(found) ==
    LET order == <<"queue", "discontinuity", "duration", "bytes", "capacity">>
        there == {i \in 1 .. 5 : order[i] \in found}
    IN IF there = {} THEN "none" ELSE order[Least(there)]

(* The end of finish_utterance, and judge_completion.                         *)
Judge ==
    /\ pc = "judge" /\ pc' = "done"
    /\ IF utterance = <<>> THEN Fail("empty")
       ELSE outcome' = [result |-> "captured", note |-> IssueCode(FinalIssues)]
    /\ issues' = FinalIssues
    /\ Rest /\ UNCHANGED <<device, consumed, block, resampler, produced, preRoll,
                           utterance, rejected, tap>>

Thread ==
    \/ OpenStream \/ LoopTest \/ Pop \/ NothingQueued \/ Process \/ PollFault
    \/ CloseStream \/ Judge

----------------------------------------------------------------------------
(* The user, and the clock. *)
Elsewhere == UNCHANGED <<plan, stream, ring, counters, worker, pc, outcome, offered>>

RequestStop == ~stop /\ stop' = TRUE /\ Elsewhere /\ UNCHANGED late
DeadlinePasses == ~late /\ late' = TRUE /\ Elsewhere /\ UNCHANGED stop

Finished == pc = "done" /\ UNCHANGED vars

Next ==
    \/ \E count \in Callbacks : Deliver(count)
    \/ DeliverMalformed(1)
    \/ Callback \/ ErrorCallback \/ Thread
    \/ pc # "done" /\ (RequestStop \/ DeadlinePasses)
    \/ Finished

Spec == Init /\ [][Next]_vars

(* The capture thread and a callback keep running once started, and the       *)
(* deadline comes; the device and the user owe nothing.                       *)
FairSpec == Spec /\ WF_vars(Thread) /\ WF_vars(Callback)
                 /\ WF_vars(pc # "done" /\ DeadlinePasses)

----------------------------------------------------------------------------
Samples == [instant : 0 .. MaxFrames * plan.target, index : Nat, source : 0 .. MaxFrames]

TypeOK ==
    /\ plan \in Plans
    /\ device \in {"closed", "open"} /\ {faulted, stop, late} \subseteq BOOLEAN
    /\ {nextFrame, received, enqueued, dropped} \subseteq 0 .. MaxFrames
    /\ {overflows, published, consumed, produced, rejected} \subseteq Nat
    /\ expected \in {Unknown} \cup 0 .. MaxFrames /\ pending \subseteq Marks
    /\ cb.at \in {"idle", "check", "publish"} /\ cb.marks \subseteq Marks
    /\ published - consumed \in 0 .. Slots
    /\ pc \in {"open", "loop", "pop", "process", "poll", "close", "judge", "done"}
    /\ Range(utterance) \subseteq Samples /\ Len(utterance) <= UtteranceLimit(plan)
    /\ issues \subseteq Issues /\ offered \subseteq 0 .. MaxFrames - 1
    /\ outcome.result \in {Running, "captured", "failed"}

Captured == outcome.result = "captured"
Instants == [k \in DOMAIN utterance |-> utterance[k].instant]

(* A recording without a note is all of what the microphone gave, at even     *)
(* steps of the target rate from its first frame to its last: whatever was    *)
(* lost to a full ring, a refused callback, a limit or a break is noted. The  *)
(* loss may come on either thread and after the last block.                   *)
NothingIsLostSilently ==
    Captured /\ outcome.note = "none" =>
        \E last \in offered :
            LET first == Least(offered)
            IN offered = first .. last /\ Instants = Uniform(first, last, plan)

(* No sample of the utterance is interpolated across audio that was dropped:  *)
(* the two native frames it lies between were both taken from the ring. The   *)
(* mark of a break travels with the next block that finds a slot.             *)
NoAudioAcrossABreak ==
    \A sample \in Range(utterance) :
        LET before == sample.instant \div plan.target
            after  == CeilDiv(sample.instant, plan.target)
        IN {before, after} \subseteq offered /\ after >= sample.source

(* The utterance is in the order it was spoken, and its samples are numbered  *)
(* without a hole: a slot is not written again before it was read.            *)
SpokenInOrder ==
    \A k \in 1 .. Len(utterance) - 1 :
        /\ utterance[k].instant < utterance[k + 1].instant
        /\ utterance[k + 1].index = utterance[k].index + 1

(* A finished recording accounts for every frame: taken or dropped, and every *)
(* sample made of them is in the utterance or counted as rejected. The drain  *)
(* comes after the stream is released, so nothing is queued behind it.        *)
EveryFrameIsAccountedFor ==
    Captured => /\ received = enqueued + dropped
                /\ consumed = published
                /\ produced = Len(utterance) + rejected

(* A recording that met its limit says which limit, whatever else it met      *)
(* first, and holds all the limit allows.                                     *)
LimitIsNamed ==
    rejected > 0 => /\ LimitIssues(plan) \subseteq issues
                    /\ Len(utterance) = UtteranceLimit(plan)

(* The scratch buffer holds the output of any block: process_next panics when *)
(* it does not, and the capture thread with it.                               *)
ResampledFits ==
    pc = "process" => Len(Resampled.out) <= ResampledCapacity(plan, BlockFrames)

(* The streaming tap never hears audio the transcript will not have, but for  *)
(* what the utterance's limit refused.                                        *)
TapHearsTheUtterance ==
    Captured => IsPrefix(tap, Instants) \/ (rejected > 0 /\ IsPrefix(Instants, tap))

(* Every capture ends, whatever the device does.                              *)
CaptureEnds == <>(pc = "done")

(* Whatever audio is lost between the microphone and the transcript is known: *)
(* a note says so, every frame is counted where it went, and a limit that     *)
(* refused audio is named.                                                    *)
LossIsKnown ==
    /\ NothingIsLostSilently
    /\ EveryFrameIsAccountedFor
    /\ LimitIsNamed

(* The utterance is what was spoken: in order, from samples really captured,  *)
(* never interpolated across a break, and what the streaming tap heard.       *)
UtteranceIsSpoken ==
    /\ NoAudioAcrossABreak
    /\ SpokenInOrder
    /\ ResampledFits
    /\ TapHearsTheUtterance
============================================================================
