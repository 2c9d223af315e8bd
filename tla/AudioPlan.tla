----------------------------- MODULE AudioPlan -----------------------------
(* What the capture path computes: which microphone a dictation uses, which   *)
(* limit ends an utterance, the streaming linear resampler, the sample        *)
(* conversions, and the endpointing the crate offers for speech frames.       *)
(*                                                                            *)
(* A native frame is its index, and a sample is the instant it stands for, in *)
(* 1/target of a native frame: the resampler's interpolation is then exact,   *)
(* and the instants of an utterance say which audio it holds.                 *)
EXTENDS Integers, Sequences, FiniteSets, SequencesExt

Least(S) == CHOOSE x \in S : \A y \in S : x <= y
CeilDiv(a, b) == (a + b - 1) \div b

----------------------------------------------------------------------------
(* Mutant: the first device that is there is taken, and its format asked only *)
(* afterwards.                                                                *)
ChooseInputPresent(devices, preferred, default, usable) ==
    LET present == SelectSeq(<<preferred, default>> \o devices,
                             LAMBDA id : id \in Range(devices))
    IN IF present # <<>> /\ Head(present) \in usable THEN <<Head(present)>> ELSE <<>>

(* The devices in the order choose_input would settle for them: the one the   *)
(* profile names, the system default, then any; only present and usable ones. *)
ChooseInput(devices, preferred, default, usable) ==
    SelectSeq(<<preferred, default>> \o devices,
              LAMBDA id : id \in Range(devices) /\ id \in usable)

----------------------------------------------------------------------------
(* A capture's plan: the two rates, and what its utterance buffer may hold.   *)
UtteranceLimit(plan) == Least({plan.capacity, plan.duration, plan.bytes})

LimitIssues(plan) ==
    LET limit == UtteranceLimit(plan)
    IN {issue \in {"duration", "bytes", "capacity"} : plan[issue] = limit}

ResampledCapacity(plan, frames) ==
    CeilDiv(frames * plan.target, plan.source) + 2

----------------------------------------------------------------------------
Unknown == -1
ResamplerReset == [total |-> 0, next |-> 0, previous |-> Unknown]

(* How many outputs fall in the segment that ends with the current frame.     *)
DueInSegment(r, plan) ==
    LET end == r.total * plan.target
    IN IF r.next > end THEN 0 ELSE (end - r.next) \div plan.source + 1

(* The samples of that segment, on the line through its two frames.           *)
SegmentSamples(r, frame, plan) ==
    [k \in 1 .. DueInSegment(r, plan) |->
        r.previous * plan.target
        + (frame - r.previous) * (r.next + (k - 1) * plan.source - (r.total - 1) * plan.target)]

(* One native frame of StreamingLinearResampler::process_into.                *)
ResampleFrame(state, frame, plan) ==
    LET r == state.resampler
        After(next, out) ==
            [resampler |-> [total |-> r.total + 1, next |-> next, previous |-> frame],
             out       |-> state.out \o out]
    IN IF r.previous = Unknown
       THEN After(plan.source, <<frame * plan.target>>)
       ELSE After(r.next + DueInSegment(r, plan) * plan.source,
                  SegmentSamples(r, frame, plan))

(* What the resampler has made of the first n frames of a block.              *)
AfterFrames(resampler, frames, plan) ==
    LET after[n \in 0 .. Len(frames)] ==
            IF n = 0 THEN [resampler |-> resampler, out |-> <<>>]
            ELSE ResampleFrame(after[n - 1], frames[n], plan)
    IN after

Resample(resampler, frames, plan) == AfterFrames(resampler, frames, plan)[Len(frames)]

(* The audio of the frames first .. last at the target rate, by definition.   *)
Uniform(first, last, plan) ==
    [k \in 1 .. (((last - first) * plan.target) \div plan.source + 1) |->
        first * plan.target + (k - 1) * plan.source]

----------------------------------------------------------------------------
(* Samples of Half * 2 levels: i16 has Half = 32768. A normalized value is an *)
(* integer in units of 1/Half, so that -Half is -1.0. A float is <<value>>, or  *)
(* NotFinite.                                                                 *)
NotFinite == <<>>
Clamp(x, low, high) == IF x < low THEN low ELSE IF x > high THEN high ELSE x

NormalizeFloat(x, half) == IF x = NotFinite THEN 0 ELSE Clamp(x[1], 0 - half, half)
NormalizeSigned(x) == x
NormalizeUnsigned(x, half) == x - half

(* v / half * (half - 1), rounded half away from zero.                        *)
Quantize(v, half) ==
    LET magnitude == IF v < 0 THEN 0 - v ELSE v
        rounded   == (2 * magnitude * (half - 1) + half) \div (2 * half)
    IN IF v < 0 THEN 0 - rounded ELSE rounded

----------------------------------------------------------------------------
(* SileroVadAdapter over frames of a probability class: "silent" is below the *)
(* soft threshold, "strong" at or above the speech threshold.                 *)
VadReset == [active |-> FALSE, candidates |-> 0, strong |-> FALSE, silence |-> 0]

AcceptSpeech(vad, class, profile) ==
    LET heard  == vad.candidates + 1
        strong == vad.strong \/ class = "strong"
        needed == IF strong THEN profile.speech ELSE profile.soft
    IN IF vad.active THEN [vad EXCEPT !.silence = 0]
       ELSE IF heard >= needed THEN [VadReset EXCEPT !.active = TRUE]
       ELSE [vad EXCEPT !.candidates = heard, !.strong = strong, !.silence = 0]

AcceptSilence(vad, profile) ==
    IF ~vad.active THEN [vad EXCEPT !.candidates = 0, !.strong = FALSE]
    ELSE IF vad.silence + 1 >= profile.silence + profile.hangover THEN VadReset
    ELSE [vad EXCEPT !.silence = @ + 1]

AcceptFrame(vad, class, profile) ==
    IF class = "silent" THEN AcceptSilence(vad, profile)
    ELSE AcceptSpeech(vad, class, profile)

Vad(classes, profile) ==
    LET after[n \in 0 .. Len(classes)] ==
            IF n = 0 THEN VadReset ELSE AcceptFrame(after[n - 1], classes[n], profile)
    IN after[Len(classes)]

----------------------------------------------------------------------------
(* Bounded inputs for the properties below.                                   *)
Mics == {"headset", "array", "webcam"}
PlugIns == {s \in UNION {[1 .. n -> Mics] : n \in 0 .. 3} : IsInjective(s)}
Half == 8
Frames == UNION {[1 .. n -> {"silent", "soft", "strong"}] : n \in 1 .. 7}
Profile == [speech |-> 2, soft |-> 3, silence |-> 2, hangover |-> 1]

(* A machine with a microphone it can use never refuses a dictation, and the  *)
(* microphone the profile names is used whenever it is there: the name may be *)
(* of a device unplugged since, or of one without a usable format.            *)
AnyUsableMicrophoneIsFound ==
    \A devices \in PlugIns, preferred, default \in Mics \cup {"none"}, usable \in SUBSET Mics :
        LET chosen == ChooseInput(devices, preferred, default, usable)
            there  == Range(devices) \cap usable
        IN /\ (chosen # <<>>) <=> (there # {})
           /\ preferred \in there => Head(chosen) = preferred

(* The audio handed to the engine is within one level of what the microphone  *)
(* gave, whatever its sample format, and fits sixteen bits at both ends of    *)
(* the range: -1.0 and 1.0 scale by the largest positive level.               *)
QuantizedIsFaithful ==
    /\ \A x \in (0 - Half) .. (Half - 1) :
          LET signed   == Quantize(NormalizeSigned(x), Half)
              unsigned == Quantize(NormalizeUnsigned(x + Half, Half), Half)
          IN signed = unsigned /\ signed - x \in -1 .. 1
    /\ \A x \in {NotFinite} \cup {<<v>> : v \in -20 .. 20} :
          Quantize(NormalizeFloat(x, Half), Half) \in (0 - Half) .. (Half - 1)

(* Endpointing by its profile alone, over every short recording: speech is on *)
(* after a frame exactly when enough voiced frames in a row came since it was *)
(* last off, and not enough silent frames in a row since.                     *)
TrailingRun(classes, S) ==
    Cardinality({i \in DOMAIN classes :
                    \A j \in i .. Len(classes) : classes[j] \in S})

VadFollowsItsProfile ==
    \A classes \in Frames :
        LET before  == Vad(Front(classes), Profile).active
            after   == Vad(classes, Profile).active
            voiced  == TrailingRun(classes, {"soft", "strong"})
            silent  == TrailingRun(classes, {"silent"})
            strong  == \E i \in (Len(classes) - voiced + 1) .. Len(classes) :
                          classes[i] = "strong"
        IN after <=> IF before THEN silent < Profile.silence + Profile.hangover
                     ELSE voiced >= IF strong THEN Profile.speech ELSE Profile.soft
============================================================================
