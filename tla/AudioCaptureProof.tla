------------------------- MODULE AudioCaptureProof -------------------------
(* Proofs about AudioCapture, for every size of the ring and of its blocks,   *)
(* every plan, every callback and any number of frames.  What the runs check  *)
(* is not inductive; AudioInv adds to it                                      *)
(*   - the blocks in the ring follow each other: each begins after the last   *)
(*     frame of the one before, and right after it unless it carries a mark;  *)
(*   - the resampler stands after its last frame and before the next sample,  *)
(*     so every sample it will give is later than every one it gave;          *)
(*   - while nothing is marked, what was offered is one run of frames that    *)
(*     begins where the resampler began.                                      *)
EXTENDS AudioCapture, SequenceTheorems, WellFoundedInduction, TLAPS

(* The block with the number i, and how many blocks were filled               *)
Block(i) == slots[i % Slots]
Written == IF cb.at = "publish" THEN published + 1 ELSE published

Final(b) == Last(b.frames)

(* The frame taken or queued before block i: the resampler's last frame for   *)
(* the block that is taken next.                                              *)
FrameBefore(i) == IF i = consumed THEN resampler.previous ELSE Final(Block(i - 1))

Follows(frame, last, marks) ==
    frame > last /\ (marks = {} /\ last # Unknown => frame = last + 1)

IsRun(frames) ==
    /\ frames \in Seq(Nat) /\ frames # <<>>
    /\ \A k \in 1 .. Len(frames) : frames[k] = frames[1] + k - 1

Blocks == [frames : Seq(Nat), marks : SUBSET Marks]
CallbackStates == [at : {"idle", "check", "publish"}, first : Nat, count : Nat, done : Nat,
                   marks : SUBSET Marks]
SampleRecords == [instant : Nat, index : Nat, source : Nat]

StreamTyped ==
    /\ plan \in Plans
    /\ device \in {"closed", "open"} /\ faulted \in BOOLEAN
    /\ nextFrame \in 0 .. MaxFrames /\ expected \in {Unknown} \cup 0 .. nextFrame
    /\ pending \subseteq Marks /\ cb \in CallbackStates
    /\ offered \subseteq 0 .. nextFrame - 1
    /\ slots \in [0 .. Slots - 1 -> Blocks]
    /\ published \in Nat /\ consumed \in Nat
    /\ consumed <= published /\ Written <= consumed + Slots

WorkerTyped ==
    /\ pc \in {"open", "loop", "pop", "process", "poll", "close", "judge", "done"}
    /\ stop \in BOOLEAN /\ late \in BOOLEAN
    /\ produced \in Nat /\ rejected \in Nat /\ issues \subseteq Issues
    /\ utterance \in Seq(SampleRecords) /\ tap \in Seq(Nat)
    /\ outcome.result \in {Running, "captured", "failed"}

(* Every frame of a well-formed callback is queued, dropped or still to come. *)
CountersAgree ==
    /\ received \in Nat /\ enqueued \in Nat /\ dropped \in Nat /\ overflows \in Nat
    /\ received <= nextFrame
    /\ received = enqueued + dropped + (IF cb.at = "idle" THEN 0 ELSE cb.count - cb.done)

(* What is queued are frames that were offered, block after block.            *)
BlocksFollow ==
    \A i \in consumed .. Written - 1 :
        /\ IsRun(Block(i).frames) /\ Len(Block(i).frames) <= BlockFrames
        /\ \A k \in 1 .. Len(Block(i).frames) : Block(i).frames[k] \in offered
        /\ Follows(Block(i).frames[1], FrameBefore(i), Block(i).marks)

(* The frames of a callback follow what was queued before it, and those of    *)
(* the next callback will.                                                    *)
CallbackFollows ==
    /\ cb.at # "idle" =>
        /\ device = "open" /\ pending = {} /\ expected = nextFrame
        /\ nextFrame = cb.first + cb.count /\ cb.done <= cb.count
        /\ \A f \in cb.first .. nextFrame - 1 : f \in offered
    /\ cb.at = "check" =>
        cb.done < cb.count /\ Follows(cb.first + cb.done, FrameBefore(Written), cb.marks)
    /\ cb.at = "publish" =>
        cb.done > 0 /\ FrameBefore(Written) = cb.first + cb.done - 1
    /\ cb.at = "idle" =>
        /\ cb.marks = {} /\ FrameBefore(Written) < nextFrame
        /\ pending = {} /\ FrameBefore(Written) # Unknown => expected = FrameBefore(Written) + 1

(* The resampler stands before the first sample that lies after its last      *)
(* frame.                                                                     *)
Stands(r) ==
    IF r.previous = Unknown THEN r = ResamplerReset
    ELSE /\ r \in [total : Nat \ {0}, next : Nat, previous : Nat] /\ r.total <= r.previous + 1
         /\ (r.total - 1) * plan.target < r.next
         /\ r.next <= (r.total - 1) * plan.target + plan.source

ResamplerStands ==
    Stands(resampler) /\ (resampler.previous # Unknown => resampler.previous \in offered)

(* The first frame of the resampler's run                                     *)
Origin == resampler.previous - resampler.total + 1

(* The samples of the utterance are of the past of the resampler, in order.   *)
SamplesAreOrdered ==
    \A k \in 1 .. Len(utterance) :
        /\ resampler.previous # Unknown
        /\ utterance[k].instant <= resampler.previous * plan.target
        /\ utterance[k].index = k - 1
        /\ k < Len(utterance) => utterance[k].instant < utterance[k + 1].instant

LimitHolds ==
    /\ produced = Len(utterance) + rejected /\ Len(utterance) <= UtteranceLimit(plan)
    /\ LimitIsNamed

(* Without a break the samples of the utterance are at even steps from the    *)
(* first frame of the run.                                                    *)
StepsAreEven ==
    "discontinuity" \notin issues /\ rejected = 0 =>
        /\ resampler.next = Len(utterance) * plan.source
        /\ \A k \in 1 .. Len(utterance) :
               utterance[k].instant = Origin * plan.target + (k - 1) * plan.source

(* Nothing was dropped, and no mark was made                                  *)
Unmarked ==
    /\ "discontinuity" \notin issues /\ overflows = 0 /\ (cb.at = "check" => cb.marks = {})
    /\ \A i \in consumed .. Written - 1 : Block(i).marks = {}

FirstFrame ==
    IF resampler.previous # Unknown THEN Origin
    ELSE IF consumed < Written THEN Block(consumed).frames[1]
    ELSE cb.first

LastFrame == IF cb.at = "idle" THEN FrameBefore(Written) ELSE nextFrame - 1

OfferedIsOneRun ==
    /\ offered = {} => cb.at = "idle" /\ FrameBefore(Written) = Unknown
    /\ Unmarked /\ offered # {} =>
        /\ offered = FirstFrame .. LastFrame
        /\ FrameBefore(Written) = Unknown => cb.at = "check" /\ cb.done = 0

Begins(s, t) == Len(s) <= Len(t) /\ \A k \in 1 .. Len(s) : s[k] = t[k]

(* The tap holds what the utterance would if it had no limit, as long as the  *)
(* stream is open.                                                            *)
TapFollows ==
    /\ device = "open" /\ rejected = 0 => tap = Instants
    /\ device = "open" => Begins(Instants, tap)
    /\ Begins(tap, Instants) \/ (rejected > 0 /\ Begins(Instants, tap))

(* What each place of the capture thread may rely on                          *)
ThreadKnows ==
    /\ pc = "open" => tap = <<>> /\ utterance = <<>> /\ rejected = 0
    /\ pc \in {"open", "judge", "done"} => device = "closed"
    /\ pc \in {"loop", "poll", "close"} => device = "open"
    /\ pc = "process" => consumed < published /\ block = Block(consumed)
    /\ pc = "judge" => consumed = published
    /\ Captured => /\ pc = "done" /\ consumed = published /\ utterance # <<>>
                   /\ outcome.note = IssueCode(issues) /\ (overflows > 0 => "queue" \in issues)

(* The inductive invariant *)
AudioInv ==
    /\ StreamTyped /\ WorkerTyped /\ CountersAgree
    /\ BlocksFollow /\ CallbackFollows /\ ResamplerStands
    /\ SamplesAreOrdered /\ NoAudioAcrossABreak /\ LimitHolds /\ StepsAreEven
    /\ OfferedIsOneRun /\ TapFollows /\ ThreadKnows

-----------------------------------------------------------------------------
(* Numbers *)

(* A non-empty set of numbers has a least one. *)
LEMMA LeastExists ==
  ASSUME NEW S \in SUBSET Nat, S # {}
  PROVE  Least(S) \in S /\ \A y \in S : Least(S) <= y
<1>1. \E x \in S : \A y \in S : ~(<<y, x>> \in OpToRel(<, Nat))
  BY NatLessThanWellFounded, WFMin
<1>2. ASSUME NEW x \in S, NEW y \in S, ~(<<y, x>> \in OpToRel(<, Nat)) PROVE x <= y
  <2>1. ~(<<y, x>>[1] < <<y, x>>[2])
    BY <1>2 DEF OpToRel
  <2> QED
    BY <2>1
<1>3. \E x \in S : \A y \in S : x <= y
  BY <1>1, <1>2
<1> QED
  BY <1>3 DEF Least

(* Induction over a set of numbers. *)
LEMMA AllNumbers ==
  ASSUME NEW S \in SUBSET Nat, 0 \in S, \A n \in S : n + 1 \in S
  PROVE  \A n \in Nat : n \in S
<1> SUFFICES ASSUME Nat \ S # {} PROVE FALSE
  OBVIOUS
<1>1. PICK n \in Nat \ S : \A y \in Nat \ S : n <= y
  BY LeastExists
<1>2. n - 1 \in Nat /\ n - 1 \notin Nat \ S
  BY <1>1
<1> QED
  BY <1>1, <1>2

(* The lesser of two numbers. *)
LEMMA LeastOfTwo ==
  ASSUME NEW a \in Nat, NEW b \in Nat
  PROVE  /\ Least({a, b}) \in Nat /\ Least({a, b}) \in {a, b}
         /\ Least({a, b}) <= a /\ Least({a, b}) <= b
  BY LeastExists

(* Division rounds down. *)
LEMMA Quotient ==
  ASSUME NEW a \in Nat, NEW b \in Nat \ {0}
  PROVE  /\ a \div b \in Nat /\ (a \div b) * b <= a /\ a < (a \div b) * b + b
OBVIOUS

(* Products and quotients of numbers are numbers. *)
LEMMA NatTimes ==
  ASSUME NEW a \in Nat, NEW b \in Nat
  PROVE  a * b \in Nat
OBVIOUS

LEMMA IntTimes ==
  ASSUME NEW a \in Int, NEW b \in Int
  PROVE  a * b \in Int
OBVIOUS

LEMMA QuotientRest ==
  ASSUME NEW a \in Nat, NEW b \in Nat \ {0}
  PROVE  a = b * (a \div b) + (a % b) /\ a \div b \in Int
OBVIOUS

(* Two numbers less than n apart are kept in different slots of n. *)
LEMMA SlotsDiffer ==
  ASSUME NEW n \in Nat \ {0}, NEW i \in Nat, NEW j \in Nat, i < j, j < i + n
  PROVE  i % n # j % n
<1> SUFFICES ASSUME i % n = j % n PROVE FALSE
  OBVIOUS
<1>1. /\ i = n * (i \div n) + (i % n) /\ i \div n \in Int
      /\ j = n * (j \div n) + (j % n) /\ j \div n \in Int
  BY QuotientRest
<1> DEFINE p == i \div n
           q == j \div n
<1>2. j - i = n * (q - p) /\ q - p \in Int
  BY <1>1
<1>3. q - p >= 1
  BY <1>2
<1>4. n * (q - p) >= n
  BY <1>3
<1> QED
  BY <1>2, <1>4

(* Multiplying keeps an order, and can be undone. *)
LEMMA TimesKeepsOrder ==
  ASSUME NEW a \in Int, NEW b \in Int, NEW c \in Nat \ {0}
  PROVE  a <= b <=> a * c <= b * c
<1>1. ASSUME a <= b PROVE a * c <= b * c
  <2>1. b - a \in Nat /\ (b - a) * c >= 0 /\ (b - a) * c = b * c - a * c
    BY <1>1
  <2> QED
    BY <2>1
<1>2. ASSUME b < a PROVE b * c < a * c
  <2>1. a - b \in Nat \ {0} /\ (a - b) * c > 0 /\ (a - b) * c = a * c - b * c
    BY <1>2
  <2> QED
    BY <2>1
<1> QED
  BY <1>1, <1>2

(* Multiplying distributes over sums and differences. *)
LEMMA TimesDistributes ==
  ASSUME NEW a \in Int, NEW b \in Int, NEW c \in Int
  PROVE  (a - b) * c = a * c - b * c /\ (a + b) * c = a * c + b * c
OBVIOUS

-----------------------------------------------------------------------------
(* The resampler *)

(* Resample takes one frame at a time. *)
LEMMA ResampleSteps ==
  ASSUME NEW r, NEW frames \in Seq(Nat), NEW p
  PROVE  /\ AfterFrames(r, frames, p)[0] = [resampler |-> r, out |-> <<>>]
         /\ \A n \in 1 .. Len(frames) :
                AfterFrames(r, frames, p)[n]
                    = ResampleFrame(AfterFrames(r, frames, p)[n - 1], frames[n], p)
<1> DEFINE UpTo(m) == \E g : g = [n \in 0 .. m |->
                        IF n = 0 THEN [resampler |-> r, out |-> <<>>]
                        ELSE ResampleFrame(g[n - 1], frames[n], p)]
           S == {m \in Nat : UpTo(m)}
<1>1. 0 \in S
  <2> DEFINE g == [n \in 0 .. 0 |-> [resampler |-> r, out |-> <<>>]]
  <2>1. g = [n \in 0 .. 0 |-> IF n = 0 THEN [resampler |-> r, out |-> <<>>]
                              ELSE ResampleFrame(g[n - 1], frames[n], p)]
    OBVIOUS
  <2> QED
    BY <2>1
<1>2. ASSUME NEW m \in S PROVE m + 1 \in S
  <2>1. PICK g : g = [n \in 0 .. m |-> IF n = 0 THEN [resampler |-> r, out |-> <<>>]
                                       ELSE ResampleFrame(g[n - 1], frames[n], p)]
    BY <1>2
  <2> DEFINE h == [n \in 0 .. m + 1 |-> IF n <= m THEN g[n]
                                        ELSE ResampleFrame(g[m], frames[m + 1], p)]
  <2>2. \A n \in 0 .. m : h[n] = g[n]
    OBVIOUS
  <2>3. \A n \in 0 .. m + 1 : h[n] = IF n = 0 THEN [resampler |-> r, out |-> <<>>]
                                     ELSE ResampleFrame(h[n - 1], frames[n], p)
    <3> TAKE n \in 0 .. m + 1
    <3>1. CASE n = 0
      BY <2>1, <2>2, <3>1
    <3>2. CASE n \in 1 .. m
      BY <2>1, <2>2, <3>2
    <3>3. CASE n = m + 1
      BY <2>2, <3>3
    <3> QED
      BY <3>1, <3>2, <3>3
  <2>4. h = [n \in 0 .. m + 1 |-> IF n = 0 THEN [resampler |-> r, out |-> <<>>]
                                  ELSE ResampleFrame(h[n - 1], frames[n], p)]
    <3> HIDE DEF h
    <3>1. h = [n \in 0 .. m + 1 |-> h[n]]
      BY DEF h
    <3> QED
      BY <2>3, <3>1
  <2> HIDE DEF h
  <2>5. UpTo(m + 1)
    BY <2>4
  <2> QED
    BY <2>5
<1> HIDE DEF S
<1>3. UpTo(Len(frames))
  <2>1. S \in SUBSET Nat
    BY DEF S
  <2>2. Len(frames) \in S
    BY <1>1, <1>2, <2>1, AllNumbers
  <2> QED
    BY <2>2 DEF S
<1> DEFINE g == AfterFrames(r, frames, p)
<1>4. g = [n \in 0 .. Len(frames) |-> IF n = 0 THEN [resampler |-> r, out |-> <<>>]
                                      ELSE ResampleFrame(g[n - 1], frames[n], p)]
  BY <1>3 DEF AfterFrames
<1> HIDE DEF g
<1>5. Len(frames) \in Nat
  OBVIOUS
<1>6. g[0] = [resampler |-> r, out |-> <<>>]
  BY <1>4, <1>5
<1>7. \A n \in 1 .. Len(frames) : g[n] = ResampleFrame(g[n - 1], frames[n], p)
  <2> TAKE n \in 1 .. Len(frames)
  <2>1. n \in 0 .. Len(frames) /\ n # 0
    BY <1>5
  <2>2. g[n] = IF n = 0 THEN [resampler |-> r, out |-> <<>>]
               ELSE ResampleFrame(g[n - 1], frames[n], p)
    BY <1>4, <2>1, Zenon
  <2> QED
    BY <2>1, <2>2
<1> QED
  BY <1>6, <1>7 DEF g

(* The rates and the limits of a plan. *)
LEMMA PlanFacts ==
  ASSUME plan \in Plans
  PROVE  /\ plan.source \in Nat \ {0} /\ plan.target \in Nat \ {0}
         /\ UtteranceLimit(plan) \in Nat /\ LimitIssues(plan) # {}
         /\ LimitIssues(plan) \subseteq Issues
<1>1. /\ {plan.source, plan.target} \subseteq Nat \ {0}
      /\ {plan.duration, plan.bytes, plan.capacity} \subseteq Nat
  BY AudioAssumption
<1> DEFINE L == {plan.capacity, plan.duration, plan.bytes}
<1>2. L \in SUBSET Nat /\ L # {}
  BY <1>1
<1>3. Least(L) \in L
  BY <1>2, LeastExists
<1>4. UtteranceLimit(plan) = Least(L)
  BY DEF UtteranceLimit
<1> HIDE DEF L
<1>5. UtteranceLimit(plan) \in {plan.capacity, plan.duration, plan.bytes}
  BY <1>3, <1>4 DEF L
<1>6. LimitIssues(plan) # {}
  BY <1>5 DEF LimitIssues
<1>7. LimitIssues(plan) \subseteq Issues
  BY DEF LimitIssues, Issues
<1> QED
  BY <1>1, <1>5, <1>6, <1>7

(* As many samples are due as lie up to the end of the segment. *)
LEMMA DueEnds ==
  ASSUME NEW T \in Nat \ {0}, NEW S \in Nat \ {0}, NEW end \in Nat, NEW next \in Nat,
         NEW start \in Int, start < next, next <= start + S, end = start + T,
         NEW due, due = IF next > end THEN 0 ELSE (end - next) \div S + 1
  PROVE  due \in Nat /\ end < next + due * S /\ next + due * S <= end + S
<1>1. CASE next > end
  BY <1>1
<1>2. CASE next <= end
  <2> DEFINE d == (end - next) \div S
  <2>1. end - next \in Nat
    BY <1>2
  <2>2. d \in Nat /\ d * S <= end - next /\ end - next < d * S + S
    BY <2>1, Quotient
  <2>3. due = d + 1
    BY <1>2
  <2> HIDE DEF d
  <2>4. due * S = d * S + S
    BY <2>2, <2>3
  <2> QED
    BY <2>2, <2>3, <2>4
<1> QED
  BY <1>1, <1>2

(* The resampler within a run whose first frame minus its first total is base. *)
InRun(q, base) ==
    /\ q \in [total : Nat \ {0}, next : Nat, previous : Nat]
    /\ q.previous - q.total + 1 = base
    /\ (q.total - 1) * plan.target < q.next
    /\ q.next <= (q.total - 1) * plan.target + plan.source

(* What the next frame of the run makes of the resampler and its output. *)
NextOfRun(g, h, base) ==
    /\ InRun(h.resampler, base) /\ h.resampler.previous = g.resampler.previous + 1
    /\ h.out \in Seq(Nat) /\ Len(h.out) >= Len(g.out)
    /\ h.resampler.next = g.resampler.next + (Len(h.out) - Len(g.out)) * plan.source
    /\ \A k \in 1 .. Len(g.out) : h.out[k] = g.out[k]
    /\ \A k \in Len(g.out) + 1 .. Len(h.out) :
           h.out[k] = base * plan.target + g.resampler.next
                      + (k - Len(g.out) - 1) * plan.source

(* One frame of a run gives the samples due before it, at even steps.         *)
LEMMA FrameOfRun ==
  ASSUME plan \in Plans, NEW base \in Nat, NEW g, InRun(g.resampler, base), g.out \in Seq(Nat),
         NEW h, h = ResampleFrame(g, g.resampler.previous + 1, plan)
  PROVE  NextOfRun(g, h, base)
<1> DEFINE T == plan.target
           S == plan.source
           q == g.resampler
           out == g.out
           due == DueInSegment(q, plan)
           fresh == SegmentSamples(q, q.previous + 1, plan)
<1>1. T \in Nat \ {0} /\ S \in Nat \ {0}
  BY PlanFacts
<1>2. /\ q.total \in Nat \ {0} /\ q.next \in Nat /\ q.previous \in Nat
      /\ q.previous - q.total + 1 = base
      /\ (q.total - 1) * T < q.next /\ q.next <= (q.total - 1) * T + S
  BY DEF InRun
<1>3. due = IF q.next > q.total * T THEN 0 ELSE (q.total * T - q.next) \div S + 1
  BY DEF DueInSegment
<1>4. h = [resampler |-> [total |-> q.total + 1, next |-> q.next + due * S,
                          previous |-> q.previous + 1],
           out |-> out \o fresh]
  <2>1. q.previous # Unknown
    BY <1>2 DEF Unknown
  <2> QED
    BY <2>1 DEF ResampleFrame
<1>f. fresh = [k \in 1 .. due |-> q.previous * T + ((q.previous + 1) - q.previous)
                                        * (q.next + (k - 1) * S - (q.total - 1) * T)]
  BY DEF SegmentSamples
<1>o. out \in Seq(Nat)
  OBVIOUS
<1> HIDE DEF T, S, due, q, out, fresh
<1>5. due \in Nat /\ q.total * T < q.next + due * S /\ q.next + due * S <= q.total * T + S
  <2> DEFINE end == q.total * T
             start == (q.total - 1) * T
  <2>1. end \in Nat /\ start \in Int /\ end = start + T
    <3>1. q.total \in Nat /\ q.total - 1 \in Int /\ T \in Nat /\ T \in Int /\ q.total \in Int
          /\ 1 * T = T
      BY <1>1, <1>2
    <3>2. (q.total - 1) * T = q.total * T - 1 * T
      BY <3>1, TimesDistributes
    <3>3. end \in Nat
      BY <3>1, NatTimes
    <3>4. start \in Int
      BY <3>1, IntTimes
    <3>5. start = end - T
      BY <3>1, <3>2
    <3> HIDE DEF end, start
    <3> QED
      BY <3>1, <3>3, <3>4, <3>5
  <2>2. start < q.next /\ q.next <= start + S
    BY <1>2
  <2>3. due = IF q.next > end THEN 0 ELSE (end - q.next) \div S + 1
    BY <1>3
  <2> HIDE DEF end, start
  <2>4. due \in Nat /\ end < q.next + due * S /\ q.next + due * S <= end + S
    BY <1>1, <1>2, <2>1, <2>2, <2>3, DueEnds
  <2> QED
    BY <2>4 DEF end
<1>6. \A k \in 1 .. due : fresh[k] = base * T + q.next + (k - 1) * S
  <2> TAKE k \in 1 .. due
  <2> DEFINE x == (k - 1) * S
  <2>1. x \in Nat
    <3>1. k - 1 \in Nat /\ S \in Nat
      BY <1>1, <1>5
    <3> QED
      BY <3>1, NatTimes
  <2>2. fresh[k] = q.previous * T + (q.next + x - (q.total - 1) * T)
    <3> DEFINE y == q.next + x - (q.total - 1) * T
    <3>1. y \in Int
      BY <1>1, <1>2, <2>1
    <3>2. fresh[k] = q.previous * T + ((q.previous + 1) - q.previous) * y
      BY <1>f
    <3>3. (q.previous + 1) - q.previous = 1
      BY <1>2
    <3> HIDE DEF y
    <3>4. ((q.previous + 1) - q.previous) * y = y
      BY <3>1, <3>3
    <3> QED
      BY <3>2, <3>4 DEF y
  <2>3. base * T = q.previous * T - (q.total - 1) * T
    <3>1. base = q.previous - (q.total - 1) /\ q.total - 1 \in Int
      <4>1. q.total \in Nat \ {0} /\ q.previous \in Nat /\ q.previous - q.total + 1 = base
        BY <1>2
      <4> QED
        BY <4>1
    <3>2. q.previous \in Int /\ T \in Int
      BY <1>1, <1>2
    <3> QED
      BY <3>1, <3>2, TimesDistributes
  <2> HIDE DEF x
  <2>4. q.previous * T \in Int /\ (q.total - 1) * T \in Int
    BY <1>1, <1>2
  <2>5. fresh[k] = base * T + q.next + x
    BY <1>2, <2>1, <2>2, <2>3, <2>4
  <2> QED
    BY <2>5 DEF x
<1>7. fresh \in Seq(Nat) /\ Len(fresh) = due
  <2>1. \A k \in 1 .. due : (k - 1) * S \in Nat
    BY <1>1, <1>5
  <2>2. base * T \in Nat
    BY <1>1
  <2>3. \A k \in 1 .. due : fresh[k] \in Nat
    BY <1>2, <1>6, <2>1, <2>2
  <2> QED
    BY <1>5, <1>f, <2>3
<1>8. /\ h.out = out \o fresh /\ h.out \in Seq(Nat) /\ Len(h.out) = Len(out) + due
      /\ \A k \in 1 .. Len(h.out) : h.out[k] = IF k <= Len(out) THEN out[k] ELSE fresh[k - Len(out)]
  <2>1. h.out = out \o fresh
    BY <1>4
  <2>2. /\ out \o fresh \in Seq(Nat) /\ Len(out \o fresh) = Len(out) + Len(fresh)
        /\ \A k \in 1 .. Len(out) + Len(fresh) :
               (out \o fresh)[k] = IF k <= Len(out) THEN out[k] ELSE fresh[k - Len(out)]
    BY <1>7, <1>o, ConcatProperties
  <2> QED
    BY <1>7, <2>1, <2>2
<1>9. /\ h.resampler = [total |-> q.total + 1, next |-> q.next + due * S,
                       previous |-> q.previous + 1]
  BY <1>4, <1>5
<1>10. InRun(h.resampler, base)
  <2>1. q.next + due * S \in Nat
    <3>1. due * S \in Int /\ q.total * T \in Nat
      BY <1>1, <1>2, <1>5
    <3> QED
      BY <1>2, <1>5, <3>1
  <2>2. /\ h.resampler.total = q.total + 1 /\ h.resampler.next = q.next + due * S
        /\ h.resampler.previous = q.previous + 1
    BY <1>9
  <2>3. h.resampler \in [total : Nat \ {0}, next : Nat, previous : Nat]
    BY <1>2, <1>9, <2>1
  <2>4. h.resampler.total - 1 = q.total /\ h.resampler.previous - h.resampler.total + 1 = base
    <3>1. (q.total + 1) - 1 = q.total /\ (q.previous + 1) - (q.total + 1) + 1 = base
      BY <1>2
    <3> QED
      BY <1>2, <2>2, <3>1
  <2> QED
    BY <1>5, <2>2, <2>3, <2>4 DEF InRun, T, S
<1>11. \A k \in Len(out) + 1 .. Len(h.out) :
          h.out[k] = base * T + q.next + (k - Len(out) - 1) * S
  <2> TAKE k \in Len(out) + 1 .. Len(h.out)
  <2>0. Len(out) \in Nat
    BY <1>o, LenProperties
  <2>1. k \in 1 .. Len(h.out) /\ ~(k <= Len(out)) /\ k - Len(out) \in 1 .. due
    BY <1>5, <1>8, <2>0
  <2>2. h.out[k] = fresh[k - Len(out)]
    BY <1>8, <2>1
  <2> QED
    BY <1>6, <2>1, <2>2
<1>12. h.resampler.next = q.next + (Len(h.out) - Len(out)) * S
  <2>1. Len(h.out) - Len(out) = due
    BY <1>5, <1>8
  <2> QED
    BY <1>9, <2>1
<1>13. h.resampler.previous = q.previous + 1
  BY <1>9
<1>14. Len(h.out) >= Len(out) /\ \A k \in 1 .. Len(out) : h.out[k] = out[k]
  BY <1>5, <1>8
<1> QED
  BY <1>8, <1>10, <1>11, <1>12, <1>13, <1>14 DEF NextOfRun, T, S, q, out

(* The samples so far are at even steps from base, the last frame being last. *)
EvenRun(q, base, from, last) ==
    /\ InRun(q.resampler, base) /\ q.resampler.previous = last
    /\ q.out \in Seq(Nat) /\ q.resampler.next = from + Len(q.out) * plan.source
    /\ \A k \in 1 .. Len(q.out) :
           q.out[k] = base * plan.target + from + (k - 1) * plan.source

(* A frame that follows keeps what was given at even steps. *)
LEMMA EvenStep ==
  ASSUME plan \in Plans, NEW base \in Nat, NEW from \in Nat, NEW last \in Nat,
         NEW g, EvenRun(g, base, from, last),
         NEW h, h = ResampleFrame(g, last + 1, plan)
  PROVE  EvenRun(h, base, from, last + 1)
<1> DEFINE T == plan.target
           S == plan.source
           L == Len(g.out)
           M == Len(h.out)
<1>1. /\ InRun(g.resampler, base) /\ g.resampler.previous = last
      /\ g.out \in Seq(Nat) /\ g.resampler.next = from + L * S
      /\ \A k \in 1 .. L : g.out[k] = base * T + from + (k - 1) * S
  BY DEF EvenRun
<1>2. /\ InRun(h.resampler, base) /\ h.resampler.previous = last + 1
      /\ h.out \in Seq(Nat) /\ M >= L
      /\ h.resampler.next = g.resampler.next + (M - L) * S
      /\ \A k \in 1 .. L : h.out[k] = g.out[k]
      /\ \A k \in L + 1 .. M : h.out[k] = base * T + g.resampler.next + (k - L - 1) * S
  <2>1. h = ResampleFrame(g, g.resampler.previous + 1, plan)
    BY <1>1
  <2> QED
    <3>1. NextOfRun(g, h, base)
      BY <1>1, <2>1, FrameOfRun
    <3> QED
      BY <1>1, <3>1 DEF NextOfRun
<1>3. L \in Nat /\ M \in Nat /\ T \in Nat /\ S \in Nat
  BY <1>1, <1>2, PlanFacts, LenProperties
<1> HIDE DEF T, S, L, M
<1>4. h.resampler.next = from + M * S
  <2>1. (M - L) * S = M * S - L * S /\ M * S \in Int /\ L * S \in Int
    BY <1>3, TimesDistributes
  <2> QED
    BY <1>1, <1>2, <2>1
<1>5. ASSUME NEW k \in 1 .. M PROVE h.out[k] = base * T + from + (k - 1) * S
  <2>1. CASE k <= L
    <3>1. k \in 1 .. L
      BY <1>3, <2>1
    <3> QED
      BY <1>1, <1>2, <3>1
  <2>2. CASE k > L
    <3>1. k \in L + 1 .. M
      BY <1>3, <2>2
    <3>2. h.out[k] = base * T + g.resampler.next + (k - L - 1) * S
      BY <1>2, <3>1
    <3>3. k - L - 1 = (k - 1) - L /\ k - 1 \in Int
      BY <1>3
    <3>4. (k - L - 1) * S = (k - 1) * S - L * S
      BY <1>3, <3>3, TimesDistributes
    <3>5. base * T \in Int /\ L * S \in Int /\ (k - 1) * S \in Int
      BY <1>3
    <3> QED
      BY <1>1, <3>2, <3>4, <3>5
  <2> QED
    BY <1>3, <2>1, <2>2
<1> QED
  BY <1>2, <1>4, <1>5 DEF EvenRun, T, S, M

(* A run of frames makes samples at even steps, across the borders of blocks. *)
LEMMA ResampleRun ==
  ASSUME plan \in Plans, NEW r, Stands(r), NEW frames, IsRun(frames),
         r.previous # Unknown => frames[1] = r.previous + 1
  PROVE  /\ frames[1] - r.total \in Nat /\ r.next \in Nat /\ Last(frames) \in Nat
         /\ EvenRun(Resample(r, frames, plan), frames[1] - r.total, r.next, Last(frames))
<1> DEFINE first == frames[1]
           base == first - r.total
           n == Len(frames)
<1>1. /\ n \in Nat \ {0} /\ first \in Nat /\ frames \in Seq(Nat)
      /\ \A k \in 1 .. n : frames[k] = first + k - 1
  BY EmptySeq, LenProperties, ElementOfSeq DEF IsRun
<1>2. base \in Nat /\ r.next \in Nat
  <2>1. CASE r.previous = Unknown
    BY <1>1, <2>1 DEF Stands, ResamplerReset
  <2>2. CASE r.previous # Unknown
    BY <1>1, <2>2 DEF Stands
  <2> QED
    BY <2>1, <2>2
<1> DEFINE g == AfterFrames(r, frames, plan)
<1>3. /\ Resample(r, frames, plan) = g[n]
      /\ g[0] = [resampler |-> r, out |-> <<>>]
      /\ \A m \in 1 .. n : g[m] = ResampleFrame(g[m - 1], frames[m], plan)
  BY <1>1, ResampleSteps DEF Resample
<1> HIDE DEF g
<1>e. Last(frames) = first + n - 1
  <2>1. n \in 1 .. n
    BY <1>1
  <2> QED
    BY <1>1, <2>1 DEF Last
<1> HIDE DEF n
<1> DEFINE Even(m) == EvenRun(g[m], base, r.next, first + m - 1)
<1>4. Even(1)
  <2>1. CASE r.previous = Unknown
    <3>1. r = ResamplerReset
      BY <2>1 DEF Stands
    <3>2. g[1] = ResampleFrame(g[0], first, plan)
      <4>1. 1 \in 1 .. n /\ 1 - 1 = 0
        BY <1>1
      <4> QED
        BY <1>3, <4>1
    <3>3. g[1] = [resampler |-> [total |-> 1, next |-> plan.source, previous |-> first],
                  out |-> <<first * plan.target>>]
      <4>1. <<>> \o <<first * plan.target>> = <<first * plan.target>>
        OBVIOUS
      <4> QED
        BY <1>3, <3>1, <3>2, <4>1 DEF ResampleFrame, ResamplerReset
    <3>4. plan.source \in Nat \ {0} /\ plan.target \in Nat \ {0} /\ first * plan.target \in Nat
      BY <1>1, PlanFacts
    <3>5. r.total = 0 /\ r.next = 0
      BY <3>1 DEF ResamplerReset
    <3>6. base = first /\ first + 1 - 1 = first
      BY <1>1, <3>5
    <3>7. InRun(g[1].resampler, base)
      BY <1>1, <3>3, <3>4, <3>6 DEF InRun
    <3>8. /\ g[1].out \in Seq(Nat) /\ Len(g[1].out) = 1 /\ g[1].out[1] = first * plan.target
          /\ g[1].resampler.previous = first /\ g[1].resampler.next = plan.source
      BY <3>3, <3>4
    <3>9. \A k \in 1 .. 1 : first * plan.target = base * plan.target + 0 + (k - 1) * plan.source
      BY <3>4, <3>6
    <3> QED
      BY <3>4, <3>5, <3>6, <3>7, <3>8, <3>9 DEF EvenRun
  <2>2. CASE r.previous # Unknown
    <3>1. /\ r \in [total : Nat \ {0}, next : Nat, previous : Nat]
          /\ r.total <= r.previous + 1 /\ (r.total - 1) * plan.target < r.next
          /\ r.next <= (r.total - 1) * plan.target + plan.source
      BY <2>2 DEF Stands
    <3>2. first = r.previous + 1 /\ base = r.previous - r.total + 1
      BY <2>2, <3>1
    <3>3. InRun(r, base)
      BY <3>1, <3>2 DEF InRun
    <3>4. EvenRun(g[0], base, r.next, r.previous)
      <4>1. g[0].resampler = r /\ g[0].out = <<>> /\ Len(<<>>) = 0 /\ <<>> \in Seq(Nat)
        BY <1>3
      <4>2. r.next = r.next + 0 * plan.source
        BY <1>2, PlanFacts
      <4> QED
        BY <3>3, <4>1, <4>2 DEF EvenRun
    <3>5. g[1] = ResampleFrame(g[0], r.previous + 1, plan)
      <4>1. 1 \in 1 .. n /\ 1 - 1 = 0 /\ frames[1] = r.previous + 1
        BY <1>1, <3>2
      <4> QED
        BY <1>3, <4>1
    <3>6. r.previous \in Nat /\ first + 1 - 1 = r.previous + 1
      BY <3>1, <3>2
    <3> HIDE DEF base
    <3>7. EvenRun(g[1], base, r.next, r.previous + 1)
      BY <1>2, <3>4, <3>5, <3>6, EvenStep
    <3> QED
      BY <3>6, <3>7
  <2> QED
    BY <2>1, <2>2
<1>5. ASSUME NEW m \in 1 .. n - 1, Even(m) PROVE Even(m + 1)
  <2>1. /\ g[m + 1] = ResampleFrame(g[m], frames[m + 1], plan)
        /\ frames[m + 1] = (first + m - 1) + 1 /\ first + m - 1 \in Nat
        /\ first + (m + 1) - 1 = (first + m - 1) + 1
    <3>1. m + 1 \in 1 .. n /\ (m + 1) - 1 = m
      BY <1>1
    <3>2. g[m + 1] = ResampleFrame(g[m], frames[m + 1], plan)
      BY <1>3, <3>1
    <3>3. frames[m + 1] = first + (m + 1) - 1
      BY <1>1, <3>1
    <3> HIDE DEF base, first
    <3>4. /\ first + (m + 1) - 1 = (first + m - 1) + 1 /\ first + m - 1 \in Nat
      BY <1>1
    <3> QED
      BY <3>2, <3>3, <3>4
  <2> HIDE DEF base, first
  <2>2. EvenRun(g[m + 1], base, r.next, (first + m - 1) + 1)
    BY <1>2, <1>5, <2>1, EvenStep
  <2> QED
    BY <2>1, <2>2
<1>6. Even(n)
  <2> DEFINE E == {m \in Nat : m < n => Even(m + 1)}
  <2> HIDE DEF Even
  <2>1. 0 \in E
    BY <1>4
  <2>2. ASSUME NEW m \in E PROVE m + 1 \in E
    <3> SUFFICES ASSUME m + 1 < n PROVE Even((m + 1) + 1)
      OBVIOUS
    <3>1. m + 1 \in 1 .. n - 1 /\ Even(m + 1)
      BY <1>1
    <3> QED
      BY <1>5, <3>1
  <2>3. E \in SUBSET Nat
    OBVIOUS
  <2> HIDE DEF E
  <2>4. \A m \in Nat : m \in E
    BY <2>1, <2>2, <2>3, AllNumbers
  <2>5. n - 1 \in Nat /\ n - 1 < n /\ (n - 1) + 1 = n
    BY <1>1
  <2>6. n - 1 \in E
    BY <2>4, <2>5
  <2> QED
    BY <2>5, <2>6 DEF E
<1> QED
  BY <1>1, <1>2, <1>3, <1>6, <1>e

(* What a block gives: samples at even steps, after the frames before it and  *)
(* up to its last frame, and the resampler standing after that frame.         *)
OutOfRun(r, frames, res) ==
    /\ Stands(res.resampler) /\ res.resampler.previous = Last(frames)
    /\ res.resampler.previous - res.resampler.total + 1 = frames[1] - r.total
    /\ res.out \in Seq(Nat) /\ res.resampler.next = r.next + Len(res.out) * plan.source
    /\ \A k \in 1 .. Len(res.out) :
           /\ res.out[k] = (frames[1] - r.total) * plan.target + r.next + (k - 1) * plan.source
           /\ res.out[k] <= Last(frames) * plan.target
           /\ r.previous # Unknown => res.out[k] > r.previous * plan.target
           /\ r.previous = Unknown => res.out[k] >= frames[1] * plan.target
           /\ k < Len(res.out) => res.out[k] < res.out[k + 1]
    /\ (Len(res.out) - 1) * plan.source < Len(frames) * plan.target

(* What a run of frames gives: even steps, all after the run's past and none  *)
(* after its last frame.                                                      *)
LEMMA OutputOfRun ==
  ASSUME plan \in Plans, NEW r, Stands(r), NEW frames, IsRun(frames),
         r.previous # Unknown => frames[1] = r.previous + 1
  PROVE  OutOfRun(r, frames, Resample(r, frames, plan))
<1> DEFINE T == plan.target
           S == plan.source
           res == Resample(r, frames, plan)
           q == res.resampler
           out == res.out
           first == frames[1]
           last == Last(frames)
           base == first - r.total
           from == r.next
           N == Len(out)
<1>1. base \in Nat /\ from \in Nat /\ last \in Nat /\ EvenRun(res, base, from, last)
  BY ResampleRun
<1>2. T \in Nat \ {0} /\ S \in Nat \ {0}
  BY PlanFacts
<1>3. /\ first \in Nat /\ Len(frames) \in Nat \ {0} /\ last = first + Len(frames) - 1
  <2>1. frames \in Seq(Nat) /\ Len(frames) \in Nat \ {0}
    BY EmptySeq, LenProperties DEF IsRun
  <2>2. 1 \in 1 .. Len(frames) /\ Len(frames) \in 1 .. Len(frames)
    BY <2>1
  <2> QED
    BY <2>1, <2>2, ElementOfSeq DEF IsRun, Last
<1>4. /\ r.total \in Nat /\ (r.previous = Unknown => r.total = 0 /\ from = 0)
      /\ r.previous # Unknown => /\ r.previous \in Nat /\ first = r.previous + 1
                                 /\ (r.total - 1) * T < from /\ r.total # 0
  BY DEF Stands, ResamplerReset
<1> HIDE DEF res, T, S, first, last, from
<1>5. /\ q.total \in Nat \ {0} /\ q.next \in Nat /\ q.previous = last
      /\ last - q.total + 1 = base
      /\ (q.total - 1) * T < q.next /\ q.next <= (q.total - 1) * T + S
      /\ q \in [total : Nat \ {0}, next : Nat, previous : Nat]
      /\ out \in Seq(Nat) /\ q.next = from + N * S
      /\ \A k \in 1 .. N : out[k] = base * T + from + (k - 1) * S
  BY <1>1 DEF EvenRun, InRun, T, S
<1> HIDE DEF out, q, N
<1>6. N \in Nat
  BY <1>5, LenProperties DEF N
<1> DEFINE bT == base * T
           lT == last * T
           fT == first * T
           rT == r.total * T
           NS == N * S
           NT == Len(frames) * T
<1>7. /\ bT \in Nat /\ lT \in Nat /\ fT \in Nat /\ rT \in Nat /\ NS \in Nat /\ NT \in Nat
      /\ (q.total - 1) * T = lT - bT /\ bT = fT - rT /\ NT = lT - fT + T
      /\ (N - 1) * S = NS - S
  <2>1. /\ q.total - 1 = last - base /\ Len(frames) = (last - first) + 1
        /\ last - first \in Int
    BY <1>1, <1>3, <1>5
  <2>2. /\ last \in Int /\ base \in Int /\ T \in Int /\ r.total \in Int /\ first \in Int
        /\ S \in Int /\ N \in Int
    BY <1>1, <1>2, <1>3, <1>4, <1>6
  <2>3. (last - base) * T = last * T - base * T
    BY <2>2, TimesDistributes
  <2>4. (first - r.total) * T = first * T - r.total * T
    BY <2>2, TimesDistributes
  <2>5. ((last - first) + 1) * T = (last - first) * T + 1 * T
    BY <2>1, <2>2, TimesDistributes
  <2>6. (last - first) * T = last * T - first * T
    BY <2>2, TimesDistributes
  <2>7. (N - 1) * S = N * S - 1 * S
    BY <2>2, TimesDistributes
  <2>8. 1 * S = S /\ 1 * T = T
    BY <2>2
  <2>9. /\ base * T \in Nat /\ last * T \in Nat /\ first * T \in Nat /\ r.total * T \in Nat
        /\ N * S \in Nat /\ Len(frames) * T \in Nat
    <3>1. T \in Nat /\ S \in Nat /\ Len(frames) \in Nat
      BY <1>2, <1>3
    <3> QED
      BY <1>1, <1>3, <1>4, <1>6, <3>1, NatTimes
  <2>10. /\ (q.total - 1) * T = lT - bT /\ bT = fT - rT
    BY <2>1, <2>3, <2>4
  <2>11. NT = lT - fT + T
    <3>1. NT = (last - first) * T + 1 * T
      BY <2>1, <2>5
    <3> HIDE DEF NT
    <3> QED
      BY <2>6, <2>8, <3>1
  <2>12. (N - 1) * S = NS - S
    BY <2>7, <2>8
  <2> QED
    BY <2>9, <2>10, <2>11, <2>12
<1>8. /\ (q.total - 1) * T < q.next /\ q.next <= (q.total - 1) * T + S /\ q.next = from + NS
      /\ \A k \in 1 .. N : out[k] = bT + from + (k - 1) * S
  BY <1>5
<1> HIDE DEF bT, lT, fT, rT, NS, NT
<1>9. bT + from + (NS - S) <= lT
  BY <1>1, <1>2, <1>5, <1>7, <1>8
<1> DEFINE pT == r.previous * T
<1>10. /\ r.previous # Unknown => pT \in Nat /\ pT = fT - T /\ bT + from > pT
       /\ r.previous = Unknown => bT + from >= fT
  <2>1. CASE r.previous = Unknown
    <3>1. rT = 0
      BY <1>2, <1>4, <2>1 DEF rT
    <3> QED
      BY <1>1, <1>4, <1>7, <2>1, <3>1
  <2>2. CASE r.previous # Unknown
    <3>1. (r.total - 1) * T = r.total * T - 1 * T /\ (first - 1) * T = first * T - 1 * T
          /\ 1 * T = T
      BY <1>2, <1>3, <1>4, TimesDistributes
    <3>2. (r.total - 1) * T = rT - T /\ (first - 1) * T = fT - T
      BY <3>1 DEF rT, fT
    <3>3. first - 1 = r.previous
      BY <1>4, <2>2
    <3>4. pT = fT - T
      BY <3>2, <3>3
    <3>5. pT \in Nat
      BY <1>2, <1>4, <2>2
    <3>6. rT - T < from
      BY <1>4, <2>2, <3>2
    <3> HIDE DEF pT
    <3> QED
      BY <1>1, <1>2, <1>4, <1>7, <2>2, <3>4, <3>5, <3>6
  <2> QED
    BY <2>1, <2>2
<1> HIDE DEF pT
<1>11. (N - 1) * S < NT
  <2>1. bT + from > fT - T
    BY <1>1, <1>2, <1>7, <1>10
  <2>2. NS - S < NT
    BY <1>1, <1>2, <1>7, <1>9, <2>1
  <2> QED
    BY <1>7, <2>2
<1>12. ASSUME NEW k \in 1 .. N
       PROVE  /\ out[k] <= lT
              /\ r.previous # Unknown => out[k] > pT
              /\ r.previous = Unknown => out[k] >= fT
              /\ k < N => out[k] < out[k + 1]
  <2> DEFINE x == (k - 1) * S
  <2>1. out[k] = bT + from + x
    BY <1>8
  <2>2. x \in Nat /\ x <= NS - S
    <3>1. 0 <= k - 1 /\ k - 1 <= N - 1 /\ k - 1 \in Int /\ N - 1 \in Int
      BY <1>6
    <3>2. (k - 1) * S <= (N - 1) * S
      BY <1>2, <3>1, TimesKeepsOrder
    <3>3. x \in Nat
      BY <1>2, <3>1
    <3> QED
      BY <1>7, <3>2, <3>3
  <2>3. ASSUME k < N PROVE out[k] < out[k + 1]
    <3>1. k + 1 \in 1 .. N /\ (k + 1) - 1 = k
      BY <1>6, <2>3
    <3>2. out[k + 1] = bT + from + k * S
      BY <1>8, <3>1
    <3>3. (k - 1) * S = k * S - 1 * S /\ 1 * S = S /\ k * S \in Int
      BY <1>2, TimesDistributes
    <3>4. k * S = x + S
      BY <1>2, <2>2, <3>3
    <3> HIDE DEF x
    <3> QED
      BY <1>1, <1>2, <1>7, <2>1, <2>2, <3>2, <3>4
  <2> HIDE DEF x
  <2>4. out[k] \in Nat /\ out[k] <= lT /\ out[k] >= bT + from
    BY <1>1, <1>2, <1>7, <1>9, <2>1, <2>2
  <2> QED
    BY <1>1, <1>7, <1>10, <2>3, <2>4
<1>13. Stands(q)
  <2>1. q.total <= q.previous + 1 /\ q.previous # Unknown
    BY <1>1, <1>5 DEF Unknown
  <2> QED
    BY <1>5, <2>1 DEF Stands, T, S
<1> QED
  BY <1>5, <1>11, <1>12, <1>13 DEF OutOfRun, q, out, N, res, T, S, first, last, from, NT, lT, fT, pT

(* Division rounded up. *)
LEMMA QuotientUp ==
  ASSUME NEW a \in Nat, NEW b \in Nat \ {0}
  PROVE  /\ CeilDiv(a, b) \in Nat /\ a <= CeilDiv(a, b) * b /\ CeilDiv(a, b) * b < a + b
<1>1. a + b - 1 \in Nat
  OBVIOUS
<1> DEFINE c == (a + b - 1) \div b
<1>2. c \in Nat /\ c * b <= a + b - 1 /\ a + b - 1 < c * b + b
  BY <1>1, Quotient
<1>3. c * b \in Nat
  BY <1>2
<1> HIDE DEF c
<1>4. a <= c * b /\ c * b < a + b
  BY <1>2, <1>3
<1> QED
  BY <1>2, <1>4 DEF c, CeilDiv

(* An instant between two frames lies between two neighbours that are between *)
(* them.                                                                      *)
LEMMA BetweenFrames ==
  ASSUME NEW a \in Nat, NEW t \in Nat \ {0}, NEW lo \in Nat, NEW hi \in Nat,
         lo * t <= a, a <= hi * t
  PROVE  /\ a \div t \in lo .. hi /\ CeilDiv(a, t) \in lo .. hi
         /\ lo * t < a => CeilDiv(a, t) >= lo + 1
<1> DEFINE f == a \div t
           c == CeilDiv(a, t)
<1>1. f \in Nat /\ f * t <= a /\ a < f * t + t
  BY Quotient
<1>2. c \in Nat /\ a <= c * t /\ c * t < a + t
  BY QuotientUp
<1> HIDE DEF f, c
<1>3. (f + 1) * t = f * t + t /\ (hi + 1) * t = hi * t + t
      /\ {f * t, c * t, hi * t, lo * t} \subseteq Nat
  <2>1. (f + 1) * t = f * t + 1 * t /\ (hi + 1) * t = hi * t + 1 * t /\ 1 * t = t
    BY <1>1, TimesDistributes
  <2>2. f * t \in Nat /\ c * t \in Nat /\ hi * t \in Nat /\ lo * t \in Nat
    BY <1>1, <1>2
  <2> QED
    BY <2>1, <2>2
<1>4. lo <= f
  <2>1. ~(f + 1 <= lo)
    <3> SUFFICES ASSUME f + 1 <= lo PROVE FALSE
      OBVIOUS
    <3>1. (f + 1) * t <= lo * t
      BY <1>1, TimesKeepsOrder
    <3> QED
      BY <1>1, <1>3, <3>1
  <2> QED
    BY <1>1, <2>1
<1>5. f <= hi
  <2>1. f * t <= hi * t
    BY <1>1, <1>3
  <2> QED
    BY <1>1, <2>1, TimesKeepsOrder
<1>6. lo <= c
  <2>1. lo * t <= c * t
    BY <1>2, <1>3
  <2> QED
    BY <1>2, <2>1, TimesKeepsOrder
<1>7. c <= hi
  <2>1. ~(hi + 1 <= c)
    <3> SUFFICES ASSUME hi + 1 <= c PROVE FALSE
      OBVIOUS
    <3>1. (hi + 1) * t <= c * t
      BY <1>2, TimesKeepsOrder
    <3> QED
      BY <1>2, <1>3, <3>1
  <2> QED
    BY <1>2, <2>1
<1>8. ASSUME lo * t < a PROVE c >= lo + 1
  <2>1. ~(c <= lo)
    <3> SUFFICES ASSUME c <= lo PROVE FALSE
      OBVIOUS
    <3>1. c * t <= lo * t
      BY <1>2, TimesKeepsOrder
    <3> QED
      BY <1>2, <1>3, <1>8, <3>1
  <2> QED
    BY <1>2, <2>1
<1> QED
  BY <1>1, <1>2, <1>4, <1>5, <1>6, <1>7, <1>8 DEF f, c

(* The scratch buffer of a block holds what a block gives. *)
LEMMA OutputFits ==
  ASSUME plan \in Plans, NEW r, NEW frames, NEW res, OutOfRun(r, frames, res),
         Len(frames) \in Nat, Len(frames) <= BlockFrames
  PROVE  Len(res.out) <= ResampledCapacity(plan, BlockFrames)
<1> DEFINE T == plan.target
           S == plan.source
           N == Len(res.out)
           B == BlockFrames * T
           c == CeilDiv(B, S)
<1>1. T \in Nat \ {0} /\ S \in Nat \ {0} /\ BlockFrames \in Nat \ {0}
  BY PlanFacts, AudioAssumption
<1>2. N \in Nat /\ (N - 1) * S < Len(frames) * T
  BY LenProperties DEF OutOfRun
<1> HIDE DEF T, S, N
<1>3. Len(frames) * T <= B /\ B \in Nat /\ Len(frames) * T \in Nat
  BY <1>1, TimesKeepsOrder
<1> HIDE DEF B
<1>4. c \in Nat /\ B <= c * S
  BY <1>1, <1>3, QuotientUp
<1> HIDE DEF c
<1>5. (N - 1) * S \in Int /\ c * S \in Int
  BY <1>1, <1>2, <1>4
<1>6. (N - 1) * S < c * S
  BY <1>2, <1>3, <1>4, <1>5
<1>7. ~(c <= N - 1)
  <2>1. c <= N - 1 => c * S <= (N - 1) * S
    BY <1>1, <1>2, <1>4, TimesKeepsOrder
  <2> QED
    BY <1>5, <1>6, <2>1
<1>8. N <= c + 2
  BY <1>2, <1>4, <1>7
<1> QED
  BY <1>8 DEF ResampledCapacity, N, c, B, T, S

-----------------------------------------------------------------------------
(* What the invariant says of the ring *)

(* The frame before a block that is filled, or is to be filled next. *)
LEMMA FramesBefore ==
  ASSUME StreamTyped, BlocksFollow, ResamplerStands, NEW i \in consumed .. Written
  PROVE  /\ FrameBefore(i) \in Nat \cup {Unknown}
         /\ FrameBefore(i) # Unknown => FrameBefore(i) \in offered
         /\ FrameBefore(i) = Unknown => i = consumed /\ resampler.previous = Unknown
<1>1. consumed \in Nat /\ Written \in Nat /\ offered \subseteq Nat /\ i \in Nat
  BY DEF StreamTyped, Written, CallbackStates
<1>2. CASE i = consumed
  <2>1. FrameBefore(i) = resampler.previous
    BY <1>2 DEF FrameBefore
  <2>2. resampler.previous \in Nat \cup {Unknown}
    BY <1>1 DEF ResamplerStands
  <2> QED
    BY <1>2, <2>1, <2>2 DEF ResamplerStands
<1>3. CASE i # consumed
  <2> DEFINE frames == Block(i - 1).frames
  <2>1. i - 1 \in consumed .. Written - 1
    BY <1>1, <1>3
  <2>2. IsRun(frames) /\ \A k \in 1 .. Len(frames) : frames[k] \in offered
    BY <2>1 DEF BlocksFollow
  <2>3. Len(frames) \in 1 .. Len(frames)
    BY <2>2, EmptySeq, LenProperties DEF IsRun
  <2>4. FrameBefore(i) = frames[Len(frames)]
    BY <1>3 DEF FrameBefore, Final, Last
  <2>5. FrameBefore(i) \in offered
    BY <2>2, <2>3, <2>4
  <2>6. FrameBefore(i) \in Nat
    BY <1>1, <2>5
  <2>7. FrameBefore(i) # Unknown
    BY <2>6 DEF Unknown
  <2> QED
    BY <2>5, <2>6, <2>7
<1> QED
  BY <1>2, <1>3

(* The numbers of the ring. *)
LEMMA RingNumbers ==
  ASSUME StreamTyped
  PROVE  /\ Slots \in Nat \ {0} /\ BlockFrames \in Nat \ {0} /\ MaxFrames \in Nat
         /\ published \in Nat /\ consumed \in Nat /\ Written \in Nat /\ nextFrame \in Nat
         /\ consumed <= Written /\ offered \subseteq Nat
         /\ cb.at \in {"idle", "check", "publish"} /\ cb.marks \subseteq Marks
         /\ cb.first \in Nat /\ cb.count \in Nat /\ cb.done \in Nat
         /\ cb.at # "publish" => Written = published
         /\ cb.at = "publish" => Written = published + 1
  BY AudioAssumption DEF StreamTyped, Written, CallbackStates

(* The parts that a step of the device leaves alone. *)
LEMMA WorkerKept ==
  ASSUME AudioInv, UNCHANGED <<plan, worker, pc, outcome>>, UNCHANGED device,
         stop' \in BOOLEAN, late' \in BOOLEAN, offered \subseteq offered'
  PROVE  /\ WorkerTyped' /\ ResamplerStands' /\ SamplesAreOrdered' /\ NoAudioAcrossABreak'
         /\ LimitHolds' /\ StepsAreEven' /\ TapFollows'
<1> USE DEF AudioInv, worker
<1>1. WorkerTyped'
  BY DEF WorkerTyped
<1>2. ResamplerStands'
  BY DEF ResamplerStands, Stands
<1>3. SamplesAreOrdered'
  BY DEF SamplesAreOrdered
<1>4. NoAudioAcrossABreak'
  BY DEF NoAudioAcrossABreak
<1>5. LimitHolds'
  BY DEF LimitHolds, LimitIsNamed
<1>6. StepsAreEven'
  BY DEF StepsAreEven, Origin
<1>7. TapFollows'
  BY DEF TapFollows, Instants
<1> QED
  BY <1>1, <1>2, <1>3, <1>4, <1>5, <1>6, <1>7

(* The blocks stay as they are, and offered frames stay offered. *)
LEMMA BlocksKept ==
  ASSUME BlocksFollow, UNCHANGED <<slots, consumed, resampler>>, Written' = Written,
         offered \subseteq offered'
  PROVE  /\ BlocksFollow' /\ FrameBefore(Written)' = FrameBefore(Written)
         /\ \A i \in consumed .. Written : FrameBefore(i)' = FrameBefore(i)
  BY DEF BlocksFollow, FrameBefore, Block, Final

(* What the capture thread relies on depends on its own state and the ring.   *)
LEMMA ThreadKept ==
  ASSUME ThreadKnows, UNCHANGED <<worker, device, pc, outcome, slots, consumed, published, overflows>>
  PROVE  ThreadKnows'
  BY DEF ThreadKnows, worker, Captured, Block

-----------------------------------------------------------------------------
(* The steps of the device *)

LEMMA DeliverKeepsInv ==
  ASSUME AudioInv, NEW count \in Callbacks, Deliver(count)
  PROVE  AudioInv'
<1> DEFINE gap == IF expected \in {Unknown, nextFrame} THEN {} ELSE {"gap"}
           marks == pending \cup gap
           new == nextFrame .. nextFrame + count - 1
           F == FrameBefore(Written)
<1>1. /\ device = "open" /\ cb.at = "idle" /\ nextFrame + count <= MaxFrames
      /\ nextFrame' = nextFrame + count /\ expected' = nextFrame + count
      /\ received' = received + count /\ offered' = offered \cup new
      /\ IF count = 0 THEN pending' = marks /\ cb' = cb
         ELSE /\ pending' = {}
              /\ cb' = [at |-> "check", first |-> nextFrame, count |-> count,
                        done |-> 0, marks |-> marks]
      /\ UNCHANGED <<plan, device, faulted, ring, enqueued, dropped, overflows,
                     worker, pc, stop, late, outcome>>
  BY DEF Deliver
<1>i. /\ StreamTyped /\ WorkerTyped /\ CountersAgree /\ BlocksFollow /\ CallbackFollows
      /\ ResamplerStands /\ OfferedIsOneRun /\ ThreadKnows
  BY DEF AudioInv
<1>n. count \in Nat
  BY AudioAssumption
<1>r. /\ consumed \in Nat /\ Written \in Nat /\ nextFrame \in Nat /\ consumed <= Written
      /\ offered \subseteq Nat /\ MaxFrames \in Nat /\ Written = published
  BY <1>1, <1>i, RingNumbers
<1>2. /\ WorkerTyped' /\ ResamplerStands' /\ SamplesAreOrdered' /\ NoAudioAcrossABreak'
      /\ LimitHolds' /\ StepsAreEven' /\ TapFollows'
  BY <1>1, <1>i, WorkerKept DEF WorkerTyped
<1>w. /\ Written' = Written /\ UNCHANGED <<slots, published, consumed, resampler>>
      /\ cb'.at \in {"idle", "check"} /\ (count = 0 => cb'.at = "idle")
      /\ (count # 0 => cb'.at = "check")
  BY <1>1 DEF Written, ring, worker
<1>3. /\ BlocksFollow' /\ F' = F
      /\ \A i \in consumed .. Written : FrameBefore(i)' = FrameBefore(i)
  BY <1>1, <1>i, <1>w, BlocksKept
<1>4. ThreadKnows'
  BY <1>1, <1>i, ThreadKept DEF ring
<1>m. marks \subseteq Marks /\ pending \subseteq Marks
  BY <1>i DEF Marks, StreamTyped
<1>5. StreamTyped'
  <2>1. cb' \in CallbackStates
    BY <1>1, <1>i, <1>n, <1>r, <1>m DEF StreamTyped, CallbackStates
  <2>2. offered' \subseteq 0 .. nextFrame' - 1
    BY <1>1, <1>i, <1>n, <1>r DEF StreamTyped
  <2>3. nextFrame' \in 0 .. MaxFrames /\ expected' \in {Unknown} \cup 0 .. nextFrame'
    BY <1>1, <1>n, <1>r
  <2>4. pending' \subseteq Marks
    BY <1>1, <1>m
  <2> QED
    BY <1>1, <1>i, <1>w, <2>1, <2>2, <2>3, <2>4 DEF StreamTyped, ring
<1>6. CountersAgree'
  <2>1. CASE count = 0
    BY <1>1, <1>i, <1>r, <2>1 DEF CountersAgree
  <2>2. CASE count # 0
    <3>1. /\ cb'.at = "check" /\ cb'.count = count /\ cb'.done = 0
      BY <1>1, <2>2
    <3>2. received = enqueued + dropped
      BY <1>1, <1>i DEF CountersAgree
    <3> QED
      BY <1>1, <1>i, <1>n, <1>r, <3>1, <3>2 DEF CountersAgree
  <2> QED
    BY <2>1, <2>2
<1>7. /\ F \in Nat \cup {Unknown} /\ (F # Unknown => F \in offered)
      /\ (F = Unknown => Written = consumed /\ resampler.previous = Unknown)
  BY <1>i, <1>r, FramesBefore
<1>8. /\ F < nextFrame /\ (marks = {} /\ F # Unknown => nextFrame = F + 1)
  <2>1. F < nextFrame /\ (pending = {} /\ F # Unknown => expected = F + 1)
    BY <1>1, <1>i DEF CallbackFollows
  <2>2. marks = {} => pending = {} /\ expected \in {Unknown, nextFrame}
    OBVIOUS
  <2> QED
    BY <1>7, <2>1, <2>2 DEF Unknown
<1> HIDE DEF gap, marks, F
<1>9. CallbackFollows'
  <2>1. CASE count = 0
    <3>1. cb'.at = "idle" /\ cb'.marks = {}
      BY <1>1, <1>i, <2>1 DEF CallbackFollows
    <3>2. F < nextFrame' /\ (pending' = {} /\ F # Unknown => expected' = F + 1)
      BY <1>1, <1>8, <1>r, <2>1
    <3> QED
      BY <1>3, <3>1, <3>2 DEF CallbackFollows, F
  <2>2. CASE count # 0
    <3>1. /\ cb'.at = "check" /\ cb'.first = nextFrame /\ cb'.count = count /\ cb'.done = 0
          /\ cb'.marks = marks /\ pending' = {}
      BY <1>1, <2>2
    <3>2. Follows(nextFrame, F, marks)
      BY <1>8 DEF Follows
    <3>3. cb'.first + cb'.done = nextFrame
      BY <1>r, <3>1
    <3>4. \A f \in cb'.first .. nextFrame' - 1 : f \in offered'
      BY <1>1, <1>n, <1>r, <3>1
    <3>5. cb'.done < cb'.count
      BY <1>n, <2>2, <3>1
    <3>6. Follows((cb.first + cb.done)', F', cb'.marks)
      BY <1>3, <3>1, <3>2, <3>3
    <3> QED
      BY <1>1, <1>n, <3>1, <3>4, <3>5, <3>6 DEF CallbackFollows, F
  <2> QED
    BY <2>1, <2>2
<1>10. OfferedIsOneRun'
  <2>1. CASE count = 0
    <3>1. new = {} /\ offered' = offered /\ cb' = cb
      BY <1>1, <1>r, <2>1
    <3> QED
      BY <1>1, <1>i, <1>w, <1>3, <3>1
      DEF OfferedIsOneRun, Unmarked, FirstFrame, LastFrame, Origin, worker, Block, F
  <2>2. CASE count # 0
    <3>1. /\ cb'.at = "check" /\ cb'.first = nextFrame /\ cb'.done = 0 /\ cb'.marks = marks
      BY <1>1, <2>2
    <3>2. offered' # {}
      <4>1. nextFrame \in new
        BY <1>r, <1>n, <2>2
      <4> QED
        BY <1>1, <4>1
    <3>3. ASSUME Unmarked' PROVE offered' = FirstFrame' .. LastFrame'
      <4>1. marks = {} /\ Unmarked
        BY <1>1, <1>w, <3>1, <3>3 DEF Unmarked, Block, worker
      <4>2. LastFrame' = nextFrame + count - 1
        BY <1>1, <1>w, <2>2, <1>r, <1>n DEF LastFrame
      <4>3. CASE offered = {}
        <5>1. F = Unknown
          BY <1>i, <4>3 DEF OfferedIsOneRun, F
        <5>2. FirstFrame' = nextFrame
          BY <1>7, <1>w, <3>1, <5>1, <1>r DEF FirstFrame
        <5> QED
          BY <1>1, <1>n, <1>r, <4>2, <4>3, <5>2
      <4>4. CASE offered # {}
        <5>1. /\ offered = FirstFrame .. F /\ F # Unknown
          BY <1>1, <1>i, <4>1, <4>4 DEF OfferedIsOneRun, LastFrame, F
        <5>2. F \in Nat /\ nextFrame = F + 1
          BY <1>7, <1>8, <4>1, <5>1
        <5>3. resampler.previous # Unknown \/ consumed < Written
          <6>1. consumed = Written => F = resampler.previous
            BY DEF F, FrameBefore
          <6> QED
            BY <1>r, <5>1, <6>1
        <5>4. FirstFrame' = FirstFrame
          BY <1>w, <5>3 DEF FirstFrame, Origin, Block
        <5>5. FirstFrame \in Int /\ FirstFrame <= F
          <6>1. FirstFrame \in offered
            <7>1. PICK f \in offered : TRUE
              BY <4>4
            <7>2. resampler.previous # Unknown => FirstFrame = Origin
              BY DEF FirstFrame
            <7>3. resampler.previous = Unknown => FirstFrame = Block(consumed).frames[1]
              BY <5>3 DEF FirstFrame
            <7>4. FirstFrame \in Int
              <8>1. CASE resampler.previous # Unknown
                BY <1>i, <8>1, <7>2 DEF ResamplerStands, Stands, Origin
              <8>2. CASE resampler.previous = Unknown
                <9>1. IsRun(Block(consumed).frames)
                  BY <1>i, <1>r, <5>3, <8>2 DEF BlocksFollow
                <9>2. Block(consumed).frames[1] \in Nat
                  BY <9>1, EmptySeq, LenProperties, ElementOfSeq DEF IsRun
                <9> QED
                  BY <7>3, <8>2, <9>2
              <8> QED
                BY <8>1, <8>2
            <7> HIDE DEF FirstFrame
            <7>5. FirstFrame <= f /\ f <= F
              BY <5>1, <5>2, <7>1, <7>4
            <7> QED
              BY <5>1, <5>2, <7>1, <7>4, <7>5
          <6> QED
            BY <1>r, <5>1, <5>2, <6>1
        <5> HIDE DEF FirstFrame
        <5>6. offered' = FirstFrame .. nextFrame + count - 1
          BY <1>1, <1>n, <1>r, <5>1, <5>2, <5>5
        <5> QED
          BY <4>2, <5>4, <5>6
      <4> QED
        BY <4>3, <4>4
    <3> QED
      BY <3>1, <3>2, <3>3 DEF OfferedIsOneRun
  <2> QED
    BY <2>1, <2>2
<1> QED
  BY <1>2, <1>3, <1>4, <1>5, <1>6, <1>9, <1>10 DEF AudioInv

LEMMA DeliverMalformedKeepsInv ==
  ASSUME AudioInv, DeliverMalformed(1)
  PROVE  AudioInv'
<1> DEFINE F == FrameBefore(Written)
<1>1. /\ cb.at = "idle" /\ nextFrame + 1 <= MaxFrames /\ nextFrame' = nextFrame + 1
      /\ UNCHANGED <<plan, device, faulted, expected, pending, cb, ring, counters,
                     worker, pc, stop, late, outcome, offered>>
  BY DEF DeliverMalformed
<1>i. /\ StreamTyped /\ WorkerTyped /\ CountersAgree /\ BlocksFollow /\ CallbackFollows
      /\ ResamplerStands /\ OfferedIsOneRun /\ ThreadKnows
  BY DEF AudioInv
<1>r. nextFrame \in Nat /\ MaxFrames \in Nat /\ offered \subseteq Nat /\ consumed \in Nat
      /\ Written \in Nat /\ consumed <= Written
  BY <1>i, RingNumbers
<1>2. /\ WorkerTyped' /\ ResamplerStands' /\ SamplesAreOrdered' /\ NoAudioAcrossABreak'
      /\ LimitHolds' /\ StepsAreEven' /\ TapFollows'
  BY <1>1, <1>i, WorkerKept DEF WorkerTyped
<1>w. Written' = Written /\ UNCHANGED <<slots, published, consumed, resampler>>
  BY <1>1 DEF Written, ring, worker
<1>3. BlocksFollow' /\ F' = F
  BY <1>1, <1>i, <1>w, BlocksKept
<1>4. ThreadKnows'
  BY <1>1, <1>i, ThreadKept DEF ring, counters
<1>5. StreamTyped'
  BY <1>1, <1>i, <1>w, <1>r DEF StreamTyped
<1>6. CountersAgree'
  BY <1>1, <1>i, <1>r DEF CountersAgree, counters
<1>f. F \in Nat \cup {Unknown}
  BY <1>i, <1>r, FramesBefore
<1>7. CallbackFollows'
  <2>1. /\ cb.marks = {} /\ F < nextFrame
        /\ pending = {} /\ F # Unknown => expected = F + 1
    BY <1>1, <1>i DEF CallbackFollows
  <2> HIDE DEF F
  <2>2. F < nextFrame'
    BY <1>1, <1>f, <1>r, <2>1 DEF Unknown
  <2> QED
    BY <1>1, <1>3, <2>1, <2>2 DEF CallbackFollows, F
<1>8. OfferedIsOneRun'
  BY <1>1, <1>i, <1>w, <1>3
  DEF OfferedIsOneRun, Unmarked, FirstFrame, LastFrame, Origin, worker, counters, Block
<1> QED
  BY <1>2, <1>3, <1>4, <1>5, <1>6, <1>7, <1>8 DEF AudioInv

LEMMA DropRestKeepsInv ==
  ASSUME AudioInv, DropRest
  PROVE  AudioInv'
<1> DEFINE F == FrameBefore(Written)
<1>1. /\ cb.at = "check" /\ dropped' = dropped + (cb.count - cb.done)
      /\ overflows' = overflows + 1 /\ pending' = MarksAfterOverflow /\ cb' = Idle
      /\ UNCHANGED <<plan, device, faulted, nextFrame, expected, ring, received,
                     enqueued, worker, pc, stop, late, outcome, offered>>
  BY DEF DropRest
<1>i. /\ StreamTyped /\ WorkerTyped /\ CountersAgree /\ BlocksFollow /\ CallbackFollows
      /\ ResamplerStands /\ OfferedIsOneRun /\ ThreadKnows
  BY DEF AudioInv
<1>r. /\ nextFrame \in Nat /\ offered \subseteq Nat /\ consumed \in Nat
      /\ Written \in Nat /\ consumed <= Written /\ Written = published
      /\ cb.first \in Nat /\ cb.count \in Nat /\ cb.done \in Nat /\ cb.marks \subseteq Marks
      /\ pending \subseteq Marks
  BY <1>1, <1>i, RingNumbers DEF StreamTyped
<1>2. /\ WorkerTyped' /\ ResamplerStands' /\ SamplesAreOrdered' /\ NoAudioAcrossABreak'
      /\ LimitHolds' /\ StepsAreEven' /\ TapFollows'
  BY <1>1, <1>i, WorkerKept DEF WorkerTyped
<1>w. Written' = Written /\ UNCHANGED <<slots, published, consumed, resampler>>
  BY <1>1 DEF Written, ring, worker, Idle
<1>3. BlocksFollow' /\ F' = F
  BY <1>1, <1>i, <1>w, BlocksKept
<1>c. /\ device = "open" /\ nextFrame = cb.first + cb.count /\ cb.done < cb.count
      /\ Follows(cb.first + cb.done, F, cb.marks)
      /\ \A f \in cb.first .. nextFrame - 1 : f \in offered
  BY <1>1, <1>i DEF CallbackFollows
<1>4. ThreadKnows'
  BY <1>1, <1>c, <1>i DEF ThreadKnows, Captured, Block, ring, worker
<1>5. StreamTyped'
  <2>1. pending' \subseteq Marks /\ cb' \in CallbackStates
    BY <1>1, <1>r DEF MarksAfterOverflow, CallbackStates, Idle, Marks
  <2> QED
    BY <1>1, <1>i, <1>w, <2>1 DEF StreamTyped
<1>6. CountersAgree'
  BY <1>1, <1>c, <1>i, <1>r DEF CountersAgree, Idle
<1>7. CallbackFollows'
  <2>1. cb'.at = "idle" /\ cb'.marks = {} /\ pending' # {}
    BY <1>1 DEF Idle, MarksAfterOverflow
  <2>2. F \in Nat \cup {Unknown}
    BY <1>i, <1>r, FramesBefore
  <2>3. F < cb.first + cb.done
    BY <1>c DEF Follows
  <2> HIDE DEF F
  <2>4. F < nextFrame
    BY <1>c, <1>r, <2>2, <2>3 DEF Unknown
  <2> QED
    BY <1>1, <1>3, <2>1, <2>4 DEF CallbackFollows, F
<1>8. OfferedIsOneRun'
  <2>1. offered' # {}
    <3>1. cb.first \in cb.first .. nextFrame - 1
      BY <1>c, <1>r
    <3> QED
      BY <1>1, <1>c, <3>1
  <2>2. overflows' # 0
    BY <1>1, <1>i DEF CountersAgree
  <2> QED
    BY <2>1, <2>2 DEF OfferedIsOneRun, Unmarked
<1> QED
  BY <1>2, <1>3, <1>4, <1>5, <1>6, <1>7, <1>8 DEF AudioInv

LEMMA ErrorCallbackKeepsInv ==
  ASSUME AudioInv, ErrorCallback
  PROVE  AudioInv'
<1>1. /\ faulted' = TRUE
      /\ UNCHANGED <<plan, device, nextFrame, expected, pending, cb, ring, counters,
                     worker, pc, stop, late, outcome, offered>>
  BY DEF ErrorCallback
<1>i. /\ StreamTyped /\ WorkerTyped /\ CountersAgree /\ BlocksFollow /\ CallbackFollows
      /\ ResamplerStands /\ OfferedIsOneRun /\ ThreadKnows
  BY DEF AudioInv
<1>2. /\ WorkerTyped' /\ ResamplerStands' /\ SamplesAreOrdered' /\ NoAudioAcrossABreak'
      /\ LimitHolds' /\ StepsAreEven' /\ TapFollows'
  BY <1>1, <1>i, WorkerKept DEF WorkerTyped
<1>w. Written' = Written /\ UNCHANGED <<slots, published, consumed, resampler>>
  BY <1>1 DEF Written, ring, worker
<1>3. BlocksFollow' /\ FrameBefore(Written)' = FrameBefore(Written)
  BY <1>1, <1>i, <1>w, BlocksKept
<1>4. ThreadKnows'
  BY <1>1, <1>i, ThreadKept DEF ring, counters
<1>5. StreamTyped'
  BY <1>1, <1>i, <1>w DEF StreamTyped
<1>6. CountersAgree'
  BY <1>1, <1>i DEF CountersAgree, counters
<1>7. CallbackFollows'
  BY <1>1, <1>3, <1>i DEF CallbackFollows
<1>8. OfferedIsOneRun'
  BY <1>1, <1>i, <1>w, <1>3
  DEF OfferedIsOneRun, Unmarked, FirstFrame, LastFrame, Origin, worker, counters, Block
<1> QED
  BY <1>2, <1>3, <1>4, <1>5, <1>6, <1>7, <1>8 DEF AudioInv

(* Filling a slot leaves the blocks of the ring where they are: a slot is     *)
(* only filled when the block in it was taken.                                *)
LEMMA FilledSlot ==
  ASSUME StreamTyped, FillSlot
  PROVE  /\ cb.at = "check" /\ Written = published /\ Written' = published + 1
         /\ published < consumed + Slots
         /\ \A i \in consumed .. published - 1 : Block(i)' = Block(i)
         /\ Block(published)' =
                [frames |-> [k \in 1 .. Least({cb.count - cb.done, BlockFrames}) |->
                                 cb.first + cb.done + k - 1],
                 marks  |-> cb.marks]
<1> DEFINE new == [frames |-> [k \in 1 .. Least({cb.count - cb.done, BlockFrames}) |->
                                 cb.first + cb.done + k - 1],
                   marks  |-> cb.marks]
<1>1. /\ cb.at = "check" /\ ~RingFull /\ slots' = [slots EXCEPT ![published % Slots] = new]
      /\ cb'.at = "publish" /\ published' = published /\ consumed' = consumed
  <2>1. cb \in CallbackStates
    BY DEF StreamTyped
  <2> QED
    BY <2>1 DEF FillSlot, CallbackStates
<1>2. /\ published \in Nat /\ consumed \in Nat /\ Slots \in Nat \ {0}
      /\ slots \in [0 .. Slots - 1 -> Blocks] /\ Written = published
  BY <1>1, RingNumbers DEF StreamTyped
<1> HIDE DEF new
<1>3. published < consumed + Slots
  BY <1>1, <1>2 DEF RingFull
<1>4. published % Slots \in 0 .. Slots - 1
  BY <1>2
<1>5. ASSUME NEW i \in consumed .. published - 1 PROVE Block(i)' = Block(i)
  <2>1. i % Slots # published % Slots
    <3>1. i \in Nat /\ i < published /\ published < i + Slots
      BY <1>2, <1>3
    <3> QED
      BY <1>2, <3>1, SlotsDiffer
  <2>2. slots'[i % Slots] = slots[i % Slots]
    <3>1. i % Slots \in 0 .. Slots - 1
      BY <1>2
    <3> QED
      BY <1>1, <1>2, <2>1, <3>1
  <2> QED
    BY <2>2 DEF Block
<1>6. Block(published)' = new
  BY <1>1, <1>2, <1>4 DEF Block
<1> QED
  BY <1>1, <1>2, <1>3, <1>5, <1>6 DEF Written, new

LEMMA FillSlotKeepsInv ==
  ASSUME AudioInv, FillSlot
  PROVE  AudioInv'
<1> DEFINE F == FrameBefore(Written)
           n == Least({cb.count - cb.done, BlockFrames})
           first == cb.first + cb.done
           new == [k \in 1 .. n |-> cb.first + cb.done + k - 1]
<1>i. /\ StreamTyped /\ WorkerTyped /\ CountersAgree /\ BlocksFollow /\ CallbackFollows
      /\ ResamplerStands /\ OfferedIsOneRun /\ ThreadKnows
  BY DEF AudioInv
<1>1. /\ cb.at = "check" /\ enqueued' = enqueued + n
      /\ slots' = [slots EXCEPT ![published % Slots] = [frames |-> new, marks |-> cb.marks]]
      /\ cb' = [cb EXCEPT !.at = "publish", !.done = @ + n]
      /\ UNCHANGED <<plan, device, faulted, nextFrame, expected, pending, published,
                      consumed, received, dropped, overflows, worker, pc, stop, late,
                      outcome, offered>>
  BY DEF FillSlot
<1>2. /\ Written = published /\ Written' = published + 1 /\ published < consumed + Slots
      /\ \A i \in consumed .. published - 1 : Block(i)' = Block(i)
      /\ Block(published)' = [frames |-> new, marks |-> cb.marks]
  BY <1>i, FilledSlot
<1>r. /\ Slots \in Nat \ {0} /\ BlockFrames \in Nat \ {0}
      /\ nextFrame \in Nat /\ offered \subseteq Nat /\ consumed \in Nat
      /\ published \in Nat /\ consumed <= published
      /\ cb.first \in Nat /\ cb.count \in Nat /\ cb.done \in Nat /\ cb.marks \subseteq Marks
      /\ cb \in CallbackStates
  BY <1>2, <1>i, RingNumbers DEF StreamTyped
<1>c. /\ device = "open" /\ pending = {} /\ expected = nextFrame
      /\ nextFrame = cb.first + cb.count /\ cb.done < cb.count
      /\ Follows(first, F, cb.marks)
      /\ \A f \in cb.first .. nextFrame - 1 : f \in offered
  BY <1>1, <1>i DEF CallbackFollows
<1>n. n \in Nat \ {0} /\ n <= cb.count - cb.done /\ n <= BlockFrames
  <2>1. cb.count - cb.done \in Nat \ {0}
    BY <1>c, <1>r
  <2>2. n \in {cb.count - cb.done, BlockFrames}
        /\ n <= cb.count - cb.done /\ n <= BlockFrames
    BY <2>1, <1>r, LeastOfTwo
  <2> QED
    BY <2>1, <2>2, <1>r
<1>b. /\ cb'.at = "publish" /\ cb'.first = cb.first /\ cb'.count = cb.count
      /\ cb'.marks = cb.marks /\ cb'.done = cb.done + n
  BY <1>1, <1>r DEF CallbackStates
<1> HIDE DEF n
<1>3. /\ IsRun(new) /\ Len(new) = n /\ new[1] = first /\ new[n] = first + n - 1
      /\ \A k \in 1 .. n : new[k] \in offered
      /\ new \in Seq(Nat)
  <2>1. \A k \in 1 .. n : new[k] = first + k - 1 /\ new[k] \in cb.first .. nextFrame - 1
    BY <1>c, <1>n, <1>r
  <2>2. new \in Seq(Nat) /\ Len(new) = n
    <3>1. \A k \in 1 .. n : cb.first + cb.done + k - 1 \in Nat
      BY <1>r
    <3> QED
      BY <1>n, <3>1
  <2> HIDE DEF new
  <2>3. new # <<>>
    BY <1>n, <2>2
  <2>4. new[1] = first
    BY <1>n, <1>r, <2>1
  <2> QED
    BY <1>c, <1>n, <2>1, <2>2, <2>3, <2>4 DEF IsRun
<1> HIDE DEF new
<1>4. /\ WorkerTyped' /\ ResamplerStands' /\ SamplesAreOrdered' /\ NoAudioAcrossABreak'
      /\ LimitHolds' /\ StepsAreEven' /\ TapFollows'
  BY <1>1, <1>i, WorkerKept DEF WorkerTyped
<1>5. /\ \A i \in consumed .. published : FrameBefore(i)' = FrameBefore(i)
      /\ F = FrameBefore(published)
      /\ (FrameBefore(Written))' = first + n - 1
  <2>1. ASSUME NEW i \in consumed .. published PROVE FrameBefore(i)' = FrameBefore(i)
    <3>1. CASE i = consumed
      BY <1>1, <3>1 DEF FrameBefore, worker
    <3>2. CASE i # consumed
      <4>1. i - 1 \in consumed .. published - 1
        BY <1>r, <3>2
      <4>2. Block(i - 1)' = Block(i - 1)
        BY <1>2, <4>1
      <4> QED
        BY <1>1, <3>2, <4>2 DEF FrameBefore, Final
    <3> QED
      BY <3>1, <3>2
  <2>2. (FrameBefore(Written))' = first + n - 1
    <3>1. Written' # consumed' /\ Written' - 1 = published
      BY <1>1, <1>2, <1>r
    <3>2. (FrameBefore(Written))' = Final(Block(published)')
      BY <3>1, <1>1 DEF FrameBefore, Block, Final
    <3> QED
      BY <1>2, <1>3, <3>2 DEF Final, Last
  <2> QED
    BY <1>2, <2>1, <2>2
<1>6. BlocksFollow'
  <2> SUFFICES ASSUME NEW i \in consumed .. published
               PROVE  /\ IsRun(Block(i).frames)' /\ (Len(Block(i).frames) <= BlockFrames)'
                      /\ (\A k \in 1 .. Len(Block(i).frames) : Block(i).frames[k] \in offered)'
                      /\ Follows(Block(i).frames[1], FrameBefore(i), Block(i).marks)'
    BY <1>1, <1>2, <1>r DEF BlocksFollow
  <2>1. CASE i < published
    <3>1. i \in consumed .. published - 1
      BY <1>r, <2>1
    <3>2. Block(i)' = Block(i) /\ FrameBefore(i)' = FrameBefore(i)
      BY <1>2, <1>5, <3>1
    <3>3. /\ IsRun(Block(i).frames) /\ Len(Block(i).frames) <= BlockFrames
          /\ \A k \in 1 .. Len(Block(i).frames) : Block(i).frames[k] \in offered
          /\ Follows(Block(i).frames[1], FrameBefore(i), Block(i).marks)
      BY <1>i, <1>2, <3>1 DEF BlocksFollow
    <3> QED
      BY <1>1, <3>2, <3>3
  <2>2. CASE i = published
    <3>1. /\ Block(i)'.frames = new /\ Block(i)'.marks = cb.marks /\ FrameBefore(i)' = F
      BY <1>1, <1>2, <1>5, <2>2 DEF Block
    <3>2. IsRun(new) /\ Len(new) <= BlockFrames /\ \A k \in 1 .. Len(new) : new[k] \in offered
      BY <1>3, <1>n
    <3>3. Follows(new[1], F, cb.marks)
      BY <1>3, <1>c
    <3> QED
      BY <1>1, <3>1, <3>2, <3>3
  <2> QED
    BY <1>r, <2>1, <2>2
<1>7. StreamTyped'
  <2>1. cb' \in CallbackStates
    <3>1. cb.done + n \in Nat
      BY <1>n, <1>r
    <3> QED
      BY <1>1, <1>r, <3>1 DEF CallbackStates
  <2>2. [frames |-> new, marks |-> cb.marks] \in Blocks
    BY <1>3, <1>r DEF Blocks
  <2>3. slots' \in [0 .. Slots - 1 -> Blocks]
    BY <1>1, <1>i, <2>2 DEF StreamTyped
  <2>4. Written' <= consumed' + Slots
    BY <1>1, <1>2, <1>r
  <2> QED
    BY <1>1, <1>i, <2>1, <2>3, <2>4 DEF StreamTyped
<1>8. CountersAgree'
  BY <1>1, <1>b, <1>i, <1>n, <1>r DEF CountersAgree
<1>9. CallbackFollows'
  <2>1. cb'.done <= cb'.count /\ cb'.done > 0
    BY <1>b, <1>n, <1>r
  <2>2. (FrameBefore(Written))' = cb'.first + cb'.done - 1
    BY <1>5, <1>b, <1>n, <1>r
  <2>3. /\ device' = "open" /\ pending' = {} /\ expected' = nextFrame'
        /\ nextFrame' = cb'.first + cb'.count
        /\ \A f \in cb'.first .. nextFrame' - 1 : f \in offered'
    BY <1>1, <1>b, <1>c
  <2> QED
    BY <1>b, <2>1, <2>2, <2>3 DEF CallbackFollows
<1>10. OfferedIsOneRun'
  <2>1. offered # {}
    <3>1. cb.first \in cb.first .. nextFrame - 1
      BY <1>c, <1>r
    <3> QED
      BY <1>c, <3>1
  <2>2. (FrameBefore(Written))' # Unknown
    BY <1>5, <1>n, <1>r DEF Unknown
  <2>3. ASSUME Unmarked' PROVE offered' = FirstFrame' .. LastFrame'
    <3>1. Unmarked
      <4>1. ASSUME NEW i \in consumed .. published - 1 PROVE Block(i).marks = {}
        BY <1>1, <1>2, <1>r, <2>3 DEF Unmarked
      <4>2. cb.marks = {}
        <5>1. Block(published)'.marks = {}
          BY <1>1, <1>2, <1>r, <2>3 DEF Unmarked
        <5> QED
          BY <1>2, <5>1
      <4> QED
        BY <1>1, <1>2, <2>3, <4>1, <4>2 DEF Unmarked, worker
    <3>2. offered = FirstFrame .. nextFrame - 1 /\ (F = Unknown => cb.done = 0)
      BY <1>1, <1>i, <2>1, <3>1 DEF OfferedIsOneRun, LastFrame
    <3>3. LastFrame' = nextFrame - 1
      BY <1>1, <1>b DEF LastFrame
    <3>4. FirstFrame' = FirstFrame
      <4>1. CASE resampler.previous # Unknown
        BY <1>1, <4>1 DEF FirstFrame, Origin, worker
      <4>2. CASE resampler.previous = Unknown /\ consumed < published
        <5>1. Block(consumed)' = Block(consumed)
          BY <1>1, <1>2, <1>r, <4>2 DEF Block
        <5>2. Block(consumed') = Block(consumed)
          BY <1>1
        <5>3. consumed < Written /\ consumed' < Written'
          BY <1>1, <1>2, <1>r, <4>2
        <5> QED
          BY <1>1, <4>2, <5>1, <5>3 DEF FirstFrame, worker, Block
      <4>3. CASE resampler.previous = Unknown /\ consumed = published
        <5>1. F = Unknown
          BY <1>2, <4>3 DEF FrameBefore
        <5>2. cb.done = 0 /\ first = cb.first
          BY <1>r, <3>2, <5>1
        <5>3. FirstFrame = cb.first
          BY <1>2, <1>r, <4>3 DEF FirstFrame
        <5>4. FirstFrame' = Block(published)'.frames[1]
          <6>1. consumed' < Written' /\ consumed' = published /\ resampler' = resampler
            BY <1>1, <1>2, <1>r, <4>3 DEF worker
          <6> QED
            BY <1>1, <4>3, <6>1 DEF FirstFrame, Block
        <5> QED
          BY <1>2, <1>3, <5>2, <5>3, <5>4
      <4> QED
        BY <1>r, <4>1, <4>2, <4>3
    <3> QED
      BY <1>1, <3>2, <3>3, <3>4
  <2> QED
    BY <1>1, <2>1, <2>2, <2>3 DEF OfferedIsOneRun
<1>11. ThreadKnows'
  <2>1. pc = "process" => consumed < published /\ block = Block(consumed)
    BY <1>i DEF ThreadKnows
  <2>2. consumed < published => Block(consumed)' = Block(consumed)
    BY <1>1, <1>2, <1>r DEF Block
  <2>3. (pc = "process" => consumed < published /\ block = Block(consumed))'
    BY <1>1, <2>1, <2>2 DEF worker, Block
  <2> QED
    BY <1>1, <1>i, <2>3 DEF ThreadKnows, worker, Captured
<1> QED
  BY <1>4, <1>6, <1>7, <1>8, <1>9, <1>10, <1>11 DEF AudioInv

LEMMA PublishSlotKeepsInv ==
  ASSUME AudioInv, PublishSlot
  PROVE  AudioInv'
<1> DEFINE F == FrameBefore(Written)
<1>i. /\ StreamTyped /\ WorkerTyped /\ CountersAgree /\ BlocksFollow /\ CallbackFollows
      /\ ResamplerStands /\ OfferedIsOneRun /\ ThreadKnows
  BY DEF AudioInv
<1>1. /\ cb.at = "publish" /\ published' = published + 1
      /\ cb' = IF cb.done = cb.count THEN Idle ELSE [cb EXCEPT !.at = "check", !.marks = {}]
      /\ UNCHANGED <<plan, device, faulted, nextFrame, expected, pending, slots, consumed,
                     counters, worker, pc, stop, late, outcome, offered>>
  BY DEF PublishSlot
<1>r. /\ nextFrame \in Nat /\ offered \subseteq Nat /\ consumed \in Nat
      /\ published \in Nat /\ consumed <= published /\ Written = published + 1
      /\ cb.first \in Nat /\ cb.count \in Nat /\ cb.done \in Nat /\ cb.marks \subseteq Marks
      /\ cb \in CallbackStates
  BY <1>1, <1>i, RingNumbers DEF StreamTyped
<1>c. /\ device = "open" /\ pending = {} /\ expected = nextFrame
      /\ nextFrame = cb.first + cb.count /\ cb.done <= cb.count /\ cb.done > 0
      /\ \A f \in cb.first .. nextFrame - 1 : f \in offered
      /\ F = cb.first + cb.done - 1
  BY <1>1, <1>i DEF CallbackFollows
<1>b. /\ cb' \in CallbackStates /\ cb'.marks = {} /\ cb'.at \in {"idle", "check"}
      /\ cb.done = cb.count => cb'.at = "idle"
      /\ cb.done # cb.count => /\ cb'.at = "check" /\ cb'.first = cb.first
                               /\ cb'.count = cb.count /\ cb'.done = cb.done
  <2>1. CASE cb.done = cb.count
    BY <1>1, <2>1 DEF Idle, CallbackStates
  <2>2. CASE cb.done # cb.count
    BY <1>1, <1>r, <2>2 DEF CallbackStates
  <2> QED
    BY <2>1, <2>2
<1>2. /\ WorkerTyped' /\ ResamplerStands' /\ SamplesAreOrdered' /\ NoAudioAcrossABreak'
      /\ LimitHolds' /\ StepsAreEven' /\ TapFollows'
  BY <1>1, <1>i, WorkerKept DEF WorkerTyped
<1>w. Written' = Written /\ UNCHANGED <<slots, consumed, resampler>>
  BY <1>1, <1>b, <1>r DEF Written, worker
<1>3. BlocksFollow' /\ F' = F
  BY <1>1, <1>i, <1>w, BlocksKept
<1>4. ThreadKnows'
  BY <1>1, <1>c, <1>i, <1>r DEF ThreadKnows, Captured, Block, worker
<1>5. StreamTyped'
  <2>1. consumed' <= published' /\ published' \in Nat
    BY <1>1, <1>r
  <2> QED
    BY <1>1, <1>b, <1>i, <1>w, <2>1 DEF StreamTyped
<1>6. CountersAgree'
  <2>1. cb.done # cb.count => cb'.count - cb'.done = cb.count - cb.done
    BY <1>b
  <2> QED
    BY <1>1, <1>b, <1>c, <1>i, <1>r, <2>1 DEF CountersAgree, counters
<1>7. CallbackFollows'
  <2> HIDE DEF F
  <2>1. CASE cb.done = cb.count
    <3>1. cb'.at = "idle"
      BY <1>b, <2>1
    <3>2. F = nextFrame - 1
      BY <1>c, <1>r, <2>1
    <3>3. F' < nextFrame' /\ expected' = F' + 1
      BY <1>1, <1>3, <1>c, <1>r, <3>2
    <3> QED
      BY <1>b, <3>1, <3>3 DEF CallbackFollows, F
  <2>2. CASE cb.done # cb.count
    <3>1. cb.first + cb.done = F + 1 /\ F \in Nat /\ cb.done < cb.count
      BY <1>c, <1>r, <2>2
    <3>2. Follows(cb.first + cb.done, F, {})
      BY <3>1 DEF Follows
    <3>3. Follows((cb.first + cb.done)', F', cb'.marks)
          /\ cb'.done < cb'.count /\ cb'.done <= cb'.count
      BY <1>3, <1>b, <1>r, <2>2, <3>1, <3>2
    <3>4. /\ device' = "open" /\ pending' = {} /\ expected' = nextFrame'
          /\ nextFrame' = cb'.first + cb'.count
          /\ \A f \in cb'.first .. nextFrame' - 1 : f \in offered'
      BY <1>1, <1>b, <1>c, <2>2
    <3> QED
      BY <1>b, <2>2, <3>3, <3>4 DEF CallbackFollows, F
  <2> QED
    BY <2>1, <2>2
<1>8. OfferedIsOneRun'
  <2>1. F # Unknown
    BY <1>c, <1>r DEF Unknown
  <2>2. offered # {}
    <3>1. cb.first \in cb.first .. nextFrame - 1
      BY <1>c, <1>r
    <3> QED
      BY <1>c, <3>1
  <2>3. ASSUME Unmarked' PROVE offered' = FirstFrame' .. LastFrame'
    <3>1. Unmarked
      BY <1>1, <1>w, <2>3 DEF Unmarked, worker, counters, Block
    <3>2. offered = FirstFrame .. nextFrame - 1
      BY <1>1, <1>i, <2>2, <3>1 DEF OfferedIsOneRun, LastFrame
    <3>3. LastFrame' = nextFrame - 1
      <4>1. cb.done = cb.count => F = nextFrame - 1
        BY <1>c, <1>r
      <4> QED
        BY <1>1, <1>3, <1>b, <4>1 DEF LastFrame
    <3>4. FirstFrame' = FirstFrame
      <4>1. consumed < Written
        BY <1>r
      <4> QED
        BY <1>1, <1>w, <4>1 DEF FirstFrame, Origin, Block
    <3> QED
      BY <1>1, <3>2, <3>3, <3>4
  <2> QED
    BY <1>1, <1>3, <2>1, <2>2, <2>3 DEF OfferedIsOneRun
<1> QED
  BY <1>2, <1>3, <1>4, <1>5, <1>6, <1>7, <1>8 DEF AudioInv

-----------------------------------------------------------------------------
(* The steps of the capture thread *)

(* The parts that a step of the thread leaves alone when it takes no block.   *)
LEMMA DeviceKept ==
  ASSUME AudioInv,
         UNCHANGED <<plan, faulted, nextFrame, expected, pending, cb, ring, counters, offered,
                     resampler, overflows>>,
         device' \in {"closed", "open"}, device = "open" /\ cb.at # "idle" => device' = "open",
         issues \subseteq issues', "discontinuity" \in issues' => "discontinuity" \in issues
  PROVE  /\ StreamTyped' /\ CountersAgree' /\ BlocksFollow' /\ CallbackFollows'
         /\ ResamplerStands' /\ OfferedIsOneRun'
<1>i. /\ StreamTyped /\ CountersAgree /\ BlocksFollow /\ CallbackFollows
      /\ ResamplerStands /\ OfferedIsOneRun
  BY DEF AudioInv
<1>w. Written' = Written /\ UNCHANGED <<slots, published, consumed>>
  BY DEF Written, ring
<1>1. BlocksFollow' /\ FrameBefore(Written)' = FrameBefore(Written)
  BY <1>i, <1>w, BlocksKept
<1>2. StreamTyped'
  BY <1>i, <1>w DEF StreamTyped
<1>3. CountersAgree'
  BY <1>i DEF CountersAgree, counters
<1>4. CallbackFollows'
  BY <1>1, <1>i DEF CallbackFollows
<1>5. ResamplerStands'
  BY <1>i DEF ResamplerStands, Stands
<1>6. OfferedIsOneRun'
  BY <1>1, <1>i, <1>w DEF OfferedIsOneRun, Unmarked, FirstFrame, LastFrame, Origin, Block
<1> QED
  BY <1>1, <1>2, <1>3, <1>4, <1>5, <1>6

(* And the utterance, when the step does not touch it.                        *)
LEMMA UtteranceKept ==
  ASSUME AudioInv,
         UNCHANGED <<plan, offered, resampler, produced, utterance, rejected, tap>>,
         issues \subseteq issues', "discontinuity" \in issues' => "discontinuity" \in issues
  PROVE  SamplesAreOrdered' /\ NoAudioAcrossABreak' /\ LimitHolds' /\ StepsAreEven'
<1> USE DEF AudioInv
<1>1. SamplesAreOrdered'
  BY DEF SamplesAreOrdered
<1>2. NoAudioAcrossABreak'
  BY DEF NoAudioAcrossABreak
<1>3. LimitHolds'
  BY DEF LimitHolds, LimitIsNamed
<1>4. StepsAreEven'
  BY DEF StepsAreEven, Origin
<1> QED
  BY <1>1, <1>2, <1>3, <1>4

LEMMA OpenStreamKeepsInv ==
  ASSUME AudioInv, OpenStream
  PROVE  AudioInv'
<1>1. /\ pc = "open" /\ pc' \in {"loop", "done"}
      /\ UNCHANGED <<plan, faulted, nextFrame, expected, pending, cb, slots, published,
                     counters, stop, late, offered, consumed, worker>>
      /\ \/ device' = "open" /\ pc' = "loop" /\ UNCHANGED outcome
         \/ UNCHANGED device /\ pc' = "done"
            /\ outcome' = [result |-> "failed", note |-> "start"]
  BY DEF OpenStream, Rest, Fail
<1>i. StreamTyped /\ WorkerTyped /\ CallbackFollows /\ TapFollows /\ ThreadKnows
  BY DEF AudioInv
<1>c. device = "closed" /\ cb.at = "idle" /\ tap = <<>> /\ utterance = <<>> /\ rejected = 0
  BY <1>1, <1>i DEF ThreadKnows, CallbackFollows
<1>2. /\ StreamTyped' /\ CountersAgree' /\ BlocksFollow' /\ CallbackFollows'
      /\ ResamplerStands' /\ OfferedIsOneRun'
  BY <1>1, <1>c, DeviceKept DEF ring, counters, worker
<1>3. SamplesAreOrdered' /\ NoAudioAcrossABreak' /\ LimitHolds' /\ StepsAreEven'
  BY <1>1, UtteranceKept DEF worker
<1>4. WorkerTyped'
  BY <1>1, <1>i DEF WorkerTyped, worker, Running
<1>5. TapFollows'
  <2>1. tap' = <<>> /\ utterance' = <<>>
    BY <1>1, <1>c DEF worker
  <2>2. Instants' = <<>>
    BY <2>1 DEF Instants
  <2>3. Begins(<<>>, <<>>)
    BY DEF Begins
  <2> QED
    BY <2>1, <2>2, <2>3 DEF TapFollows
<1>6. ThreadKnows'
  BY <1>1, <1>c, <1>i DEF ThreadKnows, Captured, Running
<1> QED
  BY <1>2, <1>3, <1>4, <1>5, <1>6 DEF AudioInv

(* The steps that only move the thread on *)
LEMMA LoopTestKeepsInv ==
  ASSUME AudioInv, LoopTest
  PROVE  AudioInv'
<1>1. /\ pc = "loop" /\ pc' \in {"close", "pop"}
      /\ UNCHANGED <<plan, faulted, nextFrame, expected, pending, cb, slots, published,
                     counters, stop, late, offered, device, consumed, worker, outcome>>
  BY DEF LoopTest, Rest
<1>i. WorkerTyped /\ TapFollows /\ ThreadKnows /\ StreamTyped
  BY DEF AudioInv
<1>2. /\ StreamTyped' /\ CountersAgree' /\ BlocksFollow' /\ CallbackFollows'
      /\ ResamplerStands' /\ OfferedIsOneRun'
  BY <1>1, <1>i, DeviceKept DEF ring, counters, worker, StreamTyped
<1>3. SamplesAreOrdered' /\ NoAudioAcrossABreak' /\ LimitHolds' /\ StepsAreEven'
  BY <1>1, UtteranceKept DEF worker
<1>4. WorkerTyped' /\ TapFollows'
  BY <1>1, <1>i DEF WorkerTyped, TapFollows, Instants, worker
<1>5. ThreadKnows'
  BY <1>1, <1>i DEF ThreadKnows, Captured, worker, counters, Block
<1> QED
  BY <1>2, <1>3, <1>4, <1>5 DEF AudioInv

LEMMA PopKeepsInv ==
  ASSUME AudioInv, Pop
  PROVE  AudioInv'
<1>1. /\ pc = "pop" /\ pc' = "process" /\ consumed # published
      /\ block' = slots[consumed % Slots]
      /\ UNCHANGED <<plan, faulted, nextFrame, expected, pending, cb, slots, published,
                     counters, stop, late, offered, device, consumed, resampler, produced,
                     preRoll, utterance, rejected, issues, tap, outcome>>
  BY DEF Pop, Rest
<1>i. WorkerTyped /\ TapFollows /\ ThreadKnows /\ StreamTyped
  BY DEF AudioInv
<1>2. /\ StreamTyped' /\ CountersAgree' /\ BlocksFollow' /\ CallbackFollows'
      /\ ResamplerStands' /\ OfferedIsOneRun'
  BY <1>1, <1>i, DeviceKept DEF ring, counters, StreamTyped
<1>3. SamplesAreOrdered' /\ NoAudioAcrossABreak' /\ LimitHolds' /\ StepsAreEven'
  BY <1>1, UtteranceKept
<1>4. WorkerTyped' /\ TapFollows'
  BY <1>1, <1>i DEF WorkerTyped, TapFollows, Instants
<1>5. ThreadKnows'
  <2>1. consumed < published
    BY <1>1, <1>i DEF StreamTyped
  <2> QED
    BY <1>1, <1>i, <2>1 DEF ThreadKnows, Captured, counters, Block
<1> QED
  BY <1>2, <1>3, <1>4, <1>5 DEF AudioInv

LEMMA NothingQueuedKeepsInv ==
  ASSUME AudioInv, NothingQueued
  PROVE  AudioInv'
<1>1. /\ pc = "pop" /\ consumed = published /\ pc' \in {"poll", "judge"}
      /\ (pc' = "poll" <=> device = "open")
      /\ UNCHANGED <<plan, faulted, nextFrame, expected, pending, cb, slots, published,
                     counters, stop, late, offered, device, consumed, worker, outcome>>
  BY DEF NothingQueued, Rest
<1>i. WorkerTyped /\ TapFollows /\ ThreadKnows /\ StreamTyped
  BY DEF AudioInv
<1>2. /\ StreamTyped' /\ CountersAgree' /\ BlocksFollow' /\ CallbackFollows'
      /\ ResamplerStands' /\ OfferedIsOneRun'
  BY <1>1, <1>i, DeviceKept DEF ring, counters, worker, StreamTyped
<1>3. SamplesAreOrdered' /\ NoAudioAcrossABreak' /\ LimitHolds' /\ StepsAreEven'
  BY <1>1, UtteranceKept DEF worker
<1>4. WorkerTyped' /\ TapFollows'
  BY <1>1, <1>i DEF WorkerTyped, TapFollows, Instants, worker
<1>5. ThreadKnows'
  BY <1>1, <1>i DEF ThreadKnows, Captured, worker, counters, Block, StreamTyped
<1> QED
  BY <1>2, <1>3, <1>4, <1>5 DEF AudioInv

LEMMA PollFaultKeepsInv ==
  ASSUME AudioInv, PollFault
  PROVE  AudioInv'
<1>1. /\ pc = "poll" /\ pc' \in {"close", "loop"}
      /\ UNCHANGED outcome \/ outcome' = [result |-> "failed", note |-> "fault"]
      /\ UNCHANGED <<plan, faulted, nextFrame, expected, pending, cb, slots, published,
                     counters, stop, late, offered, device, consumed, worker>>
  BY DEF PollFault, Rest, Fail
<1>i. WorkerTyped /\ TapFollows /\ ThreadKnows /\ StreamTyped
  BY DEF AudioInv
<1>2. /\ StreamTyped' /\ CountersAgree' /\ BlocksFollow' /\ CallbackFollows'
      /\ ResamplerStands' /\ OfferedIsOneRun'
  BY <1>1, <1>i, DeviceKept DEF ring, counters, worker, StreamTyped
<1>3. SamplesAreOrdered' /\ NoAudioAcrossABreak' /\ LimitHolds' /\ StepsAreEven'
  BY <1>1, UtteranceKept DEF worker
<1>4. WorkerTyped' /\ TapFollows'
  BY <1>1, <1>i DEF WorkerTyped, TapFollows, Instants, worker, Running
<1>5. ThreadKnows'
  BY <1>1, <1>i DEF ThreadKnows, Captured, worker, counters, Block, Running
<1> QED
  BY <1>2, <1>3, <1>4, <1>5 DEF AudioInv

LEMMA CloseStreamKeepsInv ==
  ASSUME AudioInv, CloseStream
  PROVE  AudioInv'
<1>1. /\ pc = "close" /\ cb.at = "idle" /\ device' = "closed" /\ pc' \in {"done", "pop"}
      /\ UNCHANGED <<plan, faulted, nextFrame, expected, pending, cb, slots, published,
                     counters, stop, late, offered, consumed, worker, outcome>>
  BY DEF CloseStream, StreamReleased, Rest
<1>i. WorkerTyped /\ TapFollows /\ ThreadKnows
  BY DEF AudioInv
<1>2. /\ StreamTyped' /\ CountersAgree' /\ BlocksFollow' /\ CallbackFollows'
      /\ ResamplerStands' /\ OfferedIsOneRun'
  BY <1>1, DeviceKept DEF ring, counters, worker
<1>3. SamplesAreOrdered' /\ NoAudioAcrossABreak' /\ LimitHolds' /\ StepsAreEven'
  BY <1>1, UtteranceKept DEF worker
<1>4. WorkerTyped' /\ TapFollows'
  BY <1>1, <1>i DEF WorkerTyped, TapFollows, Instants, worker
<1>5. ThreadKnows'
  BY <1>1, <1>i DEF ThreadKnows, Captured, worker, counters, Block
<1> QED
  BY <1>2, <1>3, <1>4, <1>5 DEF AudioInv

LEMMA JudgeKeepsInv ==
  ASSUME AudioInv, Judge
  PROVE  AudioInv'
<1>1. /\ pc = "judge" /\ pc' = "done" /\ issues' = FinalIssues
      /\ IF utterance = <<>> THEN outcome' = [result |-> "failed", note |-> "empty"]
         ELSE outcome' = [result |-> "captured", note |-> IssueCode(FinalIssues)]
      /\ UNCHANGED <<plan, faulted, nextFrame, expected, pending, cb, slots, published,
                     counters, stop, late, offered, device, consumed, block, resampler,
                     produced, preRoll, utterance, rejected, tap>>
  BY DEF Judge, Rest, Fail
<1>i. WorkerTyped /\ TapFollows /\ ThreadKnows /\ StreamTyped /\ CountersAgree
  BY DEF AudioInv
<1>f. /\ issues \subseteq issues' /\ ("discontinuity" \in issues' => "discontinuity" \in issues)
      /\ issues' \subseteq Issues /\ (overflows > 0 => "queue" \in issues')
  BY <1>1, <1>i DEF FinalIssues, Issues, WorkerTyped
<1>2. /\ StreamTyped' /\ CountersAgree' /\ BlocksFollow' /\ CallbackFollows'
      /\ ResamplerStands' /\ OfferedIsOneRun'
  BY <1>1, <1>f, <1>i, DeviceKept DEF ring, counters, StreamTyped
<1>3. SamplesAreOrdered' /\ NoAudioAcrossABreak' /\ LimitHolds' /\ StepsAreEven'
  BY <1>1, <1>f, UtteranceKept
<1>o. /\ outcome'.result \in {"failed", "captured"}
      /\ outcome'.result = "captured" => utterance # <<>> /\ outcome'.note = IssueCode(issues')
  BY <1>1
<1>4. WorkerTyped'
  BY <1>1, <1>f, <1>i, <1>o DEF WorkerTyped, Running
<1>t. TapFollows'
  BY <1>1, <1>i DEF TapFollows, Instants
<1>5. ThreadKnows'
  <2>1. device = "closed" /\ consumed = published
    BY <1>1, <1>i DEF ThreadKnows
  <2> QED
    BY <1>1, <1>f, <1>o, <2>1 DEF ThreadKnows, Captured, counters
<1> QED
  BY <1>2, <1>3, <1>4, <1>5, <1>t DEF AudioInv

(* The user, the clock, and a capture that is over. *)
LEMMA ElsewhereKeepsInv ==
  ASSUME AudioInv, Elsewhere, stop' \in BOOLEAN, late' \in BOOLEAN
  PROVE  AudioInv'
<1>1. UNCHANGED <<plan, stream, ring, counters, worker, pc, outcome, offered>>
  BY DEF Elsewhere
<1>i. WorkerTyped /\ TapFollows /\ ThreadKnows /\ StreamTyped
  BY DEF AudioInv
<1>2. /\ StreamTyped' /\ CountersAgree' /\ BlocksFollow' /\ CallbackFollows'
      /\ ResamplerStands' /\ OfferedIsOneRun'
  BY <1>1, <1>i, DeviceKept DEF ring, counters, worker, stream, StreamTyped
<1>3. SamplesAreOrdered' /\ NoAudioAcrossABreak' /\ LimitHolds' /\ StepsAreEven'
  BY <1>1, UtteranceKept DEF worker
<1>4. WorkerTyped' /\ TapFollows'
  BY <1>1, <1>i DEF WorkerTyped, TapFollows, Instants, worker, stream
<1>5. ThreadKnows'
  BY <1>1, <1>i, ThreadKept DEF stream, ring, counters
<1> QED
  BY <1>2, <1>3, <1>4, <1>5 DEF AudioInv

-----------------------------------------------------------------------------
(* The step that takes a block *)

(* The block that was popped is a run of frames that continues the            *)
(* resampler's, unless it carries a mark and the resampler is reset.          *)
LEMMA PoppedBlock ==
  ASSUME AudioInv, pc = "process"
  PROVE  /\ consumed < published /\ block = Block(consumed) /\ IsRun(block.frames)
         /\ Len(block.frames) \in Nat \ {0} /\ Len(block.frames) <= BlockFrames
         /\ \A k \in 1 .. Len(block.frames) :
                block.frames[k] \in offered /\ block.frames[k] = block.frames[1] + k - 1
         /\ block.frames[1] \in Nat /\ Last(block.frames) = block.frames[1] + Len(block.frames) - 1
         /\ Follows(block.frames[1], resampler.previous, block.marks)
         /\ ResamplerFor.previous # Unknown =>
                /\ ResamplerFor = resampler /\ block.frames[1] = resampler.previous + 1
         /\ block.marks # {} => ResamplerFor = ResamplerReset
         /\ block.marks = {} => ResamplerFor = resampler
         /\ Stands(ResamplerFor) /\ OutOfRun(ResamplerFor, block.frames, Resampled)
<1> DEFINE frames == block.frames
<1>i. StreamTyped /\ BlocksFollow /\ ResamplerStands /\ ThreadKnows
  BY DEF AudioInv
<1>1. consumed < published /\ block = Block(consumed)
  BY <1>i DEF ThreadKnows
<1>2. /\ IsRun(frames) /\ Len(frames) <= BlockFrames
      /\ \A k \in 1 .. Len(frames) : frames[k] \in offered
      /\ Follows(frames[1], FrameBefore(consumed), block.marks)
  <2>1. consumed \in consumed .. Written - 1
    BY <1>i, <1>1, RingNumbers
  <2> QED
    BY <1>i, <1>1, <2>1 DEF BlocksFollow
<1>3. Follows(frames[1], resampler.previous, block.marks)
  BY <1>2 DEF FrameBefore
<1> HIDE DEF frames
<1>4. Len(frames) \in Nat \ {0} /\ frames \in Seq(Nat)
  BY <1>2, EmptySeq DEF IsRun
<1>5. frames[1] \in Nat /\ Last(frames) = frames[1] + Len(frames) - 1
  <2>1. 1 \in 1 .. Len(frames) /\ Len(frames) \in 1 .. Len(frames)
    BY <1>4
  <2> QED
    BY <1>2, <1>4, <2>1, ElementOfSeq DEF IsRun, Last
<1>6. block.marks # {} => ResamplerFor = ResamplerReset
  BY DEF ResamplerFor
<1>7. block.marks = {} => ResamplerFor = resampler
  BY DEF ResamplerFor
<1>8. ResamplerFor.previous # Unknown =>
          /\ ResamplerFor = resampler /\ frames[1] = resampler.previous + 1
  BY <1>3, <1>6, <1>7 DEF Follows, ResamplerReset
<1>9. Stands(ResamplerFor)
  <2>1. Stands(ResamplerReset)
    BY DEF Stands, ResamplerReset
  <2> QED
    BY <1>i, <1>6, <1>7, <2>1 DEF ResamplerStands
<1>10. OutOfRun(ResamplerFor, frames, Resampled)
  <2>1. ResamplerFor.previous # Unknown => frames[1] = ResamplerFor.previous + 1
    BY <1>8
  <2>2. Resampled = Resample(ResamplerFor, frames, plan)
    BY DEF Resampled, frames
  <2> QED
    BY <1>i, <1>2, <1>9, <2>1, <2>2, OutputOfRun DEF StreamTyped
<1> QED
  BY <1>1, <1>2, <1>3, <1>4, <1>5, <1>6, <1>7, <1>8, <1>9, <1>10 DEF frames, IsRun

(* What of a block's output the utterance takes, and where it goes *)
Appends(out, taken) ==
    /\ out \in Seq(Nat) /\ taken \in Nat /\ taken <= Len(out)
    /\ Len(utterance) + taken <= UtteranceLimit(plan)
    /\ taken = Len(out) \/ Len(utterance) + taken = UtteranceLimit(plan)
    /\ utterance' \in Seq(SampleRecords) /\ Len(utterance') = Len(utterance) + taken
    /\ \A k \in 1 .. Len(utterance) : utterance'[k] = utterance[k]
    /\ \A k \in 1 .. taken :
           utterance'[Len(utterance) + k] = [instant |-> out[k], index |-> produced + k - 1,
                                             source |-> block.frames[1]]
    /\ rejected' = rejected + (Len(out) - taken)
    /\ produced' = produced + Len(out)
    /\ issues' = IssuesAfter(Len(out) - taken)

(* Process appends the accepted part of the block's samples and counts the rest. *)
LEMMA ProcessAppends ==
  ASSUME AudioInv, Process
  PROVE  \E taken \in Nat : Appends(Resampled.out, taken)
<1> DEFINE out == Resampled.out
           output == Output(out)
           L == Len(utterance)
           N == Len(out)
           limit == UtteranceLimit(plan)
           taken == Accepted(Len(output))
<1>i. WorkerTyped /\ LimitHolds /\ StreamTyped
  BY DEF AudioInv
<1>1. /\ pc = "process"
      /\ utterance' = utterance \o SubSeq(output, 1, taken)
      /\ rejected' = rejected + (Len(output) - taken)
      /\ issues' = IssuesAfter(Len(output) - taken)
      /\ produced' = produced + Len(output)
  BY DEF Process
<1>2. out \in Seq(Nat) /\ block.frames[1] \in Nat
  BY <1>1, PoppedBlock DEF OutOfRun
<1>3. limit \in Nat /\ L <= limit /\ produced \in Nat /\ utterance \in Seq(SampleRecords)
  BY <1>i, PlanFacts DEF WorkerTyped, LimitHolds, StreamTyped
<1> HIDE DEF out, L, limit
<1>4. N \in Nat /\ L \in Nat /\ DOMAIN out = 1 .. N
  BY <1>2, <1>3, LenProperties DEF L
<1> HIDE DEF N
<1>5. output = [k \in 1 .. N |-> [instant |-> out[k], index |-> produced + k - 1,
                                  source |-> block.frames[1]]]
  BY <1>4 DEF Output
<1>6. output \in Seq(SampleRecords) /\ Len(output) = N
  <2>1. \A k \in 1 .. N : [instant |-> out[k], index |-> produced + k - 1,
                           source |-> block.frames[1]] \in SampleRecords
    <3> TAKE k \in 1 .. N
    <3>1. out[k] \in Nat
      BY <1>2, ElementOfSeq DEF N
    <3>2. produced + k - 1 \in Nat
      BY <1>3, <1>4
    <3> QED
      BY <1>2, <3>1, <3>2 DEF SampleRecords
  <2> QED
    BY <1>4, <1>5, <2>1
<1> HIDE DEF output
<1>7. taken = Least({limit - L, N})
  BY <1>6 DEF Accepted, limit, L
<1> HIDE DEF taken
<1>8. /\ taken \in Nat /\ taken <= N /\ L + taken <= limit
      /\ taken = N \/ L + taken = limit
  <2>1. limit - L \in Nat
    BY <1>3, <1>4
  <2>2. taken \in {limit - L, N} /\ taken <= limit - L /\ taken <= N
    BY <1>4, <1>7, <2>1, LeastOfTwo
  <2> QED
    BY <1>3, <1>4, <2>1, <2>2
<1>9. /\ SubSeq(output, 1, taken) \in Seq(SampleRecords) /\ Len(SubSeq(output, 1, taken)) = taken
      /\ \A k \in 1 .. taken : SubSeq(output, 1, taken)[k] = output[k]
  <2>1. \A k \in 1 .. taken : output[k] \in SampleRecords
    BY <1>4, <1>6, <1>8, ElementOfSeq
  <2>2. /\ SubSeq(output, 1, taken) \in Seq(SampleRecords)
        /\ Len(SubSeq(output, 1, taken)) = IF 1 <= taken THEN taken - 1 + 1 ELSE 0
        /\ \A k \in 1 .. taken - 1 + 1 : SubSeq(output, 1, taken)[k] = output[1 + k - 1]
    BY <1>8, <2>1, SubSeqProperties
  <2>3. (IF 1 <= taken THEN taken - 1 + 1 ELSE 0) = taken /\ taken - 1 + 1 = taken
    BY <1>8
  <2>4. \A k \in 1 .. taken : 1 + k - 1 = k
    BY <1>8
  <2> QED
    BY <2>2, <2>3, <2>4
<1> DEFINE new == SubSeq(output, 1, taken)
<1> HIDE DEF new
<1>10. new \in Seq(SampleRecords) /\ Len(new) = taken
       /\ \A k \in 1 .. taken : new[k] = output[k]
  BY <1>9 DEF new
<1>11. /\ utterance' = utterance \o new
       /\ utterance' \in Seq(SampleRecords) /\ Len(utterance') = L + taken
       /\ \A k \in 1 .. L + taken : utterance'[k] = IF k <= L THEN utterance[k] ELSE new[k - L]
  <2>1. utterance' = utterance \o new
    BY <1>1 DEF new
  <2>2. /\ utterance \o new \in Seq(SampleRecords)
        /\ Len(utterance \o new) = Len(utterance) + Len(new)
        /\ \A k \in 1 .. Len(utterance) + Len(new) :
              (utterance \o new)[k] = IF k <= Len(utterance) THEN utterance[k]
                                      ELSE new[k - Len(utterance)]
    BY <1>3, <1>10, ConcatProperties
  <2> QED
    BY <1>10, <2>1, <2>2 DEF L
<1>12. \A k \in 1 .. L : utterance'[k] = utterance[k]
  BY <1>4, <1>8, <1>11
<1>13. ASSUME NEW k \in 1 .. taken
       PROVE  utterance'[L + k] = [instant |-> out[k], index |-> produced + k - 1,
                                   source |-> block.frames[1]]
  <2>1. L + k \in 1 .. L + taken /\ ~(L + k <= L) /\ (L + k) - L = k /\ k \in 1 .. N
    BY <1>4, <1>8
  <2>2. utterance'[L + k] = new[k]
    BY <1>11, <2>1
  <2>3. new[k] = output[k]
    BY <1>10
  <2> QED
    BY <1>5, <2>1, <2>2, <2>3
<1>14. /\ rejected' = rejected + (N - taken) /\ issues' = IssuesAfter(N - taken)
       /\ produced' = produced + N
  BY <1>1, <1>6 DEF taken
<1>15. Appends(out, taken)
  BY <1>2, <1>8, <1>11, <1>12, <1>13, <1>14 DEF Appends, L, N, limit
<1> QED
  BY <1>8, <1>15 DEF out

(* Giving the block's slot back moves the resampler to the block's last frame. *)
LEMMA ProcessKeepsRing ==
  ASSUME AudioInv, Process
  PROVE  /\ StreamTyped' /\ CountersAgree' /\ BlocksFollow' /\ CallbackFollows'
         /\ ResamplerStands' /\ OfferedIsOneRun'
<1> DEFINE F == FrameBefore(Written)
           frames == block.frames
           first == block.frames[1]
           last == Last(block.frames)
           r == ResamplerFor
           res == Resampled
<1>i. /\ StreamTyped /\ CountersAgree /\ BlocksFollow /\ CallbackFollows
      /\ ResamplerStands /\ OfferedIsOneRun
  BY DEF AudioInv
<1>1. /\ pc = "process" /\ consumed' = consumed + 1 /\ resampler' = res.resampler
      /\ \E n : issues' = IssuesAfter(n)
      /\ UNCHANGED <<plan, faulted, nextFrame, expected, pending, cb, slots, published,
                    counters, stop, late, offered, device, outcome>>
  BY DEF Process, Rest
<1>2. /\ consumed < published /\ block = Block(consumed) /\ IsRun(frames)
      /\ Len(frames) \in Nat \ {0}
      /\ \A k \in 1 .. Len(frames) : frames[k] \in offered /\ frames[k] = first + k - 1
      /\ first \in Nat /\ last = first + Len(frames) - 1
      /\ r.previous # Unknown => r = resampler /\ first = resampler.previous + 1
      /\ block.marks # {} => r = ResamplerReset
      /\ block.marks = {} => r = resampler
      /\ Stands(r) /\ OutOfRun(r, frames, res)
  BY <1>1, PoppedBlock
<1>r. /\ consumed \in Nat /\ published \in Nat /\ Written \in Nat /\ published <= Written
      /\ offered \subseteq Nat /\ Slots \in Nat
  BY <1>i, RingNumbers
<1> HIDE DEF first, last, r, res
<1>w. Written' = Written
  BY <1>1 DEF Written
<1>3. /\ resampler'.previous = last /\ Stands(resampler') /\ last \in Nat
      /\ resampler'.previous - resampler'.total + 1 = first - r.total
  BY <1>1, <1>2 DEF OutOfRun, first, last
<1>4. last \in offered
  <2>1. Len(frames) \in 1 .. Len(frames)
    BY <1>2
  <2> QED
    BY <1>2, <2>1
<1>5. \A i \in consumed + 1 .. Written :
          FrameBefore(i)' = FrameBefore(i) /\ Block(i)' = Block(i)
  <2> TAKE i \in consumed + 1 .. Written
  <2>1. i # consumed
    BY <1>r
  <2>2. CASE i = consumed + 1
    <3>1. FrameBefore(i) = Final(Block(i - 1)) /\ i - 1 = consumed
      BY <1>r, <2>1, <2>2 DEF FrameBefore
    <3>2. FrameBefore(i)' = resampler'.previous
      BY <1>1, <2>2 DEF FrameBefore
    <3>3. Final(Block(i - 1)) = last
      BY <1>2, <3>1 DEF Final, last
    <3> QED
      BY <1>1, <1>3, <3>1, <3>2, <3>3 DEF Block
  <2>3. CASE i # consumed + 1
    BY <1>1, <2>1, <2>3 DEF FrameBefore, Block, Final
  <2> QED
    BY <2>2, <2>3
<1>6. F' = F
  <2>1. Written \in consumed + 1 .. Written
    BY <1>2, <1>r
  <2>2. ASSUME NEW i \in consumed + 1 .. Written, i = Written PROVE F' = F
    BY <1>5, <1>w, <2>2 DEF FrameBefore, Block, Final
  <2> QED
    BY <2>1, <2>2
<1>7. StreamTyped'
  BY <1>1, <1>2, <1>i, <1>r, <1>w DEF StreamTyped
<1>8. CountersAgree'
  BY <1>1, <1>i DEF CountersAgree, counters
<1>9. BlocksFollow'
  <2> SUFFICES ASSUME NEW i \in consumed + 1 .. Written - 1
               PROVE  /\ IsRun(Block(i).frames)' /\ (Len(Block(i).frames) <= BlockFrames)'
                      /\ (\A k \in 1 .. Len(Block(i).frames) : Block(i).frames[k] \in offered)'
                      /\ Follows(Block(i).frames[1], FrameBefore(i), Block(i).marks)'
    BY <1>1, <1>w DEF BlocksFollow
  <2>1. i \in consumed + 1 .. Written /\ i \in consumed .. Written - 1
    BY <1>r
  <2>2. Block(i)' = Block(i) /\ FrameBefore(i)' = FrameBefore(i)
    BY <1>5, <2>1
  <2>3. /\ IsRun(Block(i).frames) /\ Len(Block(i).frames) <= BlockFrames
        /\ \A k \in 1 .. Len(Block(i).frames) : Block(i).frames[k] \in offered
        /\ Follows(Block(i).frames[1], FrameBefore(i), Block(i).marks)
    BY <1>i, <2>1 DEF BlocksFollow
  <2> QED
    BY <1>1, <2>2, <2>3
<1>10. CallbackFollows'
  BY <1>1, <1>6, <1>i DEF CallbackFollows
<1>11. ResamplerStands'
  BY <1>1, <1>3, <1>4 DEF ResamplerStands, Stands
<1>12. OfferedIsOneRun'
  <2>1. offered # {}
    BY <1>4
  <2>2. ASSUME Unmarked'
        PROVE  /\ offered = FirstFrame' .. LastFrame'
               /\ F = Unknown => cb.at = "check" /\ cb.done = 0
    <3>1. block.marks = {} /\ "discontinuity" \notin issues
      BY <1>1, <2>2 DEF Unmarked, IssuesAfter
    <3>2. Unmarked
      <4>1. ASSUME NEW i \in consumed .. Written - 1 PROVE Block(i).marks = {}
        <5>1. CASE i = consumed
          BY <1>2, <3>1, <5>1
        <5>2. CASE i # consumed
          <6>1. i \in consumed' .. Written' - 1 /\ i \in consumed + 1 .. Written
            BY <1>1, <1>r, <1>w, <5>2
          <6>2. Block(i)'.marks = {}
            BY <2>2, <6>1 DEF Unmarked
          <6> QED
            BY <1>5, <6>1, <6>2
        <5> QED
          BY <5>1, <5>2
      <4> QED
        BY <1>1, <2>2, <3>1, <4>1 DEF Unmarked, counters
    <3>3. offered = FirstFrame .. LastFrame /\ (F = Unknown => cb.at = "check" /\ cb.done = 0)
      BY <1>i, <2>1, <3>2 DEF OfferedIsOneRun
    <3>4. LastFrame' = LastFrame
      BY <1>1, <1>6 DEF LastFrame
    <3>5. FirstFrame' = first - r.total
      <4>1. last # Unknown
        BY <1>3 DEF Unknown
      <4> QED
        BY <1>3, <4>1 DEF FirstFrame, Origin
    <3>6. FirstFrame = first - r.total
      <4>1. r = resampler
        BY <1>2, <3>1
      <4>2. CASE resampler.previous # Unknown
        <5>1. first = resampler.previous + 1
          BY <1>2, <4>1, <4>2
        <5>2. resampler.previous \in Nat /\ resampler.total \in Nat
          BY <1>2, <4>1, <4>2 DEF Stands
        <5>3. FirstFrame = resampler.previous - resampler.total + 1
          BY <4>2 DEF FirstFrame, Origin
        <5> QED
          BY <4>1, <5>1, <5>2, <5>3
      <4>3. CASE resampler.previous = Unknown
        <5>1. r.total = 0
          BY <1>2, <4>1, <4>3 DEF Stands, ResamplerReset
        <5>2. FirstFrame = first
          BY <1>2, <1>r, <4>3 DEF FirstFrame, first
        <5> QED
          BY <1>2, <5>1, <5>2
      <4> QED
        BY <4>2, <4>3
    <3> QED
      BY <3>3, <3>4, <3>5, <3>6
  <2> QED
    BY <1>1, <1>6, <2>1, <2>2 DEF OfferedIsOneRun
<1> QED
  BY <1>7, <1>8, <1>9, <1>10, <1>11, <1>12

(* The block's samples come after those of the utterance, and lie between     *)
(* frames that were taken from the ring.                                      *)
LEMMA ProcessKeepsSamples ==
  ASSUME AudioInv, Process
  PROVE  /\ WorkerTyped' /\ SamplesAreOrdered' /\ NoAudioAcrossABreak' /\ LimitHolds'
         /\ StepsAreEven'
<1> DEFINE T == plan.target
           S == plan.source
           first == block.frames[1]
           last == Last(block.frames)
           r == ResamplerFor
           res == Resampled
           out == res.out
           L == Len(utterance)
           N == Len(out)
<1>i. /\ StreamTyped /\ WorkerTyped /\ ResamplerStands /\ SamplesAreOrdered
      /\ NoAudioAcrossABreak /\ LimitHolds /\ StepsAreEven
  BY DEF AudioInv
<1>1. /\ pc = "process" /\ resampler' = res.resampler /\ pc' = "pop"
      /\ tap' = IF device = "open" THEN tap \o out ELSE tap
      /\ UNCHANGED <<plan, faulted, nextFrame, expected, pending, cb, slots, published,
                    counters, stop, late, offered, device, outcome>>
  BY DEF Process, Rest
<1>2. /\ Len(block.frames) \in Nat \ {0}
      /\ \A k \in 1 .. Len(block.frames) :
             block.frames[k] \in offered /\ block.frames[k] = first + k - 1
      /\ first \in Nat /\ last = first + Len(block.frames) - 1
      /\ Follows(first, resampler.previous, block.marks)
      /\ r.previous # Unknown => r = resampler /\ first = resampler.previous + 1
      /\ block.marks = {} => r = resampler
      /\ Stands(r) /\ OutOfRun(r, block.frames, res)
  BY <1>1, PoppedBlock
<1>3. PICK taken \in Nat : Appends(out, taken)
  BY ProcessAppends
<1> HIDE DEF first, last, r, res
<1>4. /\ resampler'.previous = last /\ resampler'.previous - resampler'.total + 1 = first - r.total
      /\ resampler'.next = r.next + N * S
      /\ \A k \in 1 .. N :
             /\ out[k] = (first - r.total) * T + r.next + (k - 1) * S
             /\ out[k] <= last * T
             /\ r.previous # Unknown => out[k] > r.previous * T
             /\ r.previous = Unknown => out[k] >= first * T
             /\ k < N => out[k] < out[k + 1]
  BY <1>1, <1>2 DEF OutOfRun, first, last
<1> HIDE DEF out
<1>5. /\ out \in Seq(Nat) /\ taken <= N /\ L + taken <= UtteranceLimit(plan)
      /\ taken = N \/ L + taken = UtteranceLimit(plan)
      /\ utterance' \in Seq(SampleRecords) /\ Len(utterance') = L + taken
      /\ \A k \in 1 .. L : utterance'[k] = utterance[k]
      /\ \A k \in 1 .. taken :
             /\ utterance'[L + k].instant = out[k]
             /\ utterance'[L + k].index = produced + k - 1
             /\ utterance'[L + k].source = first
      /\ rejected' = rejected + (N - taken) /\ produced' = produced + N
      /\ issues' = IssuesAfter(N - taken)
  <2>1. /\ out \in Seq(Nat) /\ taken <= N /\ L + taken <= UtteranceLimit(plan)
        /\ taken = N \/ L + taken = UtteranceLimit(plan)
        /\ utterance' \in Seq(SampleRecords) /\ Len(utterance') = L + taken
        /\ \A k \in 1 .. L : utterance'[k] = utterance[k]
        /\ \A k \in 1 .. taken :
               utterance'[L + k] = [instant |-> out[k], index |-> produced + k - 1,
                                    source |-> first]
        /\ rejected' = rejected + (N - taken) /\ produced' = produced + N
        /\ issues' = IssuesAfter(N - taken)
    BY <1>3 DEF Appends, first
  <2> HIDE DEF L, N
  <2>2. ASSUME NEW k \in 1 .. taken
        PROVE  /\ utterance'[L + k].instant = out[k]
               /\ utterance'[L + k].index = produced + k - 1
               /\ utterance'[L + k].source = first
    <3>1. utterance'[L + k] = [instant |-> out[k], index |-> produced + k - 1, source |-> first]
      BY <2>1
    <3> QED
      BY <3>1
  <2> QED
    BY <2>1, <2>2
<1>6. /\ L \in Nat /\ N \in Nat /\ utterance \in Seq(SampleRecords)
      /\ \A k \in 1 .. L : utterance[k].instant \in Nat /\ utterance[k].index \in Nat
  <2>1. utterance \in Seq(SampleRecords) /\ out \in Seq(Nat)
    BY <1>i, <1>5 DEF WorkerTyped
  <2>2. L \in Nat /\ N \in Nat
    BY <2>1, LenProperties
  <2>3. \A k \in 1 .. L : utterance[k] \in SampleRecords
    BY <2>1, ElementOfSeq
  <2> QED
    BY <2>1, <2>2, <2>3 DEF SampleRecords
<1>p. T \in Nat \ {0} /\ S \in Nat \ {0} /\ UtteranceLimit(plan) \in Nat
      /\ LimitIssues(plan) \subseteq Issues
  BY <1>i, PlanFacts DEF StreamTyped
<1>n. \A k \in 1 .. N : out[k] \in Nat
  BY <1>5, ElementOfSeq
<1>m. produced \in Nat /\ rejected \in Nat /\ issues \subseteq Issues /\ tap \in Seq(Nat)
  BY <1>i DEF WorkerTyped
<1>h. /\ produced = L + rejected /\ L <= UtteranceLimit(plan)
      /\ rejected > 0 => LimitIssues(plan) \subseteq issues /\ L = UtteranceLimit(plan)
  BY <1>i DEF LimitHolds, LimitIsNamed
<1>q. rejected > 0 => taken = 0
  BY <1>5, <1>6, <1>h, <1>p
<1>o. /\ last \in Nat /\ first <= last /\ (resampler.previous # Unknown => resampler.previous \in Nat)
      /\ resampler.previous # Unknown => resampler.previous < first
      /\ r.previous # Unknown => r.previous = resampler.previous /\ resampler.previous # Unknown
  BY <1>2, <1>i DEF Follows, ResamplerStands, Stands
<1>s. ASSUME NEW k \in 1 .. L + taken
      PROVE  k \in 1 .. L \/ \E j \in 1 .. taken : k = L + j
  <2>1. CASE k <= L
    BY <1>6, <2>1
  <2>2. CASE k > L
    <3>1. k - L \in 1 .. taken /\ k = L + (k - L)
      BY <1>6, <2>2
    <3> QED
      BY <3>1
  <2> QED
    BY <1>6, <2>1, <2>2
<1> HIDE DEF L, N, T, S
<1>7. WorkerTyped'
  <2>1. produced' \in Nat /\ rejected' \in Nat
    BY <1>5, <1>6, <1>m
  <2>2. issues' \subseteq Issues
    BY <1>5, <1>m, <1>p DEF IssuesAfter, Issues
  <2>3. tap' \in Seq(Nat)
    BY <1>1, <1>5, <1>m, ConcatProperties
  <2> QED
    BY <1>1, <1>5, <1>i, <2>1, <2>2, <2>3 DEF WorkerTyped
<1>8. LimitHolds'
  <2>1. produced' = (L + taken) + rejected' /\ L + taken <= UtteranceLimit(plan)
    BY <1>5, <1>6, <1>h, <1>m
  <2>2. ASSUME rejected' > 0
        PROVE  LimitIssues(plan) \subseteq issues' /\ L + taken = UtteranceLimit(plan)
    <3>1. CASE N - taken > 0
      BY <1>5, <1>6, <3>1 DEF IssuesAfter
    <3>2. CASE ~(N - taken > 0)
      <4>1. rejected > 0
        BY <1>5, <1>6, <1>m, <2>2, <3>2
      <4>2. taken = 0 /\ L = UtteranceLimit(plan) /\ LimitIssues(plan) \subseteq issues
        BY <1>h, <1>q, <4>1
      <4> QED
        BY <1>5, <1>6, <4>2 DEF IssuesAfter
    <3> QED
      BY <3>1, <3>2
  <2> QED
    BY <1>1, <1>5, <2>1, <2>2 DEF LimitHolds, LimitIsNamed
<1>9. SamplesAreOrdered'
  <2>l. last # Unknown
    BY <1>o DEF Unknown
  <2>1. ASSUME NEW k \in 1 .. L + taken
        PROVE  /\ utterance'[k].instant <= last * T /\ utterance'[k].index = k - 1
               /\ k < L + taken => utterance'[k].instant < utterance'[k + 1].instant
    <3>1. CASE k \in 1 .. L
      <4>1. /\ utterance'[k] = utterance[k] /\ resampler.previous # Unknown
            /\ utterance[k].instant <= resampler.previous * T
            /\ utterance[k].index = k - 1
            /\ k < L => utterance[k].instant < utterance[k + 1].instant
        BY <1>5, <1>i, <3>1 DEF SamplesAreOrdered, L, T
      <4>2. resampler.previous * T <= first * T /\ first * T <= last * T
            /\ resampler.previous * T \in Nat /\ first * T \in Nat /\ last * T \in Nat
        <5>1. resampler.previous \in Int /\ resampler.previous <= first /\ first \in Int
              /\ last \in Int /\ first <= last
          BY <1>2, <1>o, <4>1
        <5>2. resampler.previous * T <= first * T /\ first * T <= last * T
          BY <1>p, <5>1, TimesKeepsOrder
        <5>3. resampler.previous \in Nat
          BY <1>o, <4>1
        <5>4. resampler.previous * T \in Nat /\ first * T \in Nat /\ last * T \in Nat
          <6>1. first \in Nat /\ last \in Nat /\ T \in Nat
            BY <1>2, <1>o, <1>p
          <6> QED
            BY <5>3, <6>1
        <5> QED
          BY <5>2, <5>4
      <4>3. utterance[k].instant \in Nat
        BY <1>6, <3>1
      <4>4. utterance'[k].instant <= last * T
        BY <4>1, <4>2, <4>3
      <4>5. ASSUME k < L + taken PROVE utterance'[k].instant < utterance'[k + 1].instant
        <5>1. CASE k < L
          <6>1. k + 1 \in 1 .. L
            BY <1>6, <5>1
          <6> QED
            BY <1>5, <4>1, <5>1, <6>1
        <5>2. CASE k = L
          <6>1. 1 \in 1 .. taken /\ 1 \in 1 .. N /\ k + 1 = L + 1
            BY <1>5, <1>6, <4>5, <5>2
          <6>2. utterance'[k + 1].instant = out[1]
            BY <1>5, <6>1
          <6>3. out[1] > resampler.previous * T
            <7>1. CASE r.previous # Unknown
              BY <1>4, <1>o, <6>1, <7>1
            <7>2. CASE r.previous = Unknown
              <8>1. out[1] >= first * T /\ out[1] \in Nat
                BY <1>4, <1>n, <6>1, <7>2
              <8>2. resampler.previous * T < first * T
                <9>0. resampler.previous \in Int /\ first \in Int /\ resampler.previous < first
                      /\ ~(first <= resampler.previous)
                  BY <1>2, <1>o, <4>1
                <9>1. ~(first * T <= resampler.previous * T)
                  BY <1>p, <9>0, TimesKeepsOrder
                <9> QED
                  BY <4>2, <9>1
              <8> QED
                BY <4>2, <8>1, <8>2
            <7> QED
              BY <7>1, <7>2
          <6> QED
            BY <1>n, <4>1, <4>2, <4>3, <6>1, <6>2, <6>3
        <5> QED
          BY <1>6, <3>1, <5>1, <5>2
      <4> QED
        BY <4>1, <4>4, <4>5
    <3>2. ASSUME NEW j \in 1 .. taken, k = L + j
          PROVE  /\ utterance'[k].instant <= last * T /\ utterance'[k].index = k - 1
                 /\ k < L + taken => utterance'[k].instant < utterance'[k + 1].instant
      <4>1. j \in 1 .. N
        BY <1>5, <1>6
      <4>2. utterance'[k].instant = out[j] /\ utterance'[k].index = produced + j - 1
        BY <1>5, <3>2
      <4>3. rejected = 0
        BY <1>q, <1>m
      <4>4. utterance'[k].index = k - 1
        BY <1>6, <1>h, <3>2, <4>2, <4>3
      <4>5. ASSUME k < L + taken PROVE utterance'[k].instant < utterance'[k + 1].instant
        <5>0. /\ taken \in Nat /\ taken <= N /\ N \in Nat /\ L \in Nat
              /\ j \in 1 .. taken /\ k = L + j /\ k < L + taken
          BY <1>5, <1>6, <3>2, <4>5
        <5>1. j + 1 \in 1 .. taken /\ k + 1 = L + (j + 1) /\ j < N
          BY <5>0
        <5>2. utterance'[k + 1].instant = out[j + 1]
          BY <1>5, <5>1
        <5> QED
          BY <1>4, <4>1, <4>2, <5>1, <5>2
      <4> QED
        BY <1>4, <4>1, <4>2, <4>4, <4>5
    <3> QED
      BY <1>s, <3>1, <3>2
  <2> QED
    BY <1>1, <1>4, <1>5, <2>1, <2>l DEF SamplesAreOrdered, T
<1>10. NoAudioAcrossABreak'
  <2>1. ASSUME NEW sample \in Range(utterance')
        PROVE  /\ {sample.instant \div T, CeilDiv(sample.instant, T)} \subseteq offered
               /\ CeilDiv(sample.instant, T) >= sample.source
    <3>1. PICK k \in 1 .. L + taken : sample = utterance'[k]
      <4>1. DOMAIN utterance' = 1 .. L + taken
        BY <1>5, LenProperties
      <4> QED
        BY <4>1 DEF Range
    <3>2. CASE k \in 1 .. L
      <4>1. sample = utterance[k]
        BY <1>5, <3>1, <3>2
      <4>2. sample \in Range(utterance)
        <5>1. DOMAIN utterance = 1 .. L
          BY <1>6, LenProperties DEF L
        <5> QED
          BY <3>2, <4>1, <5>1 DEF Range
      <4> QED
        BY <1>i, <4>2 DEF NoAudioAcrossABreak, T
    <3>3. ASSUME NEW j \in 1 .. taken, k = L + j
          PROVE  /\ {sample.instant \div T, CeilDiv(sample.instant, T)} \subseteq offered
                 /\ CeilDiv(sample.instant, T) >= sample.source
      <4>1. j \in 1 .. N
        BY <1>5, <1>6
      <4>2. sample.instant = out[j] /\ sample.source = first
        BY <1>5, <3>1, <3>3
      <4>3. out[j] \in Nat /\ out[j] <= last * T
        BY <1>4, <1>n, <4>1
      <4>4. \A f \in first .. last : f \in offered
        <5> TAKE f \in first .. last
        <5>1. f - first + 1 \in 1 .. Len(block.frames)
              /\ first + (f - first + 1) - 1 = f
          BY <1>2
        <5> QED
          BY <1>2, <5>1
      <4>5. CASE r.previous = Unknown
        <5>1. out[j] >= first * T /\ first * T \in Nat
          BY <1>2, <1>4, <1>p, <4>1, <4>5
        <5>2. out[j] \div T \in first .. last /\ CeilDiv(out[j], T) \in first .. last
          BY <1>2, <1>o, <1>p, <4>3, <5>1, BetweenFrames
        <5> QED
          BY <1>2, <4>2, <4>4, <5>2
      <4>6. CASE r.previous # Unknown
        <5> DEFINE lo == resampler.previous
        <5>1. lo \in Nat /\ first = lo + 1 /\ lo \in offered
          BY <1>2, <1>i, <1>o, <4>6 DEF ResamplerStands
        <5> HIDE DEF lo
        <5>2. out[j] > lo * T /\ lo * T \in Nat
          BY <1>4, <1>o, <1>p, <4>1, <4>6, <5>1 DEF lo
        <5>3. lo * T <= out[j]
          BY <4>3, <5>2
        <5>4. /\ out[j] \div T \in lo .. last /\ CeilDiv(out[j], T) \in lo .. last
              /\ CeilDiv(out[j], T) >= lo + 1
          BY <1>o, <1>p, <4>3, <5>1, <5>2, <5>3, BetweenFrames
        <5>5. \A f \in lo .. last : f \in offered
          <6> TAKE f \in lo .. last
          <6>1. f = lo \/ f \in first .. last
            BY <1>2, <1>o, <5>1
          <6> QED
            BY <4>4, <5>1, <6>1
        <5> QED
          BY <4>2, <5>1, <5>4, <5>5
      <4> QED
        BY <4>5, <4>6
    <3> QED
      BY <1>s, <3>2, <3>3
  <2> QED
    BY <1>1, <2>1 DEF NoAudioAcrossABreak, T
<1>11. StepsAreEven'
  <2> SUFFICES ASSUME "discontinuity" \notin issues', rejected' = 0
               PROVE  /\ resampler'.next = (L + taken) * S
                      /\ \A k \in 1 .. L + taken :
                             utterance'[k].instant = (first - r.total) * T + (k - 1) * S
    BY <1>1, <1>4, <1>5 DEF StepsAreEven, Origin, T, S
  <2>1. /\ block.marks = {} /\ "discontinuity" \notin issues /\ rejected = 0 /\ taken = N
        /\ r = resampler
    <3>1. block.marks = {} /\ "discontinuity" \notin issues
      BY <1>5 DEF IssuesAfter
    <3>2. rejected = 0 /\ taken = N
      BY <1>5, <1>6, <1>m
    <3> QED
      BY <1>2, <3>1, <3>2
  <2>2. /\ resampler.next = L * S
        /\ \A k \in 1 .. L : utterance[k].instant = Origin * T + (k - 1) * S
    BY <1>i, <2>1 DEF StepsAreEven, L, T, S
  <2>3. (L + taken) * S = L * S + N * S
    BY <1>6, <1>p, <2>1, TimesDistributes
  <2>4. resampler'.next = (L + taken) * S
    BY <1>4, <2>1, <2>2, <2>3
  <2>5. ASSUME NEW k \in 1 .. L + taken
        PROVE  utterance'[k].instant = (first - r.total) * T + (k - 1) * S
    <3>1. CASE k \in 1 .. L
      <4>1. resampler.previous # Unknown
        BY <1>i, <3>1 DEF SamplesAreOrdered, L
      <4>2. first = resampler.previous + 1 /\ resampler.previous \in Nat /\ resampler.total \in Nat
        BY <1>2, <2>1, <4>1 DEF Stands
      <4>3. Origin = first - r.total
        BY <2>1, <4>2 DEF Origin
      <4> QED
        BY <1>5, <2>2, <3>1, <4>3
    <3>2. ASSUME NEW j \in 1 .. taken, k = L + j
          PROVE  utterance'[k].instant = (first - r.total) * T + (k - 1) * S
      <4>1. out[j] = (first - r.total) * T + r.next + (j - 1) * S
        BY <1>4, <2>1
      <4>2. utterance'[k].instant = out[j]
        BY <1>5, <3>2
      <4>3. k - 1 = L + (j - 1) /\ j - 1 \in Int
        BY <1>6, <3>2
      <4>4. (k - 1) * S = L * S + (j - 1) * S
        BY <1>6, <1>p, <4>3, TimesDistributes
      <4>5. r.next = L * S
        BY <2>1, <2>2
      <4>6. L * S \in Int /\ (j - 1) * S \in Int /\ (first - r.total) * T \in Int
        <5>1. r.total \in Int
          BY <1>2 DEF Stands, ResamplerReset
        <5> QED
          BY <1>2, <1>6, <1>p, <4>3, <5>1
      <4> QED
        BY <4>1, <4>2, <4>4, <4>5, <4>6
    <3> QED
      BY <1>s, <3>1, <3>2
  <2> QED
    BY <2>4, <2>5
<1> QED
  BY <1>7, <1>8, <1>9, <1>10, <1>11

LEMMA InstantsAre ==
  ASSUME NEW u \in Seq(SampleRecords),
         NEW s, s = [k \in DOMAIN u |-> u[k].instant]
  PROVE  s \in Seq(Nat) /\ Len(s) = Len(u) /\ \A k \in 1 .. Len(u) : s[k] = u[k].instant
<1>1. Len(u) \in Nat /\ DOMAIN u = 1 .. Len(u)
  BY LenProperties
<1>2. \A k \in 1 .. Len(u) : u[k].instant \in Nat
  <2> TAKE k \in 1 .. Len(u)
  <2>1. u[k] \in SampleRecords
    BY ElementOfSeq
  <2> QED
    BY <2>1 DEF SampleRecords
<1> QED
  BY <1>1, <1>2

(* The tap gets the whole block, the utterance what its limit accepts.        *)
LEMMA ProcessKeepsTap ==
  ASSUME AudioInv, Process
  PROVE  TapFollows' /\ ThreadKnows'
<1> DEFINE out == Resampled.out
           L == Len(utterance)
           N == Len(out)
           s == Instants
<1>i. WorkerTyped /\ LimitHolds /\ TapFollows /\ ThreadKnows /\ StreamTyped
  BY DEF AudioInv
<1>1. /\ pc = "process" /\ pc' = "pop" /\ UNCHANGED <<plan, device, outcome>>
      /\ tap' = IF device = "open" THEN tap \o out ELSE tap
  BY DEF Process, Rest
<1>2. PICK taken \in Nat : Appends(out, taken)
  BY ProcessAppends
<1> HIDE DEF out
<1>3. /\ out \in Seq(Nat) /\ taken <= N /\ (taken = N \/ L + taken = UtteranceLimit(plan))
      /\ L + taken <= UtteranceLimit(plan)
      /\ utterance' \in Seq(SampleRecords) /\ Len(utterance') = L + taken
      /\ \A k \in 1 .. L : utterance'[k] = utterance[k]
      /\ rejected' = rejected + (N - taken)
      /\ utterance \in Seq(SampleRecords) /\ tap \in Seq(Nat) /\ rejected \in Nat
  BY <1>2, <1>i DEF Appends, WorkerTyped
<1>4. L \in Nat /\ N \in Nat
  BY <1>3, LenProperties
<1>5. \A k \in 1 .. taken : utterance'[L + k].instant = out[k]
  <2> TAKE k \in 1 .. taken
  <2>1. utterance'[L + k] = [instant |-> out[k], index |-> produced + k - 1,
                             source |-> block.frames[1]]
    BY <1>2 DEF Appends
  <2> QED
    BY <2>1
<1>6. /\ s \in Seq(Nat) /\ Len(s) = L /\ \A k \in 1 .. L : s[k] = utterance[k].instant
  BY <1>3, InstantsAre DEF Instants
<1>7. /\ s' \in Seq(Nat) /\ Len(s') = L + taken
      /\ \A k \in 1 .. L + taken : s'[k] = utterance'[k].instant
  <2>1. s' = [k \in DOMAIN utterance' |-> utterance'[k].instant]
    BY DEF Instants
  <2>2. /\ s' \in Seq(Nat) /\ Len(s') = Len(utterance')
        /\ \A k \in 1 .. Len(utterance') : s'[k] = utterance'[k].instant
    BY <1>3, <2>1, InstantsAre
  <2> QED
    BY <1>3, <2>2
<1> HIDE DEF L, N, s
<1>8. /\ \A k \in 1 .. L : s'[k] = s[k]
      /\ \A k \in 1 .. taken : s'[L + k] = out[k]
  <2>1. ASSUME NEW k \in 1 .. L PROVE s'[k] = s[k]
    <3>1. k \in 1 .. L + taken
      BY <1>4
    <3> QED
      BY <1>3, <1>6, <1>7, <3>1
  <2>2. ASSUME NEW k \in 1 .. taken PROVE s'[L + k] = out[k]
    <3>1. L + k \in 1 .. L + taken
      BY <1>4
    <3> QED
      BY <1>5, <1>7, <3>1
  <2> QED
    BY <2>1, <2>2
<1>9. rejected > 0 => taken = 0
  <2>1. rejected > 0 => L = UtteranceLimit(plan)
    BY <1>i DEF LimitHolds, LimitIsNamed, L
  <2>2. UtteranceLimit(plan) \in Nat
    BY <1>i, PlanFacts DEF StreamTyped
  <2> QED
    BY <1>3, <1>4, <2>1, <2>2
<1> DEFINE M == Len(tap)
<1>10. /\ M \in Nat
       /\ device = "open" =>
            /\ tap' \in Seq(Nat) /\ Len(tap') = M + N
            /\ \A k \in 1 .. M : tap'[k] = tap[k]
            /\ \A k \in 1 .. N : tap'[M + k] = out[k]
  <2>1. M \in Nat
    BY <1>3, LenProperties
  <2>2. /\ tap \o out \in Seq(Nat) /\ Len(tap \o out) = M + N
        /\ \A k \in 1 .. M + N : (tap \o out)[k] = IF k <= M THEN tap[k] ELSE out[k - M]
    BY <1>3, ConcatProperties DEF N
  <2> HIDE DEF M
  <2>3. \A k \in 1 .. M : (tap \o out)[k] = tap[k]
    BY <1>4, <2>1, <2>2
  <2>4. ASSUME NEW k \in 1 .. N PROVE (tap \o out)[M + k] = out[k]
    <3>1. M + k \in 1 .. M + N /\ ~(M + k <= M) /\ (M + k) - M = k
      BY <1>4, <2>1
    <3> QED
      BY <2>2, <3>1
  <2> QED
    BY <1>1, <2>1, <2>2, <2>3, <2>4
<1>11. /\ device = "open" /\ rejected = 0 => tap = s
       /\ device = "open" => Begins(s, tap)
       /\ Begins(tap, s) \/ (rejected > 0 /\ Begins(s, tap))
  BY <1>i DEF TapFollows, s
<1>e. ASSUME rejected > 0 PROVE L + taken = L /\ s' = s
  <2>1. taken = 0 /\ L + taken = L
    BY <1>4, <1>9, <1>e
  <2>2. Len(s') = Len(s) /\ \A k \in 1 .. Len(s') : s'[k] = s[k]
    BY <1>6, <1>7, <1>8, <2>1
  <2>3. s' = s
    BY <1>6, <1>7, <2>2, SeqEqual
  <2> QED
    BY <2>1, <2>3
<1>12. ASSUME device = "open", rejected' = 0 PROVE tap' = s'
  <2>1. rejected = 0 /\ taken = N
    BY <1>3, <1>4, <1>12
  <2>2. tap = s /\ M = L
    BY <1>6, <1>11, <1>12, <2>1
  <2>3. \A k \in 1 .. L + taken : tap'[k] = s'[k]
    <3> TAKE k \in 1 .. L + taken
    <3>1. CASE k <= L
      <4>1. k \in 1 .. L
        BY <1>4, <3>1
      <4> QED
        BY <1>8, <1>10, <1>12, <2>2, <4>1
    <3>2. CASE k > L
      <4>1. k - L \in 1 .. taken /\ L + (k - L) = k
        BY <1>4, <3>2
      <4>2. s'[L + (k - L)] = out[k - L]
        BY <1>8, <4>1
      <4>3. tap'[M + (k - L)] = out[k - L]
        BY <1>10, <1>12, <2>1, <4>1
      <4> QED
        BY <2>2, <4>1, <4>2, <4>3
    <3>3. k <= L \/ k > L
      BY <1>4
    <3> QED
      BY <3>1, <3>2, <3>3
  <2>4. Len(tap') = L + taken /\ tap' \in Seq(Nat)
    BY <1>10, <1>12, <2>1, <2>2
  <2>5. /\ s' \in Seq(Nat) /\ Len(s') = L + taken
        /\ \A k \in 1 .. Len(tap') : tap'[k] = s'[k]
    BY <1>7, <2>3, <2>4
  <2> QED
    BY <2>4, <2>5, SeqEqual
<1> HIDE DEF M
<1>13. ASSUME device = "open" PROVE Begins(s', tap')
  <2>1. CASE rejected' = 0
    <3>1. tap' = s'
      BY <1>12, <1>13, <2>1
    <3>2. Len(s') <= Len(s')
      BY <1>4, <1>7
    <3> QED
      BY <3>1, <3>2 DEF Begins
  <2>2. CASE rejected = 0 /\ rejected' # 0
    <3>1. tap = s /\ M = L
      BY <1>6, <1>11, <1>13, <2>2 DEF M
    <3>2. ASSUME NEW k \in 1 .. L + taken PROVE tap'[k] = s'[k]
      <4>1. CASE k <= L
        <5>1. k \in 1 .. L
          BY <1>4, <4>1
        <5> QED
          BY <1>8, <1>10, <1>13, <3>1, <5>1
      <4>2. CASE k > L
        <5>1. k - L \in 1 .. taken /\ k - L \in 1 .. N /\ L + (k - L) = k
          BY <1>3, <1>4, <4>2
        <5> QED
          BY <1>8, <1>10, <1>13, <3>1, <5>1
      <4> QED
        BY <1>4, <4>1, <4>2
    <3>3. Len(s') <= Len(tap')
      BY <1>3, <1>4, <1>7, <1>10, <1>13, <3>1
    <3> QED
      BY <1>7, <3>2, <3>3 DEF Begins
  <2>3. CASE rejected # 0
    <3>1. s' = s /\ Begins(s, tap)
      BY <1>3, <1>e, <1>11, <1>13, <2>3
    <3>2. Len(s) <= M /\ \A k \in 1 .. L : s[k] = tap[k]
      BY <1>6, <3>1 DEF Begins, M
    <3>3. Len(s) <= Len(tap') /\ \A k \in 1 .. L : s[k] = tap'[k]
      <4>1. L <= M /\ \A k \in 1 .. L : k \in 1 .. M
        BY <1>4, <1>6, <1>10, <3>2
      <4>2. Len(tap') = M + N /\ L <= M + N
        BY <1>4, <1>10, <1>13, <4>1
      <4> QED
        BY <1>6, <1>10, <1>13, <3>2, <4>1, <4>2
    <3> QED
      BY <1>6, <3>1, <3>3 DEF Begins
  <2> QED
    BY <2>1, <2>2, <2>3
<1>14. Begins(tap', s') \/ (rejected' > 0 /\ Begins(s', tap'))
  <2>1. CASE device = "open" /\ rejected' = 0
    <3>1. tap' = s' /\ Len(s') <= Len(s')
      BY <1>4, <1>7, <1>12, <2>1
    <3> QED
      BY <3>1 DEF Begins
  <2>2. CASE device = "open" /\ rejected' # 0
    <3>1. rejected' > 0
      BY <1>3, <1>4, <2>2
    <3> QED
      BY <1>13, <2>2, <3>1
  <2>3. CASE device # "open"
    <3>1. tap' = tap
      BY <1>1, <2>3
    <3>2. CASE Begins(tap, s)
      <4>1. M <= L /\ \A k \in 1 .. M : tap[k] = s[k]
        BY <1>6, <3>2 DEF Begins, M
      <4>2. M <= L + taken /\ \A k \in 1 .. M : tap[k] = s'[k]
        BY <1>4, <1>8, <1>10, <4>1
      <4> QED
        BY <1>7, <3>1, <4>2 DEF Begins, M
    <3>3. CASE rejected > 0 /\ Begins(s, tap)
      <4>1. s' = s /\ rejected' > 0
        BY <1>3, <1>4, <1>e, <3>3
      <4> QED
        BY <3>1, <3>3, <4>1
    <3> QED
      BY <1>11, <3>2, <3>3
  <2> QED
    BY <2>1, <2>2, <2>3
<1>15. TapFollows'
  BY <1>1, <1>12, <1>13, <1>14 DEF TapFollows, s
<1>16. ThreadKnows'
  <2>1. ~Captured'
    BY <1>1, <1>i DEF ThreadKnows, Captured
  <2> QED
    BY <1>1, <2>1 DEF ThreadKnows
<1> QED
  BY <1>15, <1>16

LEMMA ProcessKeepsInv ==
  ASSUME AudioInv, Process
  PROVE  AudioInv'
BY ProcessKeepsRing, ProcessKeepsSamples, ProcessKeepsTap DEF AudioInv

-----------------------------------------------------------------------------
(* The invariant *)

LEMMA InitAudio == Init => AudioInv
<1> SUFFICES ASSUME Init PROVE AudioInv
  OBVIOUS
<1>0. /\ Slots \in Nat \ {0} /\ MaxFrames \in Nat /\ Marks # {} /\ plan \in Plans
      /\ UtteranceLimit(plan) \in Nat
  BY AudioAssumption, PlanFacts DEF Init, Marks
<1>1. /\ Written = 0 /\ consumed = 0 /\ published = 0 /\ cb.at = "idle" /\ cb.marks = {}
      /\ FrameBefore(Written) = Unknown /\ FrameBefore(0) = Unknown
  BY DEF Init, Written, FrameBefore, Idle, ResamplerReset
<1>2. StreamTyped
  <2>1. Empty \in Blocks
    BY EmptySeq DEF Empty, Blocks
  <2>2. slots \in [0 .. Slots - 1 -> Blocks]
    BY <2>1 DEF Init
  <2>3. cb \in CallbackStates
    BY DEF Init, Idle, CallbackStates
  <2>4. nextFrame \in 0 .. MaxFrames /\ expected \in {Unknown} \cup 0 .. nextFrame
    BY <1>0 DEF Init
  <2>5. pending \subseteq Marks /\ offered \subseteq 0 .. nextFrame - 1
    BY DEF Init
  <2>6. device \in {"closed", "open"} /\ faulted \in BOOLEAN
    BY DEF Init
  <2>7. published \in Nat /\ consumed \in Nat /\ consumed <= published
        /\ Written <= consumed + Slots
    BY <1>0, <1>1
  <2> QED
    BY <1>0, <2>2, <2>3, <2>4, <2>5, <2>6, <2>7 DEF StreamTyped
<1>3. WorkerTyped
  BY EmptySeq DEF Init, WorkerTyped, Running
<1>4. CountersAgree
  BY <1>1 DEF Init, CountersAgree
<1>5. BlocksFollow
  BY <1>1 DEF BlocksFollow
<1>6. CallbackFollows
  BY <1>1 DEF Init, CallbackFollows, Unknown
<1>7. ResamplerStands
  BY DEF Init, ResamplerStands, Stands, ResamplerReset
<1>u. utterance = <<>> /\ Len(utterance) = 0 /\ Range(utterance) = {} /\ rejected = 0
      /\ produced = 0 /\ tap = <<>> /\ Instants = <<>>
  BY DEF Init, Range, Instants
<1>8. SamplesAreOrdered /\ NoAudioAcrossABreak /\ LimitHolds
  BY <1>0, <1>u DEF SamplesAreOrdered, NoAudioAcrossABreak, LimitHolds, LimitIsNamed
<1>9. StepsAreEven
  <2>1. 0 * plan.source = 0
    BY <1>0, PlanFacts
  <2> QED
    BY <1>u, <2>1 DEF Init, StepsAreEven, ResamplerReset
<1>10. OfferedIsOneRun
  BY <1>1 DEF Init, OfferedIsOneRun
<1>11. TapFollows
  <2>1. Begins(<<>>, <<>>)
    BY DEF Begins
  <2> QED
    BY <1>u, <2>1 DEF TapFollows
<1>12. ThreadKnows
  BY <1>u DEF Init, ThreadKnows, Captured, Running
<1> QED
  BY <1>2, <1>3, <1>4, <1>5, <1>6, <1>7, <1>8, <1>9, <1>10, <1>11, <1>12 DEF AudioInv

LEMMA StepAudio == AudioInv /\ [Next]_vars => AudioInv'
<1> SUFFICES ASSUME AudioInv, [Next]_vars PROVE AudioInv'
  OBVIOUS
<1>b. stop \in BOOLEAN /\ late \in BOOLEAN
  BY DEF AudioInv, WorkerTyped
<1>1. ASSUME NEW count \in Callbacks, Deliver(count) PROVE AudioInv'
  BY <1>1, DeliverKeepsInv
<1>2. CASE DeliverMalformed(1)
  BY <1>2, DeliverMalformedKeepsInv
<1>3. CASE Callback
  BY <1>3, DropRestKeepsInv, FillSlotKeepsInv, PublishSlotKeepsInv DEF Callback
<1>4. CASE ErrorCallback
  BY <1>4, ErrorCallbackKeepsInv
<1>5. CASE Thread
  BY <1>5, OpenStreamKeepsInv, LoopTestKeepsInv, PopKeepsInv, NothingQueuedKeepsInv,
     ProcessKeepsInv, PollFaultKeepsInv, CloseStreamKeepsInv, JudgeKeepsInv DEF Thread
<1>6. CASE pc # "done" /\ (RequestStop \/ DeadlinePasses)
  <2>1. Elsewhere /\ stop' \in BOOLEAN /\ late' \in BOOLEAN
    BY <1>6, <1>b DEF RequestStop, DeadlinePasses
  <2> QED
    BY <2>1, ElsewhereKeepsInv
<1>7. CASE Finished \/ UNCHANGED vars
  <2>1. Elsewhere /\ stop' \in BOOLEAN /\ late' \in BOOLEAN
    BY <1>7, <1>b DEF Finished, vars, Elsewhere
  <2> QED
    BY <2>1, ElsewhereKeepsInv
<1> QED
  BY <1>1, <1>2, <1>3, <1>4, <1>5, <1>6, <1>7 DEF Next

LEMMA AudioInvHolds == Spec => []AudioInv
  BY InitAudio, StepAudio, PTL DEF Spec

-----------------------------------------------------------------------------
(* What follows *)

(* Division by a known quotient. *)
LEMMA QuotientIs ==
  ASSUME NEW a \in Nat, NEW b \in Nat \ {0}, NEW q \in Nat, q * b <= a, a < q * b + b
  PROVE  a \div b = q
<1> DEFINE c == a \div b
<1>1. c \in Nat /\ c * b <= a /\ a < c * b + b
  BY Quotient
<1> HIDE DEF c
<1>2. (q + 1) * b = q * b + b /\ (c + 1) * b = c * b + b /\ q * b \in Nat /\ c * b \in Nat
  <2>1. (q + 1) * b = q * b + 1 * b /\ (c + 1) * b = c * b + 1 * b /\ 1 * b = b
    BY <1>1, TimesDistributes
  <2>2. q * b \in Nat /\ c * b \in Nat
    BY <1>1
  <2> QED
    BY <2>1, <2>2
<1>3. ~(q + 1 <= c)
  <2>1. q + 1 <= c => (q + 1) * b <= c * b
    BY <1>1, TimesKeepsOrder
  <2> QED
    BY <1>1, <1>2, <2>1
<1>4. ~(c + 1 <= q)
  <2>1. c + 1 <= q => (c + 1) * b <= q * b
    BY <1>1, TimesKeepsOrder
  <2> QED
    BY <1>1, <1>2, <2>1
<1> QED
  BY <1>1, <1>3, <1>4 DEF c

(* No issue, no code: every issue has one. *)
LEMMA IssueIsCoded ==
  ASSUME NEW found \in SUBSET Issues, IssueCode(found) = "none"
  PROVE  found = {}
<1> DEFINE order == <<"queue", "discontinuity", "duration", "bytes", "capacity">>
           there == {i \in 1 .. 5 : order[i] \in found}
<1>1. there # {} => Least(there) \in 1 .. 5
  BY LeastExists
<1>2. \A i \in 1 .. 5 : order[i] # "none"
  OBVIOUS
<1>3. there = {}
  BY <1>1, <1>2 DEF IssueCode
<1>4. \A x \in Issues : \E i \in 1 .. 5 : order[i] = x
  <2>1. order[1] = "queue" /\ order[2] = "discontinuity" /\ order[3] = "duration"
        /\ order[4] = "bytes" /\ order[5] = "capacity"
    OBVIOUS
  <2> HIDE DEF order
  <2> QED
    BY <2>1 DEF Issues
<1> QED
  BY <1>3, <1>4

(* A capture that is over has no callback running and nothing queued. *)
LEMMA CapturedIsQuiet ==
  ASSUME AudioInv, Captured
  PROVE  /\ cb.at = "idle" /\ Written = consumed /\ consumed = published /\ utterance # <<>>
         /\ outcome.note = IssueCode(issues) /\ (overflows > 0 => "queue" \in issues)
<1>1. /\ device = "closed" /\ consumed = published /\ utterance # <<>>
      /\ outcome.note = IssueCode(issues) /\ (overflows > 0 => "queue" \in issues)
  BY DEF AudioInv, ThreadKnows
<1>2. cb.at = "idle"
  BY <1>1 DEF AudioInv, CallbackFollows
<1> QED
  BY <1>1, <1>2 DEF Written

(* A recording without a note had no mark and no limit, so what was offered is *)
(* one run and the utterance its samples at even steps.                       *)
LEMMA NothingLost == AudioInv => NothingIsLostSilently
<1> SUFFICES ASSUME AudioInv, Captured, outcome.note = "none"
             PROVE  \E last \in offered :
                        LET first == Least(offered)
                        IN offered = first .. last /\ Instants = Uniform(first, last, plan)
  BY DEF NothingIsLostSilently
<1> DEFINE T == plan.target
           S == plan.source
           L == Len(utterance)
           last == resampler.previous
           first == Origin
<1>i. /\ StreamTyped /\ WorkerTyped /\ CountersAgree /\ ResamplerStands /\ SamplesAreOrdered
      /\ LimitHolds /\ StepsAreEven /\ OfferedIsOneRun
  BY DEF AudioInv
<1>1. /\ cb.at = "idle" /\ Written = consumed /\ consumed = published /\ utterance # <<>>
      /\ IssueCode(issues) = "none" /\ (overflows > 0 => "queue" \in issues)
  BY CapturedIsQuiet
<1>2. issues = {} /\ overflows = 0 /\ rejected = 0
  <2>1. issues = {}
    BY <1>1, <1>i, IssueIsCoded DEF WorkerTyped
  <2>2. LimitIssues(plan) # {}
    BY <1>i, PlanFacts DEF StreamTyped
  <2> QED
    BY <1>1, <1>i, <2>1, <2>2 DEF CountersAgree, LimitHolds, LimitIsNamed, WorkerTyped
<1>3. L \in Nat \ {0} /\ utterance \in Seq(SampleRecords)
  BY <1>1, <1>i, EmptySeq DEF WorkerTyped
<1>4. last # Unknown
  <2>1. 1 \in 1 .. L
    BY <1>3
  <2> QED
    BY <1>i, <2>1 DEF SamplesAreOrdered
<1>5. /\ last \in Nat /\ resampler.total \in Nat \ {0} /\ resampler.next \in Nat
      /\ resampler.total <= last + 1 /\ last \in offered
      /\ (resampler.total - 1) * T < resampler.next
      /\ resampler.next <= (resampler.total - 1) * T + S
  BY <1>4, <1>i DEF ResamplerStands, Stands
<1>6. Unmarked
  <2>1. consumed \in Nat
    BY <1>i DEF StreamTyped
  <2> QED
    BY <1>1, <1>2, <2>1 DEF Unmarked
<1>7. offered = first .. last
  <2>1. FirstFrame = first /\ LastFrame = last
    BY <1>1, <1>4 DEF FirstFrame, LastFrame, FrameBefore
  <2> QED
    BY <1>5, <1>6, <1>i, <2>1 DEF OfferedIsOneRun
<1>8. first \in Nat /\ first <= last /\ last - first = resampler.total - 1
  BY <1>5 DEF Origin
<1>9. Least(offered) = first
  <2>1. offered \in SUBSET Nat /\ offered # {} /\ first \in offered
    BY <1>5, <1>7, <1>8
  <2>2. Least(offered) \in offered /\ Least(offered) <= first
    BY <2>1, LeastExists
  <2> HIDE DEF first
  <2> QED
    BY <1>7, <1>8, <2>2
<1> HIDE DEF first, last
<1>10. /\ T \in Nat \ {0} /\ S \in Nat \ {0}
       /\ resampler.next = L * S
       /\ \A k \in 1 .. L : utterance[k].instant = first * T + (k - 1) * S
  BY <1>2, <1>i, PlanFacts DEF StepsAreEven, StreamTyped, first
<1> HIDE DEF T, S, L
<1>11. ((last - first) * T) \div S + 1 = L
  <2> DEFINE a == (last - first) * T
  <2>1. a \in Nat /\ a < L * S /\ L * S <= a + S
    <3>1. a = (resampler.total - 1) * T /\ resampler.total - 1 \in Nat
      BY <1>5, <1>8
    <3>2. a \in Nat
      BY <1>10, <3>1
    <3> QED
      BY <1>5, <1>10, <3>1, <3>2
  <2>2. (L - 1) * S = L * S - S /\ L - 1 \in Nat /\ L * S \in Nat
    <3>1. (L - 1) * S = L * S - 1 * S /\ 1 * S = S
      BY <1>3, <1>10, TimesDistributes
    <3>2. L \in Nat /\ L - 1 \in Nat
      BY <1>3
    <3> QED
      BY <1>10, <3>1, <3>2
  <2> HIDE DEF a
  <2>3. (L - 1) * S <= a /\ a < (L - 1) * S + S
    BY <1>10, <2>1, <2>2
  <2>4. a \div S = L - 1
    BY <1>10, <2>1, <2>2, <2>3, QuotientIs
  <2>5. a \div S + 1 = L
    BY <1>3, <2>4
  <2> QED
    BY <2>5 DEF a
<1>12. Instants = Uniform(first, last, plan)
  <2>1. DOMAIN utterance = 1 .. L
    BY <1>3, LenProperties DEF L
  <2>2. Instants = [k \in 1 .. L |-> utterance[k].instant]
    BY <2>1 DEF Instants
  <2>3. Instants = [k \in 1 .. L |-> first * T + (k - 1) * S]
    BY <1>10, <2>2
  <2>4. Uniform(first, last, plan) = [k \in 1 .. L |-> first * T + (k - 1) * S]
    BY <1>11 DEF Uniform, T, S
  <2> QED
    BY <2>3, <2>4
<1> QED
  BY <1>5, <1>7, <1>9, <1>12 DEF last

LEMMA FramesAccounted == AudioInv => EveryFrameIsAccountedFor
<1> SUFFICES ASSUME AudioInv, Captured
             PROVE  /\ received = enqueued + dropped /\ consumed = published
                    /\ produced = Len(utterance) + rejected
  BY DEF EveryFrameIsAccountedFor
<1>1. cb.at = "idle" /\ consumed = published
  BY CapturedIsQuiet
<1> QED
  BY <1>1 DEF AudioInv, CountersAgree, LimitHolds

LEMMA OrderSpoken == AudioInv => SpokenInOrder
<1> SUFFICES ASSUME AudioInv, NEW k \in 1 .. Len(utterance) - 1
             PROVE  /\ utterance[k].instant < utterance[k + 1].instant
                    /\ utterance[k + 1].index = utterance[k].index + 1
  BY DEF SpokenInOrder
<1>1. Len(utterance) \in Nat
  BY LenProperties DEF AudioInv, WorkerTyped
<1>2. k \in 1 .. Len(utterance) /\ k + 1 \in 1 .. Len(utterance) /\ k < Len(utterance)
  BY <1>1
<1>3. utterance[k].index = k - 1 /\ utterance[k + 1].index = (k + 1) - 1
      /\ utterance[k].instant < utterance[k + 1].instant
  BY <1>2 DEF AudioInv, SamplesAreOrdered
<1> QED
  BY <1>3

LEMMA BlockFits == AudioInv => ResampledFits
<1> SUFFICES ASSUME AudioInv, pc = "process"
             PROVE  Len(Resampled.out) <= ResampledCapacity(plan, BlockFrames)
  BY DEF ResampledFits
<1>1. /\ OutOfRun(ResamplerFor, block.frames, Resampled)
      /\ Len(block.frames) \in Nat /\ Len(block.frames) <= BlockFrames
  BY PoppedBlock
<1> QED
  BY <1>1, OutputFits DEF AudioInv, StreamTyped

(* A sequence that begins another is a prefix of it. *)
LEMMA BeginsIsPrefix ==
  ASSUME NEW s \in Seq(Nat), NEW t \in Seq(Nat), Begins(s, t)
  PROVE  IsPrefix(s, t)
<1> DEFINE n == Len(s)
<1>1. n \in Nat /\ n <= Len(t) /\ Len(t) \in Nat /\ \A k \in 1 .. n : s[k] = t[k]
  BY LenProperties DEF Begins
<1>2. \A k \in 1 .. n : s[k] \in Nat /\ t[k] \in Nat
  <2> TAKE k \in 1 .. n
  <2>1. k \in 1 .. Len(s) /\ s[k] = t[k]
    BY <1>1
  <2>2. s[k] \in Nat
    BY <2>1, ElementOfSeq
  <2> QED
    BY <2>1, <2>2
<1> HIDE DEF n
<1>3. /\ SubSeq(s, 1, n) \in Seq(Nat) /\ Len(SubSeq(s, 1, n)) = n
      /\ \A k \in 1 .. n : SubSeq(s, 1, n)[k] = s[k]
  <2>1. /\ SubSeq(s, 1, n) \in Seq(Nat) /\ Len(SubSeq(s, 1, n)) = IF 1 <= n THEN n - 1 + 1 ELSE 0
        /\ \A k \in 1 .. n - 1 + 1 : SubSeq(s, 1, n)[k] = s[1 + k - 1]
    BY <1>1, <1>2, SubSeqProperties
  <2>2. (IF 1 <= n THEN n - 1 + 1 ELSE 0) = n /\ n - 1 + 1 = n
        /\ \A k \in 1 .. n : 1 + k - 1 = k
    BY <1>1
  <2> QED
    BY <2>1, <2>2
<1>4. /\ SubSeq(t, 1, n) \in Seq(Nat) /\ Len(SubSeq(t, 1, n)) = n
      /\ \A k \in 1 .. n : SubSeq(t, 1, n)[k] = t[k]
  <2>1. /\ SubSeq(t, 1, n) \in Seq(Nat) /\ Len(SubSeq(t, 1, n)) = IF 1 <= n THEN n - 1 + 1 ELSE 0
        /\ \A k \in 1 .. n - 1 + 1 : SubSeq(t, 1, n)[k] = t[1 + k - 1]
    BY <1>1, <1>2, SubSeqProperties
  <2>2. (IF 1 <= n THEN n - 1 + 1 ELSE 0) = n /\ n - 1 + 1 = n
        /\ \A k \in 1 .. n : 1 + k - 1 = k
    BY <1>1
  <2> QED
    BY <2>1, <2>2
<1>5. SubSeq(s, 1, n) = SubSeq(t, 1, n)
  BY <1>1, <1>3, <1>4, SeqEqual
<1> QED
  BY <1>1, <1>5 DEF IsPrefix, n

(* At the end the tap is within the utterance, or the limit cut the utterance. *)
LEMMA TapHeard == AudioInv => TapHearsTheUtterance
<1> SUFFICES ASSUME AudioInv
             PROVE  IsPrefix(tap, Instants) \/ (rejected > 0 /\ IsPrefix(Instants, tap))
  BY DEF TapHearsTheUtterance
<1>1. utterance \in Seq(SampleRecords) /\ tap \in Seq(Nat)
  BY DEF AudioInv, WorkerTyped
<1>2. Instants \in Seq(Nat)
  BY <1>1, InstantsAre DEF Instants
<1>3. Begins(tap, Instants) \/ (rejected > 0 /\ Begins(Instants, tap))
  BY DEF AudioInv, TapFollows
<1> QED
  BY <1>1, <1>2, <1>3, BeginsIsPrefix

(* No sample lies after the last frame offered. *)
LEMMA SamplesAreTyped ==
  ASSUME AudioInv
  PROVE  Range(utterance) \subseteq Samples
<1> SUFFICES ASSUME NEW sample \in Range(utterance) PROVE sample \in Samples
  OBVIOUS
<1>0. /\ MaxFrames \in Nat /\ plan.target \in Nat \ {0}
      /\ utterance \in Seq(SampleRecords) /\ nextFrame \in 0 .. MaxFrames
      /\ offered \subseteq 0 .. nextFrame - 1
  BY AudioAssumption, PlanFacts DEF AudioInv, StreamTyped, WorkerTyped
<1>1. PICK k \in 1 .. Len(utterance) : sample = utterance[k]
  BY <1>0, LenProperties DEF Range
<1>2. sample \in SampleRecords
  BY <1>0, <1>1, ElementOfSeq
<1>3. /\ resampler.previous # Unknown
      /\ sample.instant <= resampler.previous * plan.target
  BY <1>1 DEF AudioInv, SamplesAreOrdered
<1>4. resampler.previous \in offered
  BY <1>3 DEF AudioInv, ResamplerStands
<1>o. \A f \in offered : f \in Nat /\ f <= MaxFrames
  <2> TAKE f \in offered
  <2>1. nextFrame \in Nat /\ nextFrame <= MaxFrames /\ f \in 0 .. nextFrame - 1
    BY <1>0
  <2> QED
    BY <1>0, <2>1
<1>5. resampler.previous \in Nat /\ resampler.previous <= MaxFrames
  BY <1>4, <1>o
<1>6. resampler.previous * plan.target <= MaxFrames * plan.target
  BY <1>0, <1>5, TimesKeepsOrder
<1>7. sample.instant \in 0 .. MaxFrames * plan.target
  <2>1. resampler.previous * plan.target \in Nat /\ MaxFrames * plan.target \in Nat
    BY <1>0, <1>5
  <2>2. sample.instant \in Nat
    BY <1>2 DEF SampleRecords
  <2> QED
    BY <1>3, <1>6, <2>1, <2>2
<1>8. sample.source \in 0 .. MaxFrames
  <2>1. /\ CeilDiv(sample.instant, plan.target) \in offered
        /\ CeilDiv(sample.instant, plan.target) >= sample.source
    BY DEF AudioInv, NoAudioAcrossABreak
  <2>2. sample.source \in Nat
    BY <1>2 DEF SampleRecords
  <2>3. /\ CeilDiv(sample.instant, plan.target) \in Nat
        /\ CeilDiv(sample.instant, plan.target) <= MaxFrames
    BY <2>1, <1>o
  <2> QED
    BY <1>0, <2>1, <2>2, <2>3
<1> QED
  BY <1>2, <1>7, <1>8 DEF Samples, SampleRecords

(* The invariant bounds every variable. *)
LEMMA AudioTyped == AudioInv => TypeOK
<1> SUFFICES ASSUME AudioInv PROVE TypeOK
  OBVIOUS
<1>0. MaxFrames \in Nat /\ Slots \in Nat
  BY AudioAssumption
<1>1. StreamTyped /\ WorkerTyped /\ CountersAgree /\ cb \in CallbackStates
  BY DEF AudioInv, StreamTyped
<1>2. nextFrame \in 0 .. MaxFrames
  BY <1>1 DEF StreamTyped
<1>3. received \in 0 .. MaxFrames /\ enqueued \in 0 .. MaxFrames /\ dropped \in 0 .. MaxFrames
  <2>1. cb.at # "idle" => cb.count - cb.done >= 0
    BY <1>1 DEF AudioInv, CallbackFollows, CallbackStates
  <2>2. /\ received \in Nat /\ enqueued \in Nat /\ dropped \in Nat /\ received <= nextFrame
        /\ received = enqueued + dropped
                        + (IF cb.at = "idle" THEN 0 ELSE cb.count - cb.done)
    BY <1>1 DEF CountersAgree
  <2>3. cb.count \in Nat /\ cb.done \in Nat
    BY <1>1 DEF CallbackStates
  <2>4. enqueued + dropped <= received
    BY <2>1, <2>2, <2>3
  <2> QED
    BY <1>0, <1>2, <2>2, <2>4
<1>4. {overflows, published, consumed, produced, rejected} \subseteq Nat
  BY <1>1 DEF CountersAgree, StreamTyped, WorkerTyped
<1>5. expected \in {Unknown} \cup 0 .. MaxFrames /\ pending \subseteq Marks
  BY <1>0, <1>1, <1>2 DEF StreamTyped
<1>6. cb.at \in {"idle", "check", "publish"} /\ cb.marks \subseteq Marks
  BY <1>1 DEF CallbackStates
<1>7. published - consumed \in 0 .. Slots
  <2>1. /\ published \in Nat /\ consumed \in Nat /\ consumed <= published
        /\ Written <= consumed + Slots
    BY <1>1 DEF StreamTyped
  <2>2. published <= Written
    BY <2>1 DEF Written
  <2>3. Written \in Nat
    BY <2>1 DEF Written
  <2> QED
    BY <1>0, <2>1, <2>2, <2>3
<1>8. Range(utterance) \subseteq Samples
  BY SamplesAreTyped
<1>9. offered \subseteq 0 .. MaxFrames - 1
  BY <1>0, <1>1, <1>2 DEF StreamTyped
<1>10. Len(utterance) <= UtteranceLimit(plan)
  BY DEF AudioInv, LimitHolds
<1>11. /\ plan \in Plans /\ device \in {"closed", "open"}
       /\ {faulted, stop, late} \subseteq BOOLEAN
       /\ pc \in {"open", "loop", "pop", "process", "poll", "close", "judge", "done"}
       /\ issues \subseteq Issues /\ outcome.result \in {Running, "captured", "failed"}
  BY <1>1 DEF StreamTyped, WorkerTyped
<1> QED
  BY <1>2, <1>3, <1>4, <1>5, <1>6, <1>7, <1>8, <1>9, <1>10, <1>11 DEF TypeOK

-----------------------------------------------------------------------------
(* The theorems *)

(* Every value of a capture stays in its type: the ring never holds more      *)
(* blocks than its slots, the counters never more frames than the device      *)
(* gave, and the utterance never more samples than the plan's limit.          *)
THEOREM AudioIsTyped == Spec => []TypeOK
BY AudioInvHolds, AudioTyped, PTL

(* Whatever audio is lost between the device's callback and the retained      *)
(* utterance is known: a captured recording without a note holds every frame  *)
(* offered, at even steps of the target rate; every frame is counted as taken *)
(* or dropped and every sample as kept or rejected; and a limit that refused  *)
(* samples is named.                                                          *)
THEOREM LossesAreKnown == Spec => []LossIsKnown
<1>1. AudioInv => LossIsKnown
  BY NothingLost, FramesAccounted DEF LossIsKnown, AudioInv, LimitHolds
<1> QED
  BY <1>1, AudioInvHolds, PTL

(* The utterance is what was spoken: its samples are in order and numbered    *)
(* without a hole, none is interpolated across a break the ring marked, the   *)
(* resampled block always fits its scratch buffer, and the streaming tap      *)
(* heard what the transcript will have.                                       *)
THEOREM SpeechIsKept == Spec => []UtteranceIsSpoken
<1>1. AudioInv => UtteranceIsSpoken
  BY OrderSpoken, BlockFits, TapHeard DEF UtteranceIsSpoken, AudioInv
<1> QED
  BY <1>1, AudioInvHolds, PTL
============================================================================
