--------------------------- MODULE DictationProof ---------------------------
(***************************************************************************)
(* Proofs about Dictation, for every number of sessions, every capacity,   *)
(* every activation mode and every environment.  The safety invariants are *)
(* not inductive by themselves; IInv adds to them what the code relies on  *)
(* without saying it:                                                      *)
(*   - the UI thread only ever starts the newest session, one that has no  *)
(*     thread yet, and holds the capture slot while it arms;               *)
(*   - the audio of a session exists nowhere before its thread retained it;*)
(*   - a cancelled capture that was not discarded yet will still find the  *)
(*     shared flag set: the only store that clears the flag is made by a   *)
(*     start, and a start holds the slot that capture would have to hold.  *)
(* The order of deliveries rests on more: see Prompt and FlowInv below.    *)
(* The last part is about SessionReducer, the reducer of a session's       *)
(* events, for every set of sessions and producers and every limit.        *)
(***************************************************************************)
EXTENDS Dictation, SessionReducer, SequenceTheorems, FiniteSetTheorems, TLAPS

(* The tracked session and the reducer's are set and cleared together *)
HotkeyAgrees == activation.session = hotSession

(* A start handles the newest session, whose thread does not run yet; from  *)
(* its claim on it holds the capture slot, and nothing is retained once it  *)
(* has armed.                                                               *)
StartIsFresh ==
  main \in {"check", "claim", "arm", "spawn"} =>
    target \in Sessions /\ target = issued /\ thread[target] = "none"
StartHoldsSlot == main \in {"arm", "spawn"} => active = target
SpawnIsClean == main = "spawn" => retained = NoSession
FreshIsIdle == \A s \in Sessions : s > issued => thread[s] = "none"

(* Who has taken an utterance knows which one *)
JobsAreNamed ==
  /\ \A w \in Waiters : waiter[w] = "holding" => held[w] \in Sessions
  /\ \A r \in Runners : runner[r] # "idle" => job[r] \in Sessions

(* No audio of s exists anywhere *)
Untouched(s) ==
  /\ retained # s
  /\ \A w \in Waiters : held[w] # s
  /\ \A r \in Runners : job[r] # s
  /\ \A i \in 1 .. Len(queue) : queue[i] # s
  /\ \A i \in 1 .. Len(delivered) : delivered[i] # s

(* Audio comes into being when its thread retains it *)
Unretained(s) ==
  thread[s] \in {"none", "arming", "recording", "ok", "err", "keep", "fail"}
RetainedFirst == \A s \in Sessions : Unretained(s) => Untouched(s)

(* A cancelled capture has been discarded, or its thread will find the flag *)
AbandonedIsDoomed ==
  \A s \in abandoned :
    \/ thread[s] \in {"discard", "rest", "done"}
    \/ Unjudged(s) /\ cancelled

(* No session started after the one whose capture thread runs *)
CapturingIsNewest ==
  \A s \in Sessions : Capturing(s) => \A q \in Sessions : q > s => thread[q] = "none"

(* The inductive invariant *)
IInv ==
  /\ TypeOK
  /\ HotkeyAgrees /\ StartIsFresh /\ StartHoldsSlot /\ SpawnIsClean /\ FreshIsIdle
  /\ JobsAreNamed
  /\ MicrophoneExclusive
  /\ CapturingIsNewest
  /\ RetainedIsNewest
  /\ PassHoldsLease
  /\ ArbiterMatchesSlot
  /\ RetainedFirst
  /\ AbandonedIsDoomed
  /\ CancelledCaptureIsDropped

-----------------------------------------------------------------------------
(* What a press amounts to *)

(* The values that stand for "none" and "another operation" are no sessions. *)
LEMMA SessionFacts ==
  /\ NoSession \notin Sessions /\ Other \notin Sessions /\ Other # NoSession
  /\ Sessions \subseteq Nat
  BY ConstantsAssumption DEF NoSession, Sessions, Other

(* The activation reducer starts a session only from rest and stops only    *)
(* the session it holds (activation.rs, apply), so a key press can neither  *)
(* start over a live session nor stop somebody else's.                      *)
THEOREM ActivationDecides ==
  ASSUME NEW r \in ReducerType(Sessions), NEW s \in Sessions,
         NEW input \in ActivationInputs
  PROVE  LET d == ApplyActivation(r, input, s) IN
           /\ d.reducer \in ReducerType(Sessions)
           /\ d.effect = "start" => r.session = NoSession /\ d.reducer.session = s
           /\ d.effect = "stop" => r.session = s /\ d.reducer = DefaultReducer
<1> USE SessionFacts DEF ReducerType, ActivationModes, Decision, StartActivation, StopActivation,
          DefaultReducer
<1>1. CASE input = "toggle_pressed"
  BY <1>1 DEF ApplyActivation, StartOrToggleStop
<1>2. CASE input = "push_to_talk_pressed"
  BY <1>2 DEF ApplyActivation, PttDown
<1>3. CASE input = "push_to_talk_released"
  BY <1>3 DEF ApplyActivation, PttUp
<1>4. CASE input = "hands_free_pressed"
  BY <1>4 DEF ApplyActivation
<1>5. CASE input = "vad_endpoint"
  BY <1>5 DEF ApplyActivation, VadEndpoint
<1>6. CASE input \in {"manual_stop", "cancel"}
  BY <1>6 DEF ApplyActivation
<1> QED
  BY <1>1, <1>2, <1>3, <1>4, <1>5, <1>6 DEF ActivationInputs

(* The two outcomes of a press that is not ignored *)
PressStarts ==
  /\ FreshSession \in Sessions
  /\ main' = "check" /\ issued' = FreshSession
  /\ hotSession' = FreshSession /\ target' = FreshSession
PressStops ==
  /\ main' = "stop" /\ issued' = issued
  /\ hotSession # NoSession /\ target' = hotSession /\ hotSession' = NoSession
Press ==
  /\ main = "idle"
  /\ activation' \in ReducerType(Sessions) /\ activation'.session = hotSession'
  /\ PressStarts \/ PressStops
  /\ UNCHANGED <<captureVars, thread, watcher, waiterVars, runnerVars, opVars,
                 resolved, cancels, retries, ghostVars>>

(* Acting on the decision for the tracked or for a fresh session is a Press. *)
LEMMA ActOnPresses ==
  ASSUME TypeOK, HotkeyAgrees, main = "idle",
         NEW s \in Sessions, NEW input \in ActivationInputs,
         s = FreshSession \/ s = hotSession,
         ActOn(ApplyActivation(activation, input, s), s)
  PROVE  Press
<1> DEFINE d == ApplyActivation(activation, input, s)
<1>1. /\ d.reducer \in ReducerType(Sessions)
      /\ d.effect = "start" => activation.session = NoSession /\ d.reducer.session = s
      /\ d.effect = "stop" => activation.session = s /\ d.reducer = DefaultReducer
  BY ActivationDecides DEF TypeOK
<1>2. /\ activation' = d.reducer /\ target' = s
      /\ \/ d.effect = "start" /\ hotSession' = s /\ main' = "check"
            /\ issued' = IF s > issued THEN s ELSE issued
         \/ d.effect = "stop" /\ hotSession' = NoSession /\ main' = "stop"
            /\ issued' = issued
      /\ UNCHANGED <<captureVars, thread, watcher, waiterVars, runnerVars, opVars,
                     resolved, cancels, retries, ghostVars>>
  BY DEF ActOn
<1> HIDE DEF d
<1>3. CASE d.effect = "start"
  <2>1. hotSession = NoSession /\ s = FreshSession
    BY <1>1, <1>3, SessionFacts DEF HotkeyAgrees
  <2>2. s > issued
    BY <2>1, ConstantsAssumption DEF FreshSession, TypeOK
  <2> QED
    BY <1>1, <1>2, <1>3, <2>1, <2>2 DEF Press, PressStarts
<1>4. CASE d.effect = "stop"
  BY <1>1, <1>2, <1>4, SessionFacts DEF Press, PressStops, DefaultReducer, HotkeyAgrees
<1> QED
  BY <1>2, <1>3, <1>4

(* Every press, of the key or of the dock's buttons, is a Press. *)
LEMMA PressEffect ==
  ASSUME TypeOK, HotkeyAgrees, OnEvent \/ RequestStart \/ RequestStop
  PROVE  Press
<1>1. CASE OnEvent
  <2>1. PICK input \in ShortcutInputs :
          LET s == IF hotSession # NoSession THEN hotSession ELSE FreshSession
          IN  s \in Sessions /\ ActOn(ApplyActivation(activation, input, s), s)
    BY <1>1 DEF OnEvent
  <2>2. input \in ActivationInputs
    BY ConstantsAssumption DEF ShortcutInputs, ActivationInputs, ActivationModes
  <2> QED
    BY <1>1, <2>1, <2>2, ActOnPresses DEF OnEvent
<1>2. CASE RequestStart
  BY <1>2, ActOnPresses DEF RequestStart, ActivationInputs
<1>3. CASE RequestStop
  <2>1. hotSession \in Sessions
    BY <1>3 DEF RequestStop, TypeOK, OptSessions
  <2> QED
    BY <1>3, <2>1, ActOnPresses DEF RequestStop, ActivationInputs
<1> QED
  BY <1>1, <1>2, <1>3

-----------------------------------------------------------------------------
(* Sequences: what Append and Tail do to "s is not among them" *)

Among(q, s) == \E i \in 1 .. Len(q) : q[i] = s

(* Appending adds nothing but the appended element. *)
LEMMA AppendAmong ==
  ASSUME NEW S, NEW q \in Seq(S), NEW x \in S, NEW s, Among(Append(q, x), s)
  PROVE  Among(q, s) \/ x = s
  BY AppendProperties DEF Among

(* The head and the tail of a sequence hold nothing that is not in it. *)
LEMMA TailAmong ==
  ASSUME NEW S, NEW q \in Seq(S), q # <<>>, NEW s
  PROVE  /\ Among(Tail(q), s) => Among(q, s)
         /\ Head(q) = s => Among(q, s)
<1>1. Len(q) \in Nat /\ Len(q) > 0 /\ Head(q) = q[1]
  OBVIOUS
<1>2. Len(Tail(q)) = Len(q) - 1 /\ \A i \in 1 .. Len(Tail(q)) : Tail(q)[i] = q[i + 1]
  BY HeadTailProperties
<1> QED
  BY <1>1, <1>2 DEF Among

-----------------------------------------------------------------------------
(* A step of the specification is a step of one of its actions. *)
LEMMA NextCases ==
  ASSUME [Next]_vars
  PROVE  \/ OnEvent \/ RequestStart \/ RequestStop
         \/ CancelPressed
         \/ StartRefused
         \/ StartAdmitted
         \/ StartRejected
         \/ StartClaims
         \/ StartArms
         \/ StartSpawns
         \/ StopSignals
         \/ StopDrains
         \/ CancelCapture
         \/ CancelRest
         \/ \E s \in Sessions : ThreadOpens(s)
         \/ \E s \in Sessions : ThreadRecorded(s)
         \/ \E s \in Sessions : ThreadFaults(s)
         \/ \E s \in Sessions : ThreadJudges(s)
         \/ \E s \in Sessions : ThreadRetains(s)
         \/ \E s \in Sessions : ThreadPublishes(s)
         \/ \E s \in Sessions : ThreadReleases(s)
         \/ \E s \in Sessions : ThreadRests(s)
         \/ \E s \in Sessions : WatcherPolls(s)
         \/ \E s \in Sessions : WatcherActs(s)
         \/ \E w \in Waiters : WaiterSeesAudio(w)
         \/ \E w \in Waiters : WaiterGivesUp(w)
         \/ \E w \in Waiters : WaiterClones(w)
         \/ \E w \in Waiters : WaiterSubmits(w)
         \/ \E r \in Runners : RunnerBegins(r)
         \/ \E r \in Runners : RunnerBusy(r)
         \/ \E r \in Runners : RunnerHears(r)
         \/ \E r \in Runners : RunnerFinishes(r)
         \/ \E r \in Runners : RunnerPublishes(r)
         \/ RunnerDelivers
         \/ ExclusiveBegins
         \/ ExclusiveFinishes
         \/ UNCHANGED vars
  BY DEF Next, User, MainStep, Exclusive, ThreadSteps,
      WatcherSteps, WaiterSteps, RunnerSteps

-----------------------------------------------------------------------------
(* Types *)

(* The initial state is well typed. *)
LEMMA InitType == Init => TypeOK
<1> SUFFICES ASSUME Init PROVE TypeOK
  OBVIOUS
<1>1. queue \in Seq(Sessions) /\ delivered \in Seq(Sessions)
  BY EmptySeq DEF Init
<1>2. stopFlag \in [Sessions -> BOOLEAN]
  BY Zenon DEF Init
<1>3. activation \in ReducerType(Sessions)
  BY DEF Init, ReducerType, DefaultReducer, ActivationModes
<1>4. /\ thread \in [Sessions -> ThreadPlaces] /\ watcher \in [Sessions -> WatcherPlaces]
      /\ waiter \in [Waiters -> WaiterPlaces] /\ held \in [Waiters -> OptSessions]
  BY DEF Init, ThreadPlaces, WatcherPlaces, WaiterPlaces, OptSessions
<1>5. /\ runner \in [Runners -> RunnerPlaces]
      /\ job \in [Runners -> OptSessions] /\ result \in [Runners -> Results]
  BY DEF Init, RunnerPlaces, Results, OptSessions
<1>6. stopRequested \in BOOLEAN /\ cancelled \in BOOLEAN /\ token \in BOOLEAN /\ resolved \in BOOLEAN
  BY Zenon DEF Init
<1>7. issued \in 0 .. MaxSessions /\ cancels \in Nat /\ retries \in Nat
  BY ConstantsAssumption DEF Init
<1>8. /\ main \in MainPlaces /\ target \in OptSessions /\ hotSession \in OptSessions
      /\ status \in Statuses /\ active \in OptSessions /\ retained \in OptSessions
      /\ lease \in Runners \cup {"none"} /\ slot \in OptSessions
      /\ owner \in OptSessions \cup {Other}
      /\ abandoned \subseteq Sessions
  BY DEF Init, MainPlaces, Statuses, OptSessions
<1> QED
  BY <1>1, <1>2, <1>3, <1>4, <1>5, <1>6, <1>7, <1>8 DEF TypeOK

(* The audio a runner takes is a session, and the queue stays a queue. *)
LEMMA TakeJobType ==
  ASSUME TypeOK, NEW r \in Runners, NEW audio \in Sessions, TakeJob(r, audio)
  PROVE  queue' \in Seq(Sessions) /\ retries' \in Nat
<1>1. queue \in Seq(Sessions) /\ retries \in Nat
  BY DEF TypeOK
<1>2. queue # <<>> => Tail(queue) \in Seq(Sessions)
  BY <1>1, HeadTailProperties
<1> QED
  BY <1>1, <1>2 DEF TakeJob

(* Every action keeps the types. *)
LEMMA TypeStep ==
  ASSUME TypeOK, HotkeyAgrees, JobsAreNamed, StartIsFresh, [Next]_vars
  PROVE  TypeOK'
<1> USE DEF TypeOK, mainVars, hotkeyVars, captureVars, waiterVars, runnerVars,
        opVars, boundVars, ghostVars, OptSessions
<1>1. CASE OnEvent \/ RequestStart \/ RequestStop
  <2>1. Press
    BY <1>1, PressEffect
  <2> QED
    BY <2>1, ConstantsAssumption DEF Press, PressStarts, PressStops, Sessions, MainPlaces
<1>2. CASE CancelPressed
  BY <1>2 DEF CancelPressed, MainPlaces, Statuses
<1>3. CASE StartRefused
  BY <1>3 DEF StartRefused, AbandonActiveSession, MainPlaces, Statuses,
      ReducerType, DefaultReducer, ActivationModes
<1>4. CASE StartAdmitted
  BY <1>4 DEF StartAdmitted, MainPlaces, Statuses
<1>5. CASE StartRejected
  <2>1. slot' \in OptSessions /\ owner' \in OptSessions \cup {Other}
    BY <1>5 DEF StartRejected, FinishDictation, OwnerWithoutSlot
  <2>2. hotSession' \in OptSessions /\ activation' \in ReducerType(Sessions)
    BY <1>5 DEF StartRejected, AbandonActiveSession, ReducerType, DefaultReducer,
        ActivationModes
  <2>3. main' \in MainPlaces /\ target' \in OptSessions /\ resolved' \in BOOLEAN
    BY <1>5 DEF StartRejected, MainPlaces
  <2> QED
    BY <1>5, <2>1, <2>2, <2>3 DEF StartRejected
<1>6. CASE StartClaims
  <2>1. /\ slot' \in OptSessions /\ owner' \in OptSessions \cup {Other}
        /\ active' \in OptSessions /\ main' \in MainPlaces
    BY <1>6 DEF StartClaims, MainPlaces
  <2>2. resolved' \in BOOLEAN
    BY <1>6 DEF StartClaims
  <2> QED
    BY <1>6, <2>1, <2>2 DEF StartClaims
<1>7. CASE StartArms
  BY <1>7 DEF StartArms, MainPlaces, Statuses
<1>8. CASE StartSpawns
  <2>1. thread' \in [Sessions -> ThreadPlaces] /\ watcher' \in [Sessions -> WatcherPlaces]
    BY <1>8 DEF StartSpawns, ThreadPlaces, WatcherPlaces
  <2>2. stopRequested' \in BOOLEAN /\ cancelled' \in BOOLEAN
    BY <1>8 DEF StartSpawns
  <2> QED
    BY <1>8, <2>1, <2>2 DEF StartSpawns, MainPlaces
<1>9. CASE StopSignals
  <2>1. stopFlag' \in [Sessions -> BOOLEAN] /\ stopRequested' \in BOOLEAN
    BY <1>9, Zenon DEF StopSignals
  <2> QED
    BY <1>9, <2>1 DEF StopSignals, MainPlaces, Statuses
<1>10. CASE StopDrains
  <2>1. waiter' \in [Waiters -> WaiterPlaces]
    BY <1>10 DEF StopDrains, WaiterPlaces
  <2>2. main' \in MainPlaces /\ target' \in OptSessions /\ status' \in Statuses
    BY <1>10 DEF StopDrains, MainPlaces, Statuses
  <2> QED
    BY <1>10, <2>1, <2>2 DEF StopDrains
<1>11. CASE CancelCapture
  <2>1. stopFlag' \in [Sessions -> BOOLEAN] /\ stopRequested' \in BOOLEAN
    BY <1>11, Zenon DEF CancelCapture
  <2> QED
    BY <1>11, <2>1 DEF CancelCapture, MainPlaces, Statuses
<1>12. CASE CancelRest
  BY <1>12 DEF CancelRest, FinishDictation, OwnerWithoutSlot,
      AbandonActiveSession, MainPlaces, Statuses, ReducerType, DefaultReducer,
      ActivationModes
<1>13. CASE \E s \in Sessions : ThreadOpens(s)
  BY <1>13 DEF ThreadOpens, ThreadStep, ThreadPlaces, Statuses
<1>14. CASE \E s \in Sessions : ThreadRecorded(s)
  BY <1>14 DEF ThreadRecorded, ThreadStep, ThreadPlaces, Statuses
<1>15. CASE \E s \in Sessions : ThreadFaults(s)
  BY <1>15 DEF ThreadFaults, ThreadStep, ThreadPlaces, Statuses
<1>16. CASE \E s \in Sessions : ThreadJudges(s)
  BY <1>16 DEF ThreadJudges, ThreadStep, Discards, ThreadPlaces, Statuses
<1>17. CASE \E s \in Sessions : ThreadRetains(s)
  BY <1>17 DEF ThreadRetains, ThreadStep, ThreadPlaces, Statuses
<1>18. CASE \E s \in Sessions : ThreadPublishes(s)
  BY <1>18 DEF ThreadPublishes, ThreadStep, ThreadPlaces, Statuses
<1>19. CASE \E s \in Sessions : ThreadReleases(s)
  BY <1>19 DEF ThreadReleases, ThreadStep, ThreadPlaces, Statuses
<1>20. CASE \E s \in Sessions : ThreadRests(s)
  BY <1>20 DEF ThreadRests, ThreadStep, ThreadPlaces, Statuses
<1>21. CASE \E s \in Sessions : WatcherPolls(s)
  <2>1. PICK s \in Sessions : WatcherPolls(s)
    BY <1>21
  <2>2. watcher' \in [Sessions -> WatcherPlaces]
    BY <2>1 DEF WatcherPolls, WatcherStep, WatcherPlaces
  <2> QED
    BY <2>1, <2>2 DEF WatcherPolls
<1>22. CASE \E s \in Sessions : WatcherActs(s)
  <2>1. PICK s \in Sessions : WatcherActs(s)
    BY <1>22
  <2>2. watcher' \in [Sessions -> WatcherPlaces] /\ waiter' \in [Waiters -> WaiterPlaces]
    BY <2>1 DEF WatcherActs, WatcherPlaces, WaiterPlaces
  <2>3. slot' \in OptSessions /\ owner' \in OptSessions \cup {Other}
    BY <2>1 DEF WatcherActs, FinishDictation, OwnerWithoutSlot
  <2>4. hotSession' \in OptSessions /\ activation' \in ReducerType(Sessions)
    BY <2>1 DEF WatcherActs, AbandonActiveSession, ReducerType, DefaultReducer, ActivationModes
  <2> QED
    BY <2>1, <2>2, <2>3, <2>4 DEF WatcherActs
<1>23. CASE \E w \in Waiters : WaiterSeesAudio(w)
  BY <1>23 DEF WaiterSeesAudio, WaiterStep, WaiterPlaces
<1>24. CASE \E w \in Waiters : WaiterGivesUp(w)
  <2>1. PICK w \in Waiters : WaiterGivesUp(w)
    BY <1>24
  <2>2. waiter' \in [Waiters -> WaiterPlaces]
    BY <2>1 DEF WaiterGivesUp, WaiterStep, WaiterPlaces
  <2>3. slot' \in OptSessions /\ owner' \in OptSessions \cup {Other}
    BY <2>1 DEF WaiterGivesUp, FinishDictation, OwnerWithoutSlot
  <2> QED
    BY <2>1, <2>2, <2>3 DEF WaiterGivesUp
<1>25. CASE \E w \in Waiters : WaiterClones(w)
  BY <1>25 DEF WaiterClones, WaiterStep, AudioRetained, WaiterPlaces
<1>26. CASE \E w \in Waiters : WaiterSubmits(w)
  BY <1>26, AppendProperties DEF WaiterSubmits, WaiterStep, WaiterPlaces,
      JobsAreNamed
<1>27. CASE \E r \in Runners : RunnerBegins(r)
  <2>1. PICK r \in Runners : RunnerBegins(r)
    BY <1>27
  <2>2. PICK audio \in Sessions : TakeJob(r, audio) /\ job' = [job EXCEPT ![r] = audio]
    BY <2>1 DEF RunnerBegins
  <2>3. queue' \in Seq(Sessions) /\ retries' \in Nat /\ job' \in [Runners -> OptSessions]
    BY <2>2, TakeJobType
  <2>4. /\ runner' \in [Runners -> RunnerPlaces] /\ lease' \in Runners \cup {"none"}
        /\ token' \in BOOLEAN /\ status' \in Statuses
    BY <2>1 DEF RunnerBegins, RunnerPlaces, Statuses
  <2> QED
    BY <2>1, <2>3, <2>4 DEF RunnerBegins
<1>28. CASE \E r \in Runners : RunnerBusy(r)
  BY <1>28, TakeJobType DEF RunnerBusy, FinishDictation, OwnerWithoutSlot,
      RunnerPlaces, Statuses, Results
<1>29. CASE \E r \in Runners : RunnerHears(r)
  BY <1>29 DEF RunnerHears, RunnerPlaces, Statuses, Results
<1>30. CASE \E r \in Runners : RunnerFinishes(r)
  BY <1>30 DEF RunnerFinishes, FinishDictation, OwnerWithoutSlot, RunnerPlaces,
      Statuses, Results
<1>31. CASE \E r \in Runners : RunnerPublishes(r)
  BY <1>31 DEF RunnerPublishes, RunnerPlaces, Statuses, Results
<1>32. CASE RunnerDelivers
  BY <1>32, AppendProperties DEF RunnerDelivers, Runners, RunnerPlaces,
      Statuses, Results, JobsAreNamed
<1>33. CASE ExclusiveBegins
  BY <1>33 DEF ExclusiveBegins
<1>34. CASE ExclusiveFinishes
  BY <1>34 DEF ExclusiveFinishes
<1>35. CASE UNCHANGED vars
  BY <1>35 DEF vars
<1> QED
  BY <1>1, <1>2, <1>3, <1>4, <1>5, <1>6, <1>7, <1>8, <1>9, <1>10, <1>11, <1>12,
      <1>13, <1>14, <1>15, <1>16, <1>17, <1>18, <1>19, <1>20, <1>21, <1>22,
      <1>23, <1>24, <1>25, <1>26, <1>27, <1>28, <1>29, <1>30, <1>31, <1>32,
      <1>33, <1>34, <1>35, NextCases

-----------------------------------------------------------------------------
(* The capture slot, the threads and the retained audio *)

(* The part of IInv about the slot, the threads and the retained audio *)
CaptureInv ==
  /\ HotkeyAgrees /\ StartIsFresh /\ StartHoldsSlot /\ SpawnIsClean /\ FreshIsIdle
  /\ MicrophoneExclusive /\ CapturingIsNewest /\ RetainedIsNewest

(* The capture slot, the capture threads and the retained audio stay consistent. *)
LEMMA CaptureStep ==
  ASSUME TypeOK, CaptureInv, [Next]_vars
  PROVE  CaptureInv'
<1> USE DEF CaptureInv, HotkeyAgrees, StartIsFresh, StartHoldsSlot, SpawnIsClean,
        FreshIsIdle, MicrophoneExclusive, CapturingIsNewest, RetainedIsNewest,
        Capturing, mainVars, hotkeyVars, captureVars, boundVars
<1>1. CASE OnEvent \/ RequestStart \/ RequestStop
  <2>1. Press
    BY <1>1, PressEffect
  <2> QED
    BY <2>1, SessionFacts, ConstantsAssumption DEF Press, PressStarts, PressStops,
        FreshSession, TypeOK, Sessions
<1>2. CASE CancelPressed
  BY <1>2 DEF
      CancelPressed
<1>3. CASE StartRefused
  BY <1>3 DEF
      StartRefused, AbandonActiveSession, DefaultReducer
<1>4. CASE StartAdmitted
  BY <1>4 DEF
      StartAdmitted
<1>5. CASE StartRejected
  BY <1>5 DEF
      StartRejected, AbandonActiveSession, DefaultReducer
<1>6. CASE StartClaims
  BY <1>6, SessionFacts DEF
      StartClaims, CaptureSlotFree, TypeOK, OptSessions
<1>7. CASE StartArms
  BY <1>7 DEF
      StartArms
<1>8. CASE StartSpawns
  BY <1>8 DEF
      StartSpawns, TypeOK, Sessions
<1>9. CASE StopSignals
  BY <1>9 DEF
      StopSignals
<1>10. CASE StopDrains
  BY <1>10 DEF
      StopDrains
<1>11. CASE CancelCapture
  BY <1>11 DEF
      CancelCapture
<1>12. CASE CancelRest
  BY <1>12 DEF
      CancelRest, AbandonActiveSession, DefaultReducer
<1>13. CASE \E s \in Sessions : ThreadOpens(s)
  BY <1>13 DEF
      ThreadOpens, ThreadStep, TypeOK, Sessions
<1>14. CASE \E s \in Sessions : ThreadRecorded(s)
  BY <1>14 DEF
      ThreadRecorded, ThreadStep, TypeOK
<1>15. CASE \E s \in Sessions : ThreadFaults(s)
  BY <1>15 DEF
      ThreadFaults, ThreadStep, TypeOK
<1>16. CASE \E s \in Sessions : ThreadJudges(s)
  BY <1>16 DEF
      ThreadJudges, ThreadStep, TypeOK, Discards
<1>17. CASE \E s \in Sessions : ThreadRetains(s)
  BY <1>17, SessionFacts DEF
      ThreadRetains, ThreadStep, TypeOK, Sessions
<1>18. CASE \E s \in Sessions : ThreadPublishes(s)
  <2>1. PICK s \in Sessions : ThreadPublishes(s)
    BY <1>18
  <2>2. /\ thread' = [thread EXCEPT ![s] = "release"] /\ Capturing(s)
        /\ UNCHANGED <<main, target, hotSession, activation, active, retained, issued>>
    BY <2>1 DEF ThreadPublishes, ThreadStep
  <2> QED
    BY <2>2 DEF TypeOK
<1>19. CASE \E s \in Sessions : ThreadReleases(s)
  BY <1>19, SessionFacts DEF
      ThreadReleases, ThreadStep, TypeOK
<1>20. CASE \E s \in Sessions : ThreadRests(s)
  BY <1>20 DEF
      ThreadRests, ThreadStep, TypeOK
<1>21. CASE \E s \in Sessions : WatcherActs(s)
  BY <1>21 DEF
      WatcherActs, AbandonActiveSession, DefaultReducer
<1>22. CASE \/ \E s \in Sessions : WatcherPolls(s)
            \/ \E w \in Waiters : WaiterSeesAudio(w)
            \/ \E w \in Waiters : WaiterGivesUp(w)
            \/ \E w \in Waiters : WaiterClones(w)
            \/ \E w \in Waiters : WaiterSubmits(w)
            \/ \E r \in Runners : RunnerBegins(r)
            \/ \E r \in Runners : RunnerBusy(r)
            \/ \E r \in Runners : RunnerHears(r)
            \/ \E r \in Runners : RunnerFinishes(r)
            \/ \E r \in Runners : RunnerPublishes(r)
            \/ RunnerDelivers
            \/ ExclusiveBegins
            \/ ExclusiveFinishes
  BY <1>22 DEF
      WatcherPolls, WatcherStep, WaiterSeesAudio, WaiterStep, WaiterGivesUp,
      WaiterClones, WaiterSubmits, RunnerBegins, RunnerBusy, RunnerHears,
      RunnerFinishes, RunnerPublishes, RunnerDelivers, ExclusiveBegins,
      ExclusiveFinishes
<1>23. CASE UNCHANGED vars
  BY <1>23 DEF vars
<1> HIDE DEF CaptureInv
<1> QED
  BY <1>1, <1>2, <1>3, <1>4, <1>5, <1>6, <1>7, <1>8, <1>9, <1>10, <1>11, <1>12,
      <1>13, <1>14, <1>15, <1>16, <1>17, <1>18, <1>19, <1>20, <1>21, <1>22,
      <1>23, NextCases

-----------------------------------------------------------------------------
(* The runtime lease, and who holds which utterance *)

(* A pass holds the lease, and whoever holds an utterance knows which one. *)
LEMMA LeaseStep ==
  ASSUME TypeOK, HotkeyAgrees, JobsAreNamed, PassHoldsLease, [Next]_vars
  PROVE  JobsAreNamed' /\ PassHoldsLease'
<1> USE DEF JobsAreNamed, PassHoldsLease, waiterVars, runnerVars
<1>1. CASE OnEvent \/ RequestStart \/ RequestStop
  <2>1. Press
    BY <1>1, PressEffect
  <2> QED
    BY <2>1 DEF Press
<1>2. CASE \/ CancelPressed
           \/ StartRefused
           \/ StartAdmitted
           \/ StartRejected
           \/ StartClaims
           \/ StartArms
           \/ StartSpawns
           \/ StopSignals
           \/ CancelCapture
           \/ \E s \in Sessions : ThreadOpens(s)
           \/ \E s \in Sessions : ThreadRecorded(s)
           \/ \E s \in Sessions : ThreadFaults(s)
           \/ \E s \in Sessions : ThreadJudges(s)
           \/ \E s \in Sessions : ThreadRetains(s)
           \/ \E s \in Sessions : ThreadPublishes(s)
           \/ \E s \in Sessions : ThreadReleases(s)
           \/ \E s \in Sessions : ThreadRests(s)
           \/ \E s \in Sessions : WatcherPolls(s)
           \/ \E r \in Runners : RunnerBusy(r)
           \/ ExclusiveBegins
           \/ ExclusiveFinishes
  BY <1>2 DEF
      CancelPressed, StartRefused, AbandonActiveSession, StartAdmitted,
      StartRejected, StartClaims, StartArms, StartSpawns, StopSignals,
      CancelCapture, ThreadOpens, ThreadStep, ThreadRecorded, ThreadFaults,
      ThreadJudges, ThreadRetains, ThreadPublishes, ThreadReleases, ThreadRests,
      WatcherPolls, WatcherStep, RunnerBusy, ExclusiveBegins, ExclusiveFinishes
<1>3. CASE CancelRest
  BY <1>3 DEF
      CancelRest, AbandonActiveSession
<1>4. CASE StopDrains
  BY <1>4 DEF
      StopDrains, TypeOK, WaiterPlaces
<1>5. CASE \E s \in Sessions : WatcherActs(s)
  <2>1. PICK s \in Sessions : WatcherActs(s)
    BY <1>5
  <2>2. /\ \/ waiter' = [waiter EXCEPT ![<<"watch", s>>] = "waiting"]
           \/ waiter' = waiter
        /\ UNCHANGED <<held, runner, job, lease>>
    BY <2>1 DEF WatcherActs
  <2> QED
    BY <2>2 DEF TypeOK
<1>6. CASE \E w \in Waiters : WaiterSeesAudio(w)
  BY <1>6 DEF
      WaiterSeesAudio, WaiterStep, TypeOK
<1>7. CASE \E w \in Waiters : WaiterGivesUp(w)
  BY <1>7 DEF
      WaiterGivesUp, WaiterStep, TypeOK
<1>8. CASE \E w \in Waiters : WaiterClones(w)
  BY <1>8 DEF
      WaiterClones, WaiterStep, TypeOK, AudioRetained, OptSessions
<1>9. CASE \E w \in Waiters : WaiterSubmits(w)
  BY <1>9 DEF
      WaiterSubmits, WaiterStep, TypeOK
<1>10. CASE \E r \in Runners : RunnerBegins(r)
  BY <1>10 DEF
      RunnerBegins, TypeOK, Runners, LeaseFree
<1>11. CASE \E r \in Runners : RunnerHears(r)
  BY <1>11 DEF
      RunnerHears, TypeOK, Runners
<1>12. CASE \E r \in Runners : RunnerFinishes(r)
  BY <1>12 DEF
      RunnerFinishes, TypeOK, Runners
<1>13. CASE \E r \in Runners : RunnerPublishes(r)
  BY <1>13 DEF
      RunnerPublishes, TypeOK, Runners
<1>14. CASE RunnerDelivers
  BY <1>14 DEF
      RunnerDelivers, TypeOK, Runners
<1>15. CASE UNCHANGED vars
  BY <1>15 DEF vars
<1> HIDE DEF JobsAreNamed, PassHoldsLease
<1> QED
  BY <1>1, <1>2, <1>3, <1>4, <1>5, <1>6, <1>7, <1>8, <1>9, <1>10, <1>11, <1>12,
      <1>13, <1>14, <1>15, NextCases

-----------------------------------------------------------------------------
(* The exclusive operation *)

(* finish_dictation leaves no dictation in the slot and none in the arbiter. *)
LEMMA FinishClears ==
  ASSUME ArbiterMatchesSlot, FinishDictation
  PROVE  ArbiterMatchesSlot'
  BY SessionFacts DEF ArbiterMatchesSlot, FinishDictation, OwnerWithoutSlot

(* The slot and the arbiter agree after every step. *)
LEMMA ArbiterStep ==
  ASSUME TypeOK, HotkeyAgrees, StartIsFresh, ArbiterMatchesSlot, [Next]_vars
  PROVE  ArbiterMatchesSlot'
<1> USE DEF opVars, ArbiterMatchesSlot
<1>1. CASE OnEvent \/ RequestStart \/ RequestStop
  <2>1. Press
    BY <1>1, PressEffect
  <2> QED
    BY <2>1 DEF Press
<1>2. CASE \/ CancelPressed
           \/ StartRefused
           \/ StartAdmitted
           \/ StartArms
           \/ StartSpawns
           \/ StopSignals
           \/ StopDrains
           \/ CancelCapture
           \/ \E s \in Sessions : ThreadOpens(s)
           \/ \E s \in Sessions : ThreadRecorded(s)
           \/ \E s \in Sessions : ThreadFaults(s)
           \/ \E s \in Sessions : ThreadJudges(s)
           \/ \E s \in Sessions : ThreadRetains(s)
           \/ \E s \in Sessions : ThreadPublishes(s)
           \/ \E s \in Sessions : ThreadReleases(s)
           \/ \E s \in Sessions : ThreadRests(s)
           \/ \E s \in Sessions : WatcherPolls(s)
           \/ \E w \in Waiters : WaiterSeesAudio(w)
           \/ \E w \in Waiters : WaiterClones(w)
           \/ \E w \in Waiters : WaiterSubmits(w)
           \/ \E r \in Runners : RunnerBegins(r)
           \/ \E r \in Runners : RunnerHears(r)
           \/ \E r \in Runners : RunnerPublishes(r)
           \/ RunnerDelivers
  BY <1>2 DEF
      CancelPressed, StartRefused, AbandonActiveSession, StartAdmitted,
      StartArms, StartSpawns, StopSignals, StopDrains, CancelCapture,
      ThreadOpens, ThreadStep, ThreadRecorded, ThreadFaults, ThreadJudges,
      ThreadRetains, ThreadPublishes, ThreadReleases, ThreadRests, WatcherPolls,
      WatcherStep, WaiterSeesAudio, WaiterStep, WaiterClones, WaiterSubmits,
      RunnerBegins, RunnerHears, RunnerPublishes, RunnerDelivers
<1>3. CASE \/ StartRejected
           \/ CancelRest
           \/ \E s \in Sessions : WatcherActs(s)
           \/ \E w \in Waiters : WaiterGivesUp(w)
           \/ \E r \in Runners : RunnerBusy(r)
           \/ \E r \in Runners : RunnerFinishes(r)
  BY <1>3, FinishClears DEF
      StartRejected, AbandonActiveSession, CancelRest, WatcherActs,
      WaiterGivesUp, WaiterStep, RunnerBusy, RunnerFinishes
<1>4. CASE StartClaims
  BY <1>4 DEF
      StartClaims, StartIsFresh
<1>5. CASE ExclusiveBegins
  BY <1>5, SessionFacts DEF
      ExclusiveBegins
<1>6. CASE ExclusiveFinishes
  BY <1>6, SessionFacts DEF
      ExclusiveFinishes, TypeOK, OptSessions
<1>7. CASE UNCHANGED vars
  BY <1>7 DEF vars
<1> HIDE DEF ArbiterMatchesSlot
<1> QED
  BY <1>1, <1>2, <1>3, <1>4, <1>5, <1>6, <1>7, NextCases

-----------------------------------------------------------------------------
(* Cancelled captures *)

(* The part of IInv about cancelled captures *)
DropInv == RetainedFirst /\ AbandonedIsDoomed /\ CancelledCaptureIsDropped

(* A step that neither moves a capture thread nor cancels: it is enough that *)
(* it creates no audio of a session that has none.                           *)
LEMMA DropFrame ==
  ASSUME DropInv, UNCHANGED <<thread, abandoned, cancelled>>,
         abandoned \subseteq Sessions,
         \A s \in Sessions : Untouched(s) => Untouched(s)'
  PROVE  DropInv'
<1>1. RetainedFirst'
  BY DEF DropInv, RetainedFirst, Unretained
<1>2. AbandonedIsDoomed'
  BY DEF DropInv, AbandonedIsDoomed, Unjudged
<1>3. \A s \in abandoned : Untouched(s)'
  BY DEF DropInv, CancelledCaptureIsDropped, Untouched
<1>4. CancelledCaptureIsDropped'
  BY <1>3 DEF CancelledCaptureIsDropped, Untouched
<1> QED
  BY <1>1, <1>2, <1>4 DEF DropInv

(* A move of thread s that creates no audio, neither out of nor into the    *)
(* undecided places unless s was not cancelled or is now discarded.         *)
LEMMA DropThread ==
  ASSUME DropInv, TypeOK, NEW s \in Sessions, NEW p \in ThreadPlaces,
         thread' = [thread EXCEPT ![s] = p],
         UNCHANGED <<abandoned, cancelled, held, job, queue, delivered>>,
         retained' \in {retained, NoSession},
         p \in {"none", "arming", "recording", "ok", "err", "keep", "fail"} =>
           Unretained(s),
         \/ p \in {"discard", "rest", "done"}
         \/ p \in {"recording", "ok", "err"} /\ Unjudged(s)
         \/ s \notin abandoned
  PROVE  DropInv'
<1>1. \A q \in Sessions : Untouched(q) => Untouched(q)'
  BY SessionFacts DEF Untouched
<1>2. \A q \in Sessions : thread'[q] = IF q = s THEN p ELSE thread[q]
  BY DEF TypeOK
<1>3. RetainedFirst'
  BY <1>1, <1>2 DEF DropInv, RetainedFirst, Unretained, ThreadPlaces
<1>4. AbandonedIsDoomed'
  BY <1>2 DEF DropInv, AbandonedIsDoomed, Unjudged, TypeOK
<1>5. \A q \in abandoned : Untouched(q)'
  BY <1>1 DEF DropInv, CancelledCaptureIsDropped, Untouched, TypeOK
<1>6. CancelledCaptureIsDropped'
  BY <1>5 DEF CancelledCaptureIsDropped, Untouched
<1> QED
  BY <1>3, <1>4, <1>6 DEF DropInv

(* A capture that was cancelled before its thread judged it stays dropped. *)
LEMMA DropStep ==
  ASSUME TypeOK, HotkeyAgrees, StartIsFresh, StartHoldsSlot, MicrophoneExclusive,
         JobsAreNamed, DropInv, [Next]_vars
  PROVE  DropInv'
<1> USE DEF captureVars, waiterVars, runnerVars, ghostVars
<1>1. CASE OnEvent \/ RequestStart \/ RequestStop
  <2>1. Press
    BY <1>1, PressEffect
  <2> QED
    BY <2>1, DropFrame DEF Press, Untouched, TypeOK
<1>2. CASE CancelPressed
  <2>1. UNCHANGED <<thread, retained, held, job, queue, delivered>> /\ cancelled' = TRUE
    BY <1>2 DEF CancelPressed
  <2>2. \A s \in abandoned' : s \in abandoned \/ (s \in Sessions /\ Unjudged(s))
    BY <1>2 DEF CancelPressed
  <2>3. RetainedFirst'
    BY <2>1 DEF DropInv, RetainedFirst, Unretained, Untouched
  <2>4. AbandonedIsDoomed'
    BY <2>1, <2>2 DEF DropInv, AbandonedIsDoomed, Unjudged
  <2>5. \A s \in abandoned' : Untouched(s)
    BY <2>2 DEF DropInv, RetainedFirst, Unretained, Unjudged,
        CancelledCaptureIsDropped, Untouched
  <2>6. CancelledCaptureIsDropped'
    BY <2>1, <2>5 DEF CancelledCaptureIsDropped, Untouched
  <2> QED
    BY <2>3, <2>4, <2>6 DEF DropInv
<1>3. CASE \/ StartRefused
           \/ StartAdmitted
           \/ StartRejected
           \/ StartClaims
           \/ StartArms
           \/ StopSignals
           \/ StopDrains
           \/ CancelCapture
           \/ CancelRest
           \/ \E s \in Sessions : WatcherPolls(s)
           \/ \E s \in Sessions : WatcherActs(s)
           \/ \E w \in Waiters : WaiterSeesAudio(w)
           \/ \E w \in Waiters : WaiterGivesUp(w)
           \/ \E r \in Runners : RunnerHears(r)
           \/ \E r \in Runners : RunnerFinishes(r)
           \/ ExclusiveBegins
           \/ ExclusiveFinishes
  <2>1. /\ UNCHANGED <<thread, abandoned, cancelled>>
        /\ \A s \in Sessions : Untouched(s) => Untouched(s)'
    BY <1>3, SessionFacts DEF
        StartRefused, AbandonActiveSession, StartAdmitted, StartRejected,
        StartClaims, StartArms, StopSignals, StopDrains, CancelCapture,
        CancelRest, WatcherPolls, WatcherStep, WatcherActs, WaiterSeesAudio,
        WaiterStep, WaiterGivesUp, RunnerHears, RunnerFinishes, ExclusiveBegins,
        ExclusiveFinishes, Untouched
  <2> QED
    BY <2>1, DropFrame DEF TypeOK
<1>4. CASE StartSpawns
  <2>1. target \in Sessions /\ thread[target] = "none" /\ active = target
    BY <1>4 DEF StartSpawns, StartIsFresh, StartHoldsSlot
  <2>2. \A s \in Sessions : ~Unjudged(s)
    BY <2>1 DEF MicrophoneExclusive, Capturing, Unjudged
  <2>3. \A s \in abandoned : thread[s] \in {"discard", "rest", "done"}
    BY <2>2 DEF DropInv, AbandonedIsDoomed, TypeOK
  <2>4. /\ \A s \in Sessions : thread'[s] = IF s = target THEN "arming" ELSE thread[s]
        /\ UNCHANGED <<abandoned, retained, held, job, queue, delivered>>
    BY <1>4 DEF StartSpawns, TypeOK
  <2>5. RetainedFirst'
    BY <2>1, <2>4 DEF DropInv, RetainedFirst, Unretained, Untouched
  <2>6. AbandonedIsDoomed'
    BY <2>1, <2>3, <2>4 DEF AbandonedIsDoomed, TypeOK
  <2>7. CancelledCaptureIsDropped'
    BY <2>4 DEF DropInv, CancelledCaptureIsDropped
  <2> QED
    BY <2>5, <2>6, <2>7 DEF DropInv
<1>5. CASE \E s \in Sessions : ThreadOpens(s)
  <2>1. PICK s \in Sessions : ThreadOpens(s)
    BY <1>5
  <2> QED
    BY <2>1, DropThread DEF ThreadOpens, ThreadStep, Unretained, Unjudged,
        ThreadPlaces
<1>6. CASE \E s \in Sessions : ThreadRecorded(s)
  <2>1. PICK s \in Sessions : ThreadRecorded(s)
    BY <1>6
  <2> QED
    BY <2>1, DropThread DEF ThreadRecorded, ThreadStep, Unretained, Unjudged,
        ThreadPlaces
<1>7. CASE \E s \in Sessions : ThreadFaults(s)
  <2>1. PICK s \in Sessions : ThreadFaults(s)
    BY <1>7
  <2> QED
    BY <2>1, DropThread DEF ThreadFaults, ThreadStep, Unretained, Unjudged,
        ThreadPlaces
<1>8. CASE \E s \in Sessions : ThreadJudges(s)
  <2>1. PICK s \in Sessions : ThreadJudges(s)
    BY <1>8
  <2>2. cancelled \/ s \notin abandoned
    BY <2>1 DEF ThreadJudges, ThreadStep, DropInv, AbandonedIsDoomed
  <2>3. CASE cancelled
    BY <2>1, <2>3, DropThread DEF ThreadJudges, ThreadStep, Discards, ThreadPlaces
  <2>4. CASE ~cancelled
    BY <2>1, <2>2, <2>4, DropThread DEF ThreadJudges, ThreadStep, Discards,
        Unretained, ThreadPlaces
  <2> QED
    BY <2>3, <2>4
<1>9. CASE \E s \in Sessions : ThreadRetains(s)
  <2>1. PICK s \in Sessions : ThreadRetains(s)
    BY <1>9
  <2>2. thread[s] = "keep" /\ s \notin abandoned
    BY <2>1 DEF ThreadRetains, ThreadStep, DropInv, AbandonedIsDoomed, Unjudged
  <2>3. /\ \A q \in Sessions : thread'[q] = IF q = s THEN "kept" ELSE thread[q]
        /\ retained' = s
        /\ UNCHANGED <<abandoned, cancelled, held, job, queue, delivered>>
    BY <2>1 DEF ThreadRetains, ThreadStep, TypeOK
  <2>4. \A q \in Sessions : q # s /\ Untouched(q) => Untouched(q)'
    BY <2>3 DEF Untouched
  <2>5. RetainedFirst'
    BY <2>3, <2>4 DEF DropInv, RetainedFirst, Unretained
  <2>6. AbandonedIsDoomed'
    BY <2>2, <2>3 DEF DropInv, AbandonedIsDoomed, Unjudged, TypeOK
  <2>7. \A q \in abandoned : Untouched(q)'
    BY <2>2, <2>4 DEF DropInv, CancelledCaptureIsDropped, Untouched, TypeOK
  <2>8. CancelledCaptureIsDropped'
    BY <2>3, <2>7 DEF CancelledCaptureIsDropped, Untouched
  <2> QED
    BY <2>5, <2>6, <2>8 DEF DropInv
<1>10. CASE \E s \in Sessions : ThreadPublishes(s)
  <2>1. PICK s \in Sessions : ThreadPublishes(s)
    BY <1>10
  <2>2. s \notin abandoned
    BY <2>1 DEF ThreadPublishes, ThreadStep, DropInv, AbandonedIsDoomed, Unjudged
  <2> QED
    BY <2>1, <2>2, DropThread DEF ThreadPublishes, ThreadStep, ThreadPlaces
<1>11. CASE \E s \in Sessions : ThreadReleases(s)
  <2>1. PICK s \in Sessions : ThreadReleases(s)
    BY <1>11
  <2> QED
    BY <2>1, DropThread DEF ThreadReleases, ThreadStep, Unretained, Unjudged,
        ThreadPlaces
<1>12. CASE \E s \in Sessions : ThreadRests(s)
  <2>1. PICK s \in Sessions : ThreadRests(s)
    BY <1>12
  <2> QED
    BY <2>1, DropThread DEF ThreadRests, ThreadStep, Unretained, Unjudged,
        ThreadPlaces
<1>13. CASE \E w \in Waiters : WaiterClones(w)
  <2>1. PICK w \in Waiters : WaiterClones(w)
    BY <1>13
  <2>2. /\ UNCHANGED <<thread, abandoned, cancelled, retained, job, queue, delivered>>
        /\ \A v \in Waiters : held'[v] \in {held[v], retained}
    BY <2>1 DEF WaiterClones, TypeOK
  <2> QED
    BY <2>2, DropFrame DEF Untouched, TypeOK
<1>14. CASE \E w \in Waiters : WaiterSubmits(w)
  <2>1. PICK w \in Waiters : WaiterSubmits(w)
    BY <1>14
  <2>2. /\ UNCHANGED <<thread, abandoned, cancelled, retained, job, delivered>>
        /\ \A v \in Waiters : held'[v] \in {held[v], NoSession}
        /\ held[w] \in Sessions /\ queue' = Append(queue, held[w])
    BY <2>1 DEF WaiterSubmits, WaiterStep, JobsAreNamed, TypeOK
  <2>3. \A s \in Sessions : Among(queue', s) => Among(queue, s) \/ held[w] = s
    BY <2>2, AppendAmong DEF TypeOK
  <2>4. \A s \in Sessions : Untouched(s) => Untouched(s)'
    BY <2>2, <2>3, SessionFacts DEF Untouched, Among
  <2> QED
    BY <2>2, <2>4, DropFrame DEF TypeOK
<1>15. CASE \/ \E r \in Runners : RunnerBegins(r)
            \/ \E r \in Runners : RunnerBusy(r)
  <2>1. PICK r \in Runners : RunnerBegins(r) \/ RunnerBusy(r)
    BY <1>15
  <2>2. PICK audio \in Sessions :
          /\ TakeJob(r, audio)
          /\ UNCHANGED <<thread, abandoned, cancelled, retained, held, delivered>>
          /\ \A q \in Runners : job'[q] \in {job[q], audio}
    BY <2>1 DEF RunnerBegins, RunnerBusy, TypeOK
  <2>3. \A s \in Sessions : Untouched(s) => Untouched(s)'
    <3>1. CASE queue # <<>> /\ audio = Head(queue) /\ queue' = Tail(queue)
      <4>1. \A s \in Sessions : /\ Among(queue', s) => Among(queue, s)
                                /\ audio = s => Among(queue, s)
        BY <3>1, TailAmong DEF TypeOK
      <4> QED
        BY <2>2, <4>1 DEF Untouched, Among
    <3>2. CASE audio = retained /\ queue' = queue
      BY <2>2, <3>2 DEF Untouched
    <3> QED
      BY <2>2, <3>1, <3>2 DEF TakeJob
  <2> QED
    BY <2>2, <2>3, DropFrame DEF TypeOK
<1>16. CASE \E r \in Runners : RunnerPublishes(r)
  <2>1. /\ UNCHANGED <<thread, abandoned, cancelled, retained, held, queue, delivered>>
        /\ \A q \in Runners : job'[q] \in {job[q], NoSession}
    BY <1>16 DEF RunnerPublishes, TypeOK
  <2>2. \A s \in Sessions : Untouched(s) => Untouched(s)'
    BY <2>1, SessionFacts DEF Untouched
  <2> QED
    BY <2>1, <2>2, DropFrame DEF TypeOK
<1>17. CASE RunnerDelivers
  <2>1. /\ UNCHANGED <<thread, abandoned, cancelled, retained, held, queue>>
        /\ \A q \in Runners : job'[q] \in {job[q], NoSession}
        /\ job["queue"] \in Sessions
        /\ delivered' \in {delivered, Append(delivered, job["queue"])}
    BY <1>17 DEF RunnerDelivers, JobsAreNamed, Runners, TypeOK
  <2>2. \A s \in Sessions :
          Among(delivered', s) => Among(delivered, s) \/ job["queue"] = s
    <3>1. CASE delivered' = delivered
      BY <3>1 DEF Among
    <3>2. CASE delivered' = Append(delivered, job["queue"])
      BY <2>1, <3>2, AppendAmong DEF TypeOK
    <3> QED
      BY <2>1, <3>1, <3>2
  <2>3. \A s \in Sessions : Untouched(s) => Untouched(s)'
    BY <2>1, <2>2, SessionFacts DEF Untouched, Among, Runners
  <2> QED
    BY <2>1, <2>3, DropFrame DEF TypeOK
<1>18. CASE UNCHANGED vars
  BY DropFrame, <1>18 DEF vars, Untouched, TypeOK
<1> QED
  BY <1>1, <1>2, <1>3, <1>4, <1>5, <1>6, <1>7, <1>8, <1>9, <1>10, <1>11, <1>12,
      <1>13, <1>14, <1>15, <1>16, <1>17, <1>18, NextCases

-----------------------------------------------------------------------------
(* The theorems *)

(* Everything the proof rests on holds in the initial state. *)
LEMMA InitInv == Init => IInv
<1> SUFFICES ASSUME Init PROVE IInv
  OBVIOUS
<1>1. TypeOK
  BY InitType
<1>2. CaptureInv
  BY SessionFacts DEF Init, CaptureInv, HotkeyAgrees, StartIsFresh, StartHoldsSlot,
      SpawnIsClean, FreshIsIdle, MicrophoneExclusive, CapturingIsNewest,
      RetainedIsNewest, Capturing, DefaultReducer
<1>3. JobsAreNamed /\ PassHoldsLease /\ ArbiterMatchesSlot
  BY SessionFacts DEF Init, JobsAreNamed, PassHoldsLease, ArbiterMatchesSlot, Runners
<1>4. RetainedFirst /\ AbandonedIsDoomed /\ CancelledCaptureIsDropped
  BY SessionFacts DEF Init, RetainedFirst, Untouched, AbandonedIsDoomed,
      CancelledCaptureIsDropped
<1> QED
  BY <1>1, <1>2, <1>3, <1>4 DEF IInv, CaptureInv

(* No step of any thread leaves the inductive invariant. *)
LEMMA StepInv == IInv /\ [Next]_vars => IInv'
<1> SUFFICES ASSUME IInv, [Next]_vars PROVE IInv'
  OBVIOUS
<1> USE DEF IInv
<1>1. TypeOK'
  BY TypeStep
<1>2. CaptureInv'
  BY CaptureStep DEF CaptureInv
<1>3. JobsAreNamed' /\ PassHoldsLease'
  BY LeaseStep
<1>4. ArbiterMatchesSlot'
  BY ArbiterStep
<1>5. DropInv'
  BY DropStep DEF DropInv
<1> QED
  BY <1>1, <1>2, <1>3, <1>4, <1>5 DEF CaptureInv, DropInv

(* The inductive invariant holds in every reachable state. *)
LEMMA Invariance == Spec => []IInv
  BY InitInv, StepInv, PTL DEF Spec

(* Every variable keeps its type, for any number of sessions, any queue        *)
(* capacity, every activation mode and every environment.                     *)
THEOREM TypeCorrect == Spec => []TypeOK
  BY Invariance, PTL DEF IInv

(* The microphone belongs to one capture: a capture thread that has not      *)
(* released the slot (capture_wizard.rs, start_with_identity) is the one the  *)
(* slot names, however presses, cancels and device faults interleave.         *)
THEOREM OneCaptureAtATime == Spec => []MicrophoneExclusive
  BY Invariance, PTL DEF IInv

(* The retained audio is that of the newest capture that ever ran, so no late *)
(* store of an older thread (retain_captured) can bring back old audio.       *)
THEOREM OnlyTheNewestIsRetained == Spec => []RetainedIsNewest
  BY Invariance, PTL DEF IInv

(* A pass runs exactly while it holds the runtime lease                       *)
(* (RuntimeWizardCoordinator.active), on the queue as on a retry, so two      *)
(* passes never run at once and the lease is never leaked.                    *)
THEOREM OnePassAtATime == Spec => []PassHoldsLease
  BY Invariance, PTL DEF IInv

(* finish_dictation can always release what a dictation claimed: the slot and *)
(* the arbiter (OperationCoordinator) name the same dictation.                *)
THEOREM SlotAndArbiterAgree == Spec => []ArbiterMatchesSlot
  BY Invariance, PTL DEF IInv

(* A recording cancelled before its thread looked at the shared cancelled     *)
(* flag is never retained, queued, transcribed or delivered, although a later *)
(* start resets that flag.                                                    *)
THEOREM CancelIsFinal == Spec => []CancelledCaptureIsDropped
  BY Invariance, PTL DEF IInv
-----------------------------------------------------------------------------
(***************************************************************************)
(* Order.  Utterances are delivered in the order they were spoken, and one *)
(* dictation runs at a time, only because every thread is prompt: the      *)
(* polls that notice the end of a capture run before the user's next       *)
(* start, nobody cancels and nobody retries.  (With one cancel or one      *)
(* retry TLC finds OneDictationAtATime violated: both take audio past      *)
(* DictationIsFinishing.)  Nothing in the code keeps two dictations apart  *)
(* by itself: the refusal of a start reads the one shared status, so the   *)
(* proof has to show that this status tells of the dictation at each stage *)
(* of its way, whichever thread carries it.                                *)
(***************************************************************************)
Prompt ==
  /\ Environment \cap {"untimely", "late_stop"} = {}
  /\ MaxCancels = 0 /\ MaxRetries = 0

(* The stages of a dictation: a capture thread that has not published its   *)
(* end, a watcher that may still take the audio, a task that waits for the  *)
(* audio or holds it, the queue, and the pass up to the delivery.           *)
Early(s) ==
  thread[s] \in {"arming", "recording", "ok", "err", "keep", "kept", "fail"}
Watched(s) ==
  \/ watcher[s] = "deliver"
  \/ watcher[s] = "watching" /\ ~stopRequested
Working(w) == waiter[w] \in {"waiting", "ready", "holding"}
Queued(s) == Among(queue, s)
Transcribed(s) == runner["queue"] # "idle" /\ job["queue"] = s
NothingQueued == queue = <<>> /\ runner["queue"] = "idle"

Pending(s) ==
  \/ Early(s) \/ Watched(s) \/ Working(<<"stop", s>>) \/ Working(<<"watch", s>>)
  \/ Queued(s) \/ Transcribed(s)

Quiet ==
  /\ \A s \in Sessions : thread[s] \in {"none", "done"} /\ watcher[s] \in {"none", "done"}
  /\ \A w \in Waiters : ~Working(w)
  /\ NothingQueued

NobodyInterferes ==
  /\ cancels = 0 /\ retries = 0 /\ ~cancelled
  /\ main \notin {"cancel_capture", "cancel_rest"}
  /\ \A s \in Sessions : thread[s] \notin {"discard", "rest"}
  /\ runner["retry"] = "idle"

(* The key and the dock know the newest session only, and stop no other     *)
Starting == main \in {"check", "claim", "arm", "spawn"}
StopIsOfTheNewest ==
  /\ hotSession # NoSession =>
       hotSession = issued /\ (Starting \/ thread[hotSession] # "none")
  /\ main \in {"stop", "drain"} =>
       /\ target \in Sessions /\ target = issued /\ thread[target] # "none"
       /\ hotSession = NoSession
  /\ main = "drain" => Early(target) /\ stopRequested
SlotIsOfACapture ==
  active # NoSession =>
    main \in {"arm", "spawn"} \/ Early(active) \/ thread[active] = "release"

(* Whatever is under way is of the newest session, and not delivered yet    *)
LiveIsNewest ==
  \A s \in Sessions : Pending(s) \/ watcher[s] \in {"watching", "no_audio"} =>
    thread[s] # "none" /\ \A q \in Sessions : q > s => thread[q] = "none"
PendingIsUndelivered ==
  \A s \in Sessions : Pending(s) =>
    ~resolved /\ \A i \in 1 .. Len(delivered) : delivered[i] < s

(* The stages exclude each other, and the shared status names the stage     *)
EarlyStage ==
  \A s \in Sessions : Early(s) =>
    /\ status \in {"arming", "capturing", "draining"}
    /\ NothingQueued
    /\ \A w \in Waiters : Working(w) => w = <<"stop", s>> /\ waiter[w] = "waiting"
    /\ \A q \in Sessions : watcher[q] # "deliver"
WatchStage ==
  \A s \in Sessions : Watched(s) =>
    /\ NothingQueued /\ \A w \in Waiters : ~Working(w)
    /\ Early(s) \/ status \in {"captured", "failed"}
    /\ watcher[s] = "deliver" => status = "captured"
WaitStage ==
  \A w \in Waiters : Working(w) =>
    /\ NothingQueued /\ \A v \in Waiters : Working(v) => v = w
    /\ Early(w[2]) \/ status \in {"captured", "failed"}
    /\ waiter[w] # "waiting" => status = "captured"
    /\ waiter[w] = "holding" => held[w] = w[2]
QueueStage ==
  queue # <<>> =>
    Len(queue) = 1 /\ status = "captured" /\ runner["queue"] = "idle"
PassStage ==
  /\ runner["queue"] \in {"pass", "answered", "publish"} => status = "finalizing"
  /\ runner["queue"] \in {"deliver", "deliver_empty"} => status = "complete"

(* A start that was admitted finds nothing under way, or the capture slot   *)
(* taken, and it stays so until the start is over                           *)
StartStage ==
  /\ main = "claim" =>
       /\ \A s \in Sessions : thread[s] # "release"
       /\ Quiet \/ \E s \in Sessions : Early(s)
  /\ main \in {"arm", "spawn"} => Quiet /\ ~resolved
  /\ main = "spawn" => status = "arming"

Stages ==
  /\ EarlyStage /\ WatchStage /\ WaitStage /\ QueueStage /\ PassStage /\ StartStage

(* Inductive together with IInv *)
FlowInv ==
  /\ NobodyInterferes /\ StopIsOfTheNewest /\ SlotIsOfACapture
  /\ LiveIsNewest /\ PendingIsUndelivered
  /\ Stages
  /\ DeliveredInOrder

(* Steps that differ only in what nothing here depends on: a start that is  *)
(* refused or rejected; a capture thread that is not yet to publish; a pass *)
(* that is heard or given its lease back.                                   *)
StartEnds ==
  /\ main \in {"check", "claim"} /\ main' = "idle" /\ target' = NoSession /\ hotSession' = NoSession
  /\ resolved' \in {resolved, FALSE}
  /\ UNCHANGED <<status, active, stopRequested, cancelled, thread, watcher, waiterVars,
                 queue, runner, job, boundVars, delivered>>
ThreadMoves(s) ==
  /\ Early(s)
  /\ \E to \in {"recording", "ok", "err", "keep", "kept", "fail"} :
       thread' = [thread EXCEPT ![s] = to]
  /\ status' \in {status, "capturing"}
  /\ UNCHANGED <<mainVars, hotSession, active, stopRequested, cancelled, watcher,
                 waiterVars, queue, runner, job, resolved, boundVars, delivered>>
PassMoves ==
  /\ \E from, to \in {"pass", "answered", "publish"} :
       runner["queue"] = from /\ runner' = [runner EXCEPT !["queue"] = to]
  /\ UNCHANGED <<mainVars, hotSession, status, active, stopRequested, cancelled,
                 thread, watcher, waiterVars, queue, job, resolved, boundVars, delivered>>

(* All that a step may rely on *)
Known == IInv /\ FlowInv /\ Prompt

-----------------------------------------------------------------------------
(* A waiter is a kind and a session. *)
LEMMA WaiterFacts ==
  /\ \A w \in Waiters :
       w[1] \in {"stop", "watch"} /\ w[2] \in Sessions /\ w = <<w[1], w[2]>>
  /\ \A s \in Sessions :
       /\ <<"stop", s>> \in Waiters /\ <<"watch", s>> \in Waiters
       /\ <<"stop", s>>[2] = s /\ <<"watch", s>>[2] = s
  BY DEF Waiters

(* A queue that holds anything holds one utterance, and its head is it. *)
LEMMA QueueHoldsOne ==
  ASSUME TypeOK, QueueStage, queue # <<>>
  PROVE  Tail(queue) = <<>> /\ Head(queue) \in Sessions /\ Queued(Head(queue))
<1>1. queue \in Seq(Sessions) /\ Len(queue) = 1 /\ Head(queue) = queue[1]
  BY DEF TypeOK, QueueStage
<1>2. Tail(queue) \in Seq(Sessions) /\ Len(Tail(queue)) = 0
  BY <1>1, HeadTailProperties
<1>3. Tail(queue) = <<>>
  BY <1>2, EmptySeq
<1>4. queue[1] \in Sessions
  BY <1>1, ElementOfSeq
<1> QED
  BY <1>1, <1>3, <1>4 DEF Queued, Among

(* Where nothing new comes under way and nothing is delivered, what is under *)
(* way is still of the newest session and undelivered.                       *)
LEMMA NothingNewUnderWay ==
  ASSUME TypeOK, LiveIsNewest, PendingIsUndelivered,
         \A q \in Sessions : Pending(q)' => Pending(q),
         \A q \in Sessions : watcher'[q] \in {"watching", "no_audio"} =>
           Pending(q) \/ watcher[q] \in {"watching", "no_audio"},
         \A q \in Sessions : thread'[q] = "none" <=> thread[q] = "none",
         delivered' = delivered, resolved' \in {resolved, FALSE}
  PROVE  LiveIsNewest' /\ PendingIsUndelivered'
<1>1. LiveIsNewest'
  BY DEF LiveIsNewest
<1>2. ASSUME NEW s \in Sessions, Pending(s)'
      PROVE  ~resolved' /\ \A i \in 1 .. Len(delivered)' : delivered'[i] < s
  <2>1. Pending(s)
    BY <1>2
  <2>2. ~resolved'
    BY <2>1 DEF PendingIsUndelivered
  <2>3. \A i \in 1 .. Len(delivered)' : delivered'[i] < s
    BY <2>1 DEF PendingIsUndelivered
  <2> QED
    BY <2>2, <2>3
<1> QED
  BY <1>1, <1>2 DEF PendingIsUndelivered

(* A working waiter is one of the ways a session may be under way, and at    *)
(* most one session is.                                                      *)
LEMMA OneIsPending ==
  ASSUME TypeOK, LiveIsNewest
  PROVE  /\ \A w \in Waiters : Working(w) => Pending(w[2])
         /\ \A s, q \in Sessions : Pending(s) /\ Pending(q) => s = q
<1>1. ASSUME NEW w \in Waiters, Working(w) PROVE Pending(w[2])
  <2>1. w = <<"stop", w[2]>> \/ w = <<"watch", w[2]>>
    BY WaiterFacts
  <2> QED
    BY <1>1, <2>1 DEF Pending
<1>2. ASSUME NEW s \in Sessions, NEW q \in Sessions, Pending(s), Pending(q)
      PROVE  s = q
  <2>1. ~(q > s) /\ ~(s > q)
    BY <1>2 DEF LiveIsNewest
  <2> QED
    BY <2>1, SessionFacts
<1> QED
  BY <1>1, <1>2

(* Delivering something newer keeps the order. *)
LEMMA AppendOrder ==
  ASSUME TypeOK, DeliveredInOrder, NEW x \in Sessions,
         \A i \in 1 .. Len(delivered) : delivered[i] < x,
         delivered' = Append(delivered, x)
  PROVE  DeliveredInOrder'
<1>1. delivered \in Seq(Sessions)
  BY DEF TypeOK
<1>2. /\ Len(delivered') = Len(delivered) + 1 /\ delivered'[Len(delivered) + 1] = x
      /\ \A i \in 1 .. Len(delivered) : delivered'[i] = delivered[i]
  BY <1>1, AppendProperties
<1>3. Len(delivered) \in Nat
  BY <1>1
<1> QED
  BY <1>2, <1>3 DEF DeliveredInOrder

(* A step after which one waiter alone works keeps the waiters' stage.       *)
LEMMA OneWaiterWorks ==
  ASSUME NEW w \in Waiters, NothingQueued',
         \A v \in Waiters : Working(v)' => v = w,
         Early(w[2])' \/ status' \in {"captured", "failed"},
         waiter'[w] # "waiting" => status' = "captured",
         waiter'[w] = "holding" => held'[w] = w[2]
  PROVE  WaitStage'
  BY DEF WaitStage

(* The UI thread, starting: an admitted start finds nothing under way or a   *)
(* capture slot that is taken.                                               *)
LEMMA StartFlows ==
  ASSUME Known, TypeOK', Press \/ StartEnds \/ StartAdmitted \/ StartClaims
      \/ StartArms \/ StartSpawns
  PROVE  FlowInv'
<1> USE SessionFacts, WaiterFacts DEF Known, FlowInv, Stages, IInv, TypeOK,
    OptSessions, mainVars, hotkeyVars, captureVars, waiterVars, runnerVars,
    boundVars, ghostVars
<1> USE DEF NobodyInterferes, StopIsOfTheNewest, SlotIsOfACapture,
    LiveIsNewest, PendingIsUndelivered, EarlyStage, WatchStage, WaitStage,
    QueueStage, PassStage, StartStage, Early, Watched, Working, Transcribed,
    NothingQueued, Starting, Pending, Quiet, Prompt, HotkeyAgrees,
    StartIsFresh, StartHoldsSlot, FreshIsIdle, Capturing,
    MicrophoneExclusive, CapturingIsNewest, Runners
<1>1. CASE Press
  <2>q. queue' = queue /\ delivered' = delivered /\ \A q : Queued(q)' <=> Queued(q)
    BY <1>1 DEF Press, PressStarts, PressStops, Queued
  <2>1. NobodyInterferes' /\ StopIsOfTheNewest' /\ SlotIsOfACapture' /\ QueueStage' /\ PassStage'
    BY <1>1, <2>q DEF Press, PressStarts, PressStops
  <2>2. LiveIsNewest' /\ PendingIsUndelivered'
    <3>1. \A q \in Sessions : Pending(q)' => Pending(q)
      BY <1>1, <2>q DEF Press, PressStarts, PressStops
    <3>2. \A q \in Sessions : watcher'[q] \in {"watching", "no_audio"} =>
            Pending(q) \/ watcher[q] \in {"watching", "no_audio"}
      BY <1>1, <2>q DEF Press, PressStarts, PressStops
    <3>3. \A q \in Sessions : thread'[q] = "none" <=> thread[q] = "none"
      BY <1>1, <2>q DEF Press, PressStarts, PressStops
    <3>4. delivered' = delivered /\ resolved' \in {resolved, FALSE}
      BY <1>1, <2>q DEF Press, PressStarts, PressStops
    <3> QED
      BY <3>1, <3>2, <3>3, <3>4, NothingNewUnderWay
  <2>3. EarlyStage' /\ WatchStage' /\ WaitStage' /\ StartStage'
    BY <1>1, <2>q DEF Press, PressStarts, PressStops
  <2>o. DeliveredInOrder'
    BY <2>q DEF DeliveredInOrder
  <2> QED
    BY <2>1, <2>2, <2>3, <2>o
<1>2. CASE StartEnds
  <2>q. queue' = queue /\ delivered' = delivered /\ \A q : Queued(q)' <=> Queued(q)
    BY <1>2 DEF StartEnds, Queued
  <2>1. NobodyInterferes' /\ StopIsOfTheNewest' /\ SlotIsOfACapture' /\ QueueStage' /\ PassStage'
    BY <1>2, <2>q DEF StartEnds
  <2>2. LiveIsNewest' /\ PendingIsUndelivered'
    <3>1. \A q \in Sessions : Pending(q)' => Pending(q)
      BY <1>2, <2>q DEF StartEnds
    <3>2. \A q \in Sessions : watcher'[q] \in {"watching", "no_audio"} =>
            Pending(q) \/ watcher[q] \in {"watching", "no_audio"}
      BY <1>2, <2>q DEF StartEnds
    <3>3. \A q \in Sessions : thread'[q] = "none" <=> thread[q] = "none"
      BY <1>2, <2>q DEF StartEnds
    <3>4. delivered' = delivered /\ resolved' \in {resolved, FALSE}
      BY <1>2, <2>q DEF StartEnds
    <3> QED
      BY <3>1, <3>2, <3>3, <3>4, NothingNewUnderWay
  <2>3. EarlyStage' /\ WatchStage' /\ WaitStage' /\ StartStage'
    BY <1>2, <2>q DEF StartEnds
  <2>o. DeliveredInOrder'
    BY <2>q DEF DeliveredInOrder
  <2> QED
    BY <2>1, <2>2, <2>3, <2>o
<1>3. CASE StartAdmitted
  <2>q. queue' = queue /\ delivered' = delivered /\ \A q : Queued(q)' <=> Queued(q)
    BY <1>3 DEF StartAdmitted, Queued
  <2>1. NobodyInterferes' /\ StopIsOfTheNewest' /\ SlotIsOfACapture' /\ QueueStage' /\ PassStage'
    BY <1>3, <2>q DEF StartAdmitted
  <2>2. LiveIsNewest' /\ PendingIsUndelivered'
    <3>1. \A q \in Sessions : Pending(q)' => Pending(q)
      BY <1>3, <2>q DEF StartAdmitted
    <3>2. \A q \in Sessions : watcher'[q] \in {"watching", "no_audio"} =>
            Pending(q) \/ watcher[q] \in {"watching", "no_audio"}
      BY <1>3, <2>q DEF StartAdmitted
    <3>3. \A q \in Sessions : thread'[q] = "none" <=> thread[q] = "none"
      BY <1>3, <2>q DEF StartAdmitted
    <3>4. delivered' = delivered /\ resolved' \in {resolved, FALSE}
      BY <1>3, <2>q DEF StartAdmitted
    <3> QED
      BY <3>1, <3>2, <3>3, <3>4, NothingNewUnderWay
  <2>3. EarlyStage' /\ WatchStage' /\ WaitStage'
    BY <1>3, <2>q DEF StartAdmitted
  <2>4. StartStage'
    <3>1. \A s \in Sessions : thread[s] # "release"
      BY <1>3 DEF StartAdmitted, TimelyPollers
    <3>2. ASSUME \A s \in Sessions : ~Early(s) PROVE Quiet
      <4>1. \A s \in Sessions : thread[s] \in {"none", "done"}
        BY <3>1, <3>2 DEF ThreadPlaces
      <4>2. \A s \in Sessions : watcher[s] \in {"none", "done"}
        BY <1>3, <3>2 DEF StartAdmitted, TimelyPollers, WatchEnds, CaptureRuns, WatcherPlaces
      <4>3. \A w \in Waiters : ~Working(w)
        BY <1>3, <3>2 DEF StartAdmitted, TimelyPollers, PollEnds, DictationIsFinishing
      <4>4. NothingQueued
        <5>1. queue = <<>>
          BY <1>3 DEF StartAdmitted, DictationIsFinishing
        <5>2. ASSUME runner["queue"] # "idle" PROVE FALSE
          <6>1. Transcribed(job["queue"]) /\ job["queue"] \in Sessions
            BY <5>2 DEF JobsAreNamed
          <6> QED
            BY <1>3, <5>2, <6>1 DEF StartAdmitted, DictationIsFinishing, RunnerPlaces
        <5> QED
          BY <5>1, <5>2
      <4> QED
        BY <4>1, <4>2, <4>3, <4>4
    <3> QED
      BY <1>3, <2>q, <3>1, <3>2 DEF StartAdmitted
  <2>o. DeliveredInOrder'
    BY <2>q DEF DeliveredInOrder
  <2> QED
    BY <2>1, <2>2, <2>3, <2>4, <2>o
<1>4. CASE StartClaims
  <2>q. queue' = queue /\ delivered' = delivered /\ \A q : Queued(q)' <=> Queued(q)
    BY <1>4 DEF StartClaims, CaptureSlotFree, Queued
  <2>1. NobodyInterferes' /\ StopIsOfTheNewest' /\ SlotIsOfACapture' /\ QueueStage' /\ PassStage'
    BY <1>4, <2>q DEF StartClaims, CaptureSlotFree
  <2>2. LiveIsNewest' /\ PendingIsUndelivered'
    <3>1. \A q \in Sessions : Pending(q)' => Pending(q)
      BY <1>4, <2>q DEF StartClaims, CaptureSlotFree
    <3>2. \A q \in Sessions : watcher'[q] \in {"watching", "no_audio"} =>
            Pending(q) \/ watcher[q] \in {"watching", "no_audio"}
      BY <1>4, <2>q DEF StartClaims, CaptureSlotFree
    <3>3. \A q \in Sessions : thread'[q] = "none" <=> thread[q] = "none"
      BY <1>4, <2>q DEF StartClaims, CaptureSlotFree
    <3>4. delivered' = delivered /\ resolved' \in {resolved, FALSE}
      BY <1>4, <2>q DEF StartClaims, CaptureSlotFree
    <3> QED
      BY <3>1, <3>2, <3>3, <3>4, NothingNewUnderWay
  <2>3. EarlyStage' /\ WatchStage' /\ WaitStage' /\ StartStage'
    BY <1>4, <2>q DEF StartClaims, CaptureSlotFree
  <2>o. DeliveredInOrder'
    BY <2>q DEF DeliveredInOrder
  <2> QED
    BY <2>1, <2>2, <2>3, <2>o
<1>5. CASE StartArms
  <2>q. queue' = queue /\ delivered' = delivered /\ \A q : Queued(q)' <=> Queued(q)
    BY <1>5 DEF StartArms, Queued
  <2>1. NobodyInterferes' /\ StopIsOfTheNewest' /\ SlotIsOfACapture' /\ QueueStage' /\ PassStage'
    BY <1>5, <2>q DEF StartArms
  <2>2. LiveIsNewest' /\ PendingIsUndelivered'
    <3>1. \A q \in Sessions : Pending(q)' => Pending(q)
      BY <1>5, <2>q DEF StartArms
    <3>2. \A q \in Sessions : watcher'[q] \in {"watching", "no_audio"} =>
            Pending(q) \/ watcher[q] \in {"watching", "no_audio"}
      BY <1>5, <2>q DEF StartArms
    <3>3. \A q \in Sessions : thread'[q] = "none" <=> thread[q] = "none"
      BY <1>5, <2>q DEF StartArms
    <3>4. delivered' = delivered /\ resolved' \in {resolved, FALSE}
      BY <1>5, <2>q DEF StartArms
    <3> QED
      BY <3>1, <3>2, <3>3, <3>4, NothingNewUnderWay
  <2>3. EarlyStage' /\ WatchStage' /\ WaitStage' /\ StartStage'
    BY <1>5, <2>q DEF StartArms
  <2>o. DeliveredInOrder'
    BY <2>q DEF DeliveredInOrder
  <2> QED
    BY <2>1, <2>2, <2>3, <2>o
<1>6. CASE StartSpawns
  <2>q. queue' = queue /\ delivered' = delivered /\ \A q : Queued(q)' <=> Queued(q)
    BY <1>6 DEF StartSpawns, Queued
  <2>1. NobodyInterferes' /\ StopIsOfTheNewest' /\ SlotIsOfACapture' /\ QueueStage' /\ PassStage'
    BY <1>6, <2>q DEF StartSpawns
  <2>2. LiveIsNewest' /\ PendingIsUndelivered'
    <3>1. Quiet /\ ~resolved /\ target \in Sessions /\ thread[target] = "none"
      BY <1>6 DEF StartSpawns
    <3>2. ASSUME NEW s \in Sessions, Pending(s)' \/ watcher'[s] \in {"watching", "no_audio"}
          PROVE  s = target
      <4>0. /\ thread' = [thread EXCEPT ![target] = "arming"]
            /\ watcher' = [watcher EXCEPT ![target] = "watching"]
        BY <1>6 DEF StartSpawns
      <4>1. s = target \/ (thread[s] \in {"none", "done"} /\ thread'[s] = thread[s])
        BY <3>1, <4>0
      <4>2. s = target \/ (watcher[s] \in {"none", "done"} /\ watcher'[s] = watcher[s])
        BY <3>1, <4>0
      <4>3. ~Queued(s)' /\ ~Transcribed(s)'
        BY <1>6, <2>q, <3>1 DEF StartSpawns, Queued, Among
      <4>4. ~Working(<<"stop", s>>)' /\ ~Working(<<"watch", s>>)'
        BY <1>6, <3>1 DEF StartSpawns
      <4> QED
        BY <3>2, <4>1, <4>2, <4>3, <4>4
    <3>3. \A q \in Sessions : q > target => thread[q] = "none"
      BY <1>6, <3>1 DEF StartSpawns
    <3>4. \A i \in 1 .. Len(delivered) : delivered[i] < target
      <4> SUFFICES ASSUME NEW i \in 1 .. Len(delivered) PROVE delivered[i] < target
        OBVIOUS
      <4>1. delivered[i] \in Sessions
        BY ElementOfSeq
      <4>2. ~Unretained(delivered[i])
        BY <4>1 DEF RetainedFirst, Untouched
      <4>3. delivered[i] # target /\ ~(delivered[i] > target)
        BY <3>1, <3>3, <4>1, <4>2 DEF Unretained
      <4> QED
        BY <3>1, <4>1, <4>3
    <3> QED
      BY <1>6, <2>q, <3>1, <3>2, <3>3, <3>4 DEF StartSpawns
  <2>3. EarlyStage'
    BY <1>6, <2>q DEF StartSpawns
  <2>4. WatchStage'
    <3>1. PICK c \in Sessions : c = target
      BY <1>6 DEF StartSpawns
    <3>2. Quiet /\ waiter' = waiter /\ queue' = queue /\ runner' = runner
      BY <1>6 DEF StartSpawns
    <3>3. /\ thread' = [thread EXCEPT ![c] = "arming"]
          /\ watcher' = [watcher EXCEPT ![c] = "watching"]
      BY <1>6, <3>1 DEF StartSpawns
    <3>4. \A q \in Sessions : Watched(q)' => q = c
      <4> SUFFICES ASSUME NEW q \in Sessions, q # c  PROVE ~Watched(q)'
        OBVIOUS
      <4>1. watcher[q] \in {"none", "done"}
        BY <3>2
      <4>2. watcher'[q] = watcher[q]
        BY <3>3 DEF TypeOK
      <4> QED
        BY <4>1, <4>2
    <3>5. Early(c)' /\ watcher'[c] # "deliver"
      BY <3>3
    <3>6. NothingQueued' /\ \A v \in Waiters : ~Working(v)'
      BY <3>2
    <3> HIDE DEF Watched, Early, Working, NothingQueued
    <3> QED
      BY <3>4, <3>5, <3>6
  <2>5. WaitStage'
    <3>1. Quiet /\ waiter' = waiter
      BY <1>6 DEF StartSpawns
    <3>2. \A v \in Waiters : ~Working(v)'
      BY <3>1
    <3> HIDE DEF Working
    <3> QED
      BY <3>2
  <2>6. StartStage'
    BY <1>6, <2>q DEF StartSpawns
  <2>o. DeliveredInOrder'
    BY <2>q DEF DeliveredInOrder
  <2> QED
    BY <2>1, <2>2, <2>3, <2>4, <2>5, <2>6, <2>o
<1> QED
  BY <1>1, <1>2, <1>3, <1>4, <1>5, <1>6

(* The UI thread, stopping: what it stops is the newest capture, and it is
   not over. *)
LEMMA StopFlows ==
  ASSUME Known, TypeOK', StopSignals \/ StopDrains
  PROVE  FlowInv'
<1> USE SessionFacts, WaiterFacts DEF Known, FlowInv, Stages, IInv, TypeOK,
    OptSessions, mainVars, hotkeyVars, captureVars, waiterVars, runnerVars,
    boundVars, ghostVars
<1> USE DEF NobodyInterferes, StopIsOfTheNewest, SlotIsOfACapture,
    LiveIsNewest, PendingIsUndelivered, EarlyStage, WatchStage, WaitStage,
    QueueStage, PassStage, StartStage, Early, Watched, Working, Transcribed,
    NothingQueued, Starting, Pending, Quiet, Prompt, HotkeyAgrees,
    StartIsFresh, StartHoldsSlot, FreshIsIdle, Capturing,
    MicrophoneExclusive, CapturingIsNewest, Runners
<1>1. CASE StopSignals
  <2>q. queue' = queue /\ delivered' = delivered /\ \A q : Queued(q)' <=> Queued(q)
    BY <1>1 DEF StopSignals, Queued
  <2>1. NobodyInterferes' /\ SlotIsOfACapture' /\ QueueStage' /\ PassStage'
    BY <1>1, <2>q DEF StopSignals
  <2>2. StopIsOfTheNewest'
    <3>1. ASSUME active # NoSession PROVE active = target
      <4>1. active \in Sessions /\ Early(active)
        BY <1>1, <3>1 DEF StopSignals
      <4>2. target \in Sessions /\ target = issued /\ thread[target] # "none"
        BY <1>1 DEF StopSignals
      <4> HIDE DEF NobodyInterferes, StopIsOfTheNewest, SlotIsOfACapture, EarlyStage, WatchStage,
              WaitStage, QueueStage, PassStage, StartStage, Prompt, HotkeyAgrees, StartHoldsSlot,
              MicrophoneExclusive, CapturingIsNewest
      <4>3. ~(target > active)
        BY <4>1, <4>2
      <4>4. ~(active > issued)
        BY <4>1
      <4> QED
        BY <4>1, <4>2, <4>3, <4>4
    <3> QED
      BY <1>1, <2>q, <3>1 DEF StopSignals
  <2>3. LiveIsNewest' /\ PendingIsUndelivered'
    <3>1. \A q \in Sessions : Pending(q)' => Pending(q)
      BY <1>1, <2>q DEF StopSignals
    <3>2. \A q \in Sessions : watcher'[q] \in {"watching", "no_audio"} =>
            Pending(q) \/ watcher[q] \in {"watching", "no_audio"}
      BY <1>1, <2>q DEF StopSignals
    <3>3. \A q \in Sessions : thread'[q] = "none" <=> thread[q] = "none"
      BY <1>1, <2>q DEF StopSignals
    <3>4. delivered' = delivered /\ resolved' \in {resolved, FALSE}
      BY <1>1, <2>q DEF StopSignals
    <3> QED
      BY <3>1, <3>2, <3>3, <3>4, NothingNewUnderWay
  <2>4. EarlyStage' /\ WatchStage' /\ WaitStage' /\ StartStage'
    BY <1>1, <2>q DEF StopSignals
  <2>o. DeliveredInOrder'
    BY <2>q DEF DeliveredInOrder
  <2> QED
    BY <2>1, <2>2, <2>3, <2>4, <2>o
<1>2. CASE StopDrains
  <2>q. queue' = queue /\ delivered' = delivered /\ \A q : Queued(q)' <=> Queued(q)
    BY <1>2 DEF StopDrains, Queued
  <2>1. NobodyInterferes' /\ StopIsOfTheNewest' /\ SlotIsOfACapture' /\ QueueStage' /\ PassStage'
    BY <1>2, <2>q DEF StopDrains
  <2>2. LiveIsNewest' /\ PendingIsUndelivered'
    <3>1. \A q \in Sessions : Pending(q)' => Pending(q)
      BY <1>2, <2>q DEF StopDrains
    <3>2. \A q \in Sessions : watcher'[q] \in {"watching", "no_audio"} =>
            Pending(q) \/ watcher[q] \in {"watching", "no_audio"}
      BY <1>2, <2>q DEF StopDrains
    <3>3. \A q \in Sessions : thread'[q] = "none" <=> thread[q] = "none"
      BY <1>2, <2>q DEF StopDrains
    <3>4. delivered' = delivered /\ resolved' \in {resolved, FALSE}
      BY <1>2, <2>q DEF StopDrains
    <3> QED
      BY <3>1, <3>2, <3>3, <3>4, NothingNewUnderWay
  <2>3. EarlyStage' /\ WatchStage' /\ StartStage'
    BY <1>2, <2>q DEF StopDrains
  <2>4. WaitStage'
    <3>0. PICK c \in Sessions : c = target
      BY <1>2 DEF StopDrains
    <3>w. PICK w \in Waiters : w = <<"stop", c>>
      OBVIOUS
    <3>1. Early(c) /\ NothingQueued /\ \A v \in Waiters : Working(v) => v = w
      BY <1>2, <3>0, <3>w DEF StopDrains
    <3>2. /\ waiter' = [waiter EXCEPT ![w] = "waiting"]
          /\ thread' = thread /\ (NothingQueued' <=> NothingQueued)
      BY <1>2, <3>0, <3>w DEF StopDrains
    <3>3. \A v \in Waiters : Working(v)' => v = w
      BY <3>1, <3>2
    <3>4. NothingQueued' /\ waiter'[w] = "waiting" /\ Early(w[2])'
      BY <3>1, <3>2, <3>w
    <3> HIDE DEF Early, Working, NothingQueued, WaitStage
    <3> QED
      BY <3>3, <3>4, OneWaiterWorks
  <2>o. DeliveredInOrder'
    BY <2>q DEF DeliveredInOrder
  <2> QED
    BY <2>1, <2>2, <2>3, <2>4, <2>o
<1> QED
  BY <1>1, <1>2

(* The capture thread. *)
LEMMA ThreadFlows ==
  ASSUME Known, TypeOK', NEW s \in Sessions, ThreadMoves(s) \/
      ThreadPublishes(s) \/ ThreadReleases(s)
  PROVE  FlowInv'
<1> USE SessionFacts, WaiterFacts DEF Known, FlowInv, Stages, IInv, TypeOK,
    OptSessions, mainVars, hotkeyVars, captureVars, waiterVars, runnerVars,
    boundVars, ghostVars
<1> USE DEF NobodyInterferes, StopIsOfTheNewest, SlotIsOfACapture,
    LiveIsNewest, PendingIsUndelivered, EarlyStage, WatchStage, WaitStage,
    QueueStage, PassStage, StartStage, Early, Watched, Working, Transcribed,
    NothingQueued, Starting, Pending, Quiet, Prompt, HotkeyAgrees,
    StartIsFresh, StartHoldsSlot, FreshIsIdle, Capturing,
    MicrophoneExclusive, CapturingIsNewest, Runners
<1>1. CASE ThreadMoves(s)
  <2>q. queue' = queue /\ delivered' = delivered /\ \A q : Queued(q)' <=> Queued(q)
    BY <1>1 DEF ThreadMoves, Queued
  <2>1. NobodyInterferes' /\ StopIsOfTheNewest' /\ SlotIsOfACapture' /\ QueueStage' /\ PassStage'
    BY <1>1, <2>q DEF ThreadMoves
  <2>2. LiveIsNewest' /\ PendingIsUndelivered'
    <3>1. \A q \in Sessions : Pending(q)' => Pending(q)
      BY <1>1, <2>q DEF ThreadMoves
    <3>2. \A q \in Sessions : watcher'[q] \in {"watching", "no_audio"} =>
            Pending(q) \/ watcher[q] \in {"watching", "no_audio"}
      BY <1>1, <2>q DEF ThreadMoves
    <3>3. \A q \in Sessions : thread'[q] = "none" <=> thread[q] = "none"
      BY <1>1, <2>q DEF ThreadMoves
    <3>4. delivered' = delivered /\ resolved' \in {resolved, FALSE}
      BY <1>1, <2>q DEF ThreadMoves
    <3> QED
      BY <3>1, <3>2, <3>3, <3>4, NothingNewUnderWay
  <2>3. EarlyStage' /\ WatchStage' /\ WaitStage'
    BY <1>1, <2>q DEF ThreadMoves
  <2>4. StartStage'
    <3>1. Early(s)' /\ \A q \in Sessions : thread'[q] = "release" => thread[q] = "release"
      BY <1>1 DEF ThreadMoves
    <3>2. ~Quiet /\ main' = main
      BY <1>1 DEF ThreadMoves
    <3> HIDE DEF Quiet, Early
    <3> QED
      BY <3>1, <3>2
  <2>o. DeliveredInOrder'
    BY <2>q DEF DeliveredInOrder
  <2> QED
    BY <2>1, <2>2, <2>3, <2>4, <2>o
<1>2. CASE ThreadPublishes(s)
  <2>q. queue' = queue /\ delivered' = delivered /\ \A q : Queued(q)' <=> Queued(q)
    BY <1>2 DEF ThreadPublishes, ThreadStep, TimelyDrain, Queued
  <2>1. NobodyInterferes' /\ StopIsOfTheNewest' /\ SlotIsOfACapture' /\ QueueStage' /\ PassStage'
    BY <1>2, <2>q DEF ThreadPublishes, ThreadStep, TimelyDrain
  <2>2. LiveIsNewest' /\ PendingIsUndelivered'
    <3>1. \A q \in Sessions : Pending(q)' => Pending(q)
      BY <1>2, <2>q DEF ThreadPublishes, ThreadStep, TimelyDrain
    <3>2. \A q \in Sessions : watcher'[q] \in {"watching", "no_audio"} =>
            Pending(q) \/ watcher[q] \in {"watching", "no_audio"}
      BY <1>2, <2>q DEF ThreadPublishes, ThreadStep, TimelyDrain
    <3>3. \A q \in Sessions : thread'[q] = "none" <=> thread[q] = "none"
      BY <1>2, <2>q DEF ThreadPublishes, ThreadStep, TimelyDrain
    <3>4. delivered' = delivered /\ resolved' \in {resolved, FALSE}
      BY <1>2, <2>q DEF ThreadPublishes, ThreadStep, TimelyDrain
    <3> QED
      BY <3>1, <3>2, <3>3, <3>4, NothingNewUnderWay
  <2>3. WatchStage' /\ WaitStage' /\ StartStage'
    BY <1>2, <2>q DEF ThreadPublishes, ThreadStep, TimelyDrain
  <2>4. EarlyStage'
    <3>1. Early(s) /\ thread'[s] = "release"
      BY <1>2 DEF ThreadPublishes, ThreadStep
    <3>2. ASSUME NEW q \in Sessions, Early(q)' PROVE FALSE
      <4>1. q # s /\ Early(q)
        BY <1>2, <3>1, <3>2 DEF ThreadPublishes, ThreadStep
      <4>2. Capturing(q) /\ Capturing(s)
        BY <3>1, <4>1
      <4> QED
        BY <4>1, <4>2
    <3> QED
      BY <3>2
  <2>o. DeliveredInOrder'
    BY <2>q DEF DeliveredInOrder
  <2> QED
    BY <2>1, <2>2, <2>3, <2>4, <2>o
<1>3. CASE ThreadReleases(s)
  <2>q. queue' = queue /\ delivered' = delivered /\ \A q : Queued(q)' <=> Queued(q)
    BY <1>3 DEF ThreadReleases, ThreadStep, Queued
  <2>1. NobodyInterferes' /\ StopIsOfTheNewest' /\ SlotIsOfACapture' /\ QueueStage' /\ PassStage'
    BY <1>3, <2>q DEF ThreadReleases, ThreadStep
  <2>2. LiveIsNewest' /\ PendingIsUndelivered'
    <3>1. \A q \in Sessions : Pending(q)' => Pending(q)
      BY <1>3, <2>q DEF ThreadReleases, ThreadStep
    <3>2. \A q \in Sessions : watcher'[q] \in {"watching", "no_audio"} =>
            Pending(q) \/ watcher[q] \in {"watching", "no_audio"}
      BY <1>3, <2>q DEF ThreadReleases, ThreadStep
    <3>3. \A q \in Sessions : thread'[q] = "none" <=> thread[q] = "none"
      BY <1>3, <2>q DEF ThreadReleases, ThreadStep
    <3>4. delivered' = delivered /\ resolved' \in {resolved, FALSE}
      BY <1>3, <2>q DEF ThreadReleases, ThreadStep
    <3> QED
      BY <3>1, <3>2, <3>3, <3>4, NothingNewUnderWay
  <2>3. EarlyStage'
    BY <1>3, <2>q DEF ThreadReleases, ThreadStep
  <2>4. WaitStage'
    BY <1>3, <2>q DEF ThreadReleases, ThreadStep
  <2>5. StartStage'
    BY <1>3, <2>q DEF ThreadReleases, ThreadStep
  <2>6. WatchStage'
    <3>1. \A q \in Sessions : (Watched(q)' <=> Watched(q)) /\ (Early(q)' <=> Early(q))
      BY <1>3 DEF ThreadReleases, ThreadStep
    <3>2. /\ NothingQueued' <=> NothingQueued
          /\ \A v \in Waiters : Working(v)' <=> Working(v)
      BY <1>3 DEF ThreadReleases
    <3>3. status' = status /\ watcher' = watcher
      BY <1>3 DEF ThreadReleases
    <3>4. ASSUME NEW q \in Sessions, Watched(q)'
          PROVE  /\ NothingQueued' /\ \A v \in Waiters : ~Working(v)'
                 /\ Early(q)' \/ status' \in {"captured", "failed"}
                 /\ watcher'[q] = "deliver" => status' = "captured"
      <4>1. Watched(q)
        BY <3>1, <3>4
      <4>2. /\ NothingQueued /\ \A v \in Waiters : ~Working(v)
            /\ Early(q) \/ status \in {"captured", "failed"}
            /\ watcher[q] = "deliver" => status = "captured"
        BY <4>1
      <4> HIDE DEF Watched, Early, NothingQueued, Working
      <4> QED
        BY <3>1, <3>2, <3>3, <4>2
    <3> QED
      BY <3>4
  <2>o. DeliveredInOrder'
    BY <2>q DEF DeliveredInOrder
  <2> QED
    BY <2>1, <2>2, <2>3, <2>4, <2>5, <2>6, <2>o
<1> QED
  BY <1>1, <1>2, <1>3

(* The watcher takes the audio only of a capture nobody stopped. *)
LEMMA WatcherFlows ==
  ASSUME Known, TypeOK', NEW s \in Sessions, WatcherPolls(s) \/
      WatcherActs(s)
  PROVE  FlowInv'
<1> USE SessionFacts, WaiterFacts DEF Known, FlowInv, Stages, IInv, TypeOK,
    OptSessions, mainVars, hotkeyVars, captureVars, waiterVars, runnerVars,
    boundVars, ghostVars
<1> USE DEF NobodyInterferes, StopIsOfTheNewest, SlotIsOfACapture,
    LiveIsNewest, PendingIsUndelivered, EarlyStage, WatchStage, WaitStage,
    QueueStage, PassStage, StartStage, Early, Watched, Working, Transcribed,
    NothingQueued, Starting, Pending, Quiet, Prompt, HotkeyAgrees,
    StartIsFresh, StartHoldsSlot, FreshIsIdle, Capturing,
    MicrophoneExclusive, CapturingIsNewest, Runners
<1>1. CASE WatcherPolls(s)
  <2>q. queue' = queue /\ delivered' = delivered /\ \A q : Queued(q)' <=> Queued(q)
    BY <1>1 DEF WatcherPolls, WatcherStep, Unattended, CanTranscribe,
        CaptureRuns, Queued
  <2>1. NobodyInterferes' /\ StopIsOfTheNewest' /\ SlotIsOfACapture' /\ QueueStage' /\ PassStage'
    BY <1>1, <2>q DEF WatcherPolls, WatcherStep, Unattended, CanTranscribe,
        CaptureRuns
  <2>2. LiveIsNewest' /\ PendingIsUndelivered'
    <3>1. \A q \in Sessions : Pending(q)' => Pending(q)
      BY <1>1, <2>q DEF WatcherPolls, WatcherStep, Unattended, CanTranscribe, CaptureRuns
    <3>2. \A q \in Sessions : watcher'[q] \in {"watching", "no_audio"} =>
            Pending(q) \/ watcher[q] \in {"watching", "no_audio"}
      BY <1>1, <2>q DEF WatcherPolls, WatcherStep, Unattended, CanTranscribe, CaptureRuns
    <3>3. \A q \in Sessions : thread'[q] = "none" <=> thread[q] = "none"
      BY <1>1, <2>q DEF WatcherPolls, WatcherStep, Unattended, CanTranscribe, CaptureRuns
    <3>4. delivered' = delivered /\ resolved' \in {resolved, FALSE}
      BY <1>1, <2>q DEF WatcherPolls, WatcherStep, Unattended, CanTranscribe, CaptureRuns
    <3> QED
      BY <3>1, <3>2, <3>3, <3>4, NothingNewUnderWay
  <2>3. EarlyStage'
    BY <1>1, <2>q DEF WatcherPolls, WatcherStep, Unattended, CanTranscribe,
        CaptureRuns
  <2>4. WatchStage'
    BY <1>1, <2>q DEF WatcherPolls, WatcherStep, Unattended, CanTranscribe,
        CaptureRuns
  <2>5. WaitStage'
    BY <1>1, <2>q DEF WatcherPolls, WatcherStep, Unattended, CanTranscribe,
        CaptureRuns
  <2>6. StartStage'
    BY <1>1, <2>q DEF WatcherPolls, WatcherStep, Unattended, CanTranscribe,
        CaptureRuns
  <2>o. DeliveredInOrder'
    BY <2>q DEF DeliveredInOrder
  <2> QED
    BY <2>1, <2>2, <2>3, <2>4, <2>5, <2>6, <2>o
<1>2. CASE WatcherActs(s)
  <2>q. queue' = queue /\ delivered' = delivered /\ \A q : Queued(q)' <=> Queued(q)
    BY <1>2 DEF WatcherActs, AbandonActiveSession, Queued
  <2>1. NobodyInterferes' /\ StopIsOfTheNewest' /\ SlotIsOfACapture' /\ QueueStage' /\ PassStage'
    <3>1. NobodyInterferes'
      BY <1>2, <2>q DEF WatcherActs, AbandonActiveSession
    <3>2. StopIsOfTheNewest'
      BY <1>2, <2>q DEF WatcherActs, AbandonActiveSession
    <3>3. SlotIsOfACapture'
      BY <1>2, <2>q DEF WatcherActs, AbandonActiveSession
    <3>4. QueueStage'
      BY <1>2, <2>q DEF WatcherActs, AbandonActiveSession
    <3>5. PassStage'
      BY <1>2, <2>q DEF WatcherActs, AbandonActiveSession
    <3> QED
      BY <3>1, <3>2, <3>3, <3>4, <3>5
  <2>2. LiveIsNewest' /\ PendingIsUndelivered'
    <3>1. \A q \in Sessions : Pending(q)' => Pending(q)
      BY <1>2, <2>q DEF WatcherActs, AbandonActiveSession
    <3>2. \A q \in Sessions : watcher'[q] \in {"watching", "no_audio"} =>
            Pending(q) \/ watcher[q] \in {"watching", "no_audio"}
      BY <1>2, <2>q DEF WatcherActs, AbandonActiveSession
    <3>3. \A q \in Sessions : thread'[q] = "none" <=> thread[q] = "none"
      BY <1>2, <2>q DEF WatcherActs, AbandonActiveSession
    <3>4. delivered' = delivered /\ resolved' \in {resolved, FALSE}
      BY <1>2, <2>q DEF WatcherActs, AbandonActiveSession
    <3> QED
      BY <3>1, <3>2, <3>3, <3>4, NothingNewUnderWay
  <2>3. EarlyStage'
    BY <1>2, <2>q DEF WatcherActs, AbandonActiveSession
  <2>4. StartStage'
    BY <1>2, <2>q DEF WatcherActs, AbandonActiveSession
  <2>5. WatchStage'
    <3>1. ASSUME NEW q \in Sessions, Watched(q)'
          PROVE  q # s /\ Watched(q) /\ watcher[s] = "no_audio"
      <4>1. q # s /\ Watched(q)
        BY <1>2, <3>1 DEF WatcherActs
      <4>2. Pending(q) /\ (Watched(s) => Pending(s))
        BY <4>1 DEF Pending
      <4>3. ~Watched(s)
        BY <4>1, <4>2, OneIsPending
      <4> QED
        BY <1>2, <4>1, <4>3 DEF WatcherActs, Watched
    <3>2. watcher[s] = "no_audio" => waiter' = waiter
      BY <1>2 DEF WatcherActs
    <3> QED
      BY <1>2, <2>q, <3>1, <3>2 DEF WatcherActs
  <2>6. WaitStage'
    <3>1. CASE watcher[s] = "deliver"
      <4>1. /\ Watched(s) /\ status = "captured" /\ NothingQueued
            /\ \A w \in Waiters : ~Working(w)
        BY <3>1
      <4>w. PICK w \in Waiters : w = <<"watch", s>>
        OBVIOUS
      <4>2. /\ waiter' = [waiter EXCEPT ![w] = "waiting"]
            /\ status' = status /\ (NothingQueued' <=> NothingQueued)
        BY <1>2, <3>1, <4>w DEF WatcherActs
      <4>3. \A v \in Waiters : Working(v)' => v = w
        BY <4>1, <4>2
      <4>4. NothingQueued' /\ status' = "captured" /\ waiter'[w] = "waiting"
        BY <4>1, <4>2
      <4> HIDE DEF Early, Working, NothingQueued, WaitStage
      <4> QED
        BY <4>3, <4>4, OneWaiterWorks
    <3>2. CASE watcher[s] # "deliver"
      BY <1>2, <2>q, <3>2 DEF WatcherActs
    <3> QED
      BY <3>1, <3>2
  <2>o. DeliveredInOrder'
    BY <2>q DEF DeliveredInOrder
  <2> QED
    BY <2>1, <2>2, <2>3, <2>4, <2>5, <2>6, <2>o
<1> QED
  BY <1>1, <1>2

(* The task that waits for the audio. *)
LEMMA WaiterFlows ==
  ASSUME Known, TypeOK', NEW w \in Waiters, WaiterSeesAudio(w) \/
      WaiterGivesUp(w) \/ WaiterClones(w) \/ WaiterSubmits(w)
  PROVE  FlowInv'
<1> USE SessionFacts, WaiterFacts DEF Known, FlowInv, Stages, IInv, TypeOK,
    OptSessions, mainVars, hotkeyVars, captureVars, waiterVars, runnerVars,
    boundVars, ghostVars
<1> USE DEF NobodyInterferes, StopIsOfTheNewest, SlotIsOfACapture,
    LiveIsNewest, PendingIsUndelivered, EarlyStage, WatchStage, WaitStage,
    QueueStage, PassStage, StartStage, Early, Watched, Working, Transcribed,
    NothingQueued, Starting, Pending, Quiet, Prompt, HotkeyAgrees,
    StartIsFresh, StartHoldsSlot, FreshIsIdle, Capturing,
    MicrophoneExclusive, CapturingIsNewest, Runners
<1>1. CASE WaiterSeesAudio(w)
  <2>q. queue' = queue /\ delivered' = delivered /\ \A q : Queued(q)' <=> Queued(q)
    BY <1>1 DEF WaiterSeesAudio, WaiterStep, CanTranscribe, Queued
  <2>1. NobodyInterferes' /\ StopIsOfTheNewest' /\ SlotIsOfACapture' /\ QueueStage' /\ PassStage'
    <3>1. NobodyInterferes'
      BY <1>1, <2>q DEF WaiterSeesAudio, WaiterStep, CanTranscribe
    <3>2. StopIsOfTheNewest'
      BY <1>1, <2>q DEF WaiterSeesAudio, WaiterStep, CanTranscribe
    <3>3. SlotIsOfACapture'
      BY <1>1, <2>q DEF WaiterSeesAudio, WaiterStep, CanTranscribe
    <3>4. QueueStage'
      BY <1>1, <2>q DEF WaiterSeesAudio, WaiterStep, CanTranscribe
    <3>5. PassStage'
      BY <1>1, <2>q DEF WaiterSeesAudio, WaiterStep, CanTranscribe
    <3> QED
      BY <3>1, <3>2, <3>3, <3>4, <3>5
  <2>2. LiveIsNewest' /\ PendingIsUndelivered'
    <3>1. \A q \in Sessions : Pending(q)' => Pending(q)
      BY <1>1, <2>q DEF WaiterSeesAudio, WaiterStep, CanTranscribe
    <3>2. \A q \in Sessions : watcher'[q] \in {"watching", "no_audio"} =>
            Pending(q) \/ watcher[q] \in {"watching", "no_audio"}
      BY <1>1, <2>q DEF WaiterSeesAudio, WaiterStep, CanTranscribe
    <3>3. \A q \in Sessions : thread'[q] = "none" <=> thread[q] = "none"
      BY <1>1, <2>q DEF WaiterSeesAudio, WaiterStep, CanTranscribe
    <3>4. delivered' = delivered /\ resolved' \in {resolved, FALSE}
      BY <1>1, <2>q DEF WaiterSeesAudio, WaiterStep, CanTranscribe
    <3> QED
      BY <3>1, <3>2, <3>3, <3>4, NothingNewUnderWay
  <2>3. EarlyStage' /\ WatchStage' /\ WaitStage' /\ StartStage'
    <3>1. EarlyStage'
      BY <1>1, <2>q DEF WaiterSeesAudio, WaiterStep, CanTranscribe
    <3>2. WatchStage'
      BY <1>1, <2>q DEF WaiterSeesAudio, WaiterStep, CanTranscribe
    <3>3. WaitStage'
      BY <1>1, <2>q DEF WaiterSeesAudio, WaiterStep, CanTranscribe
    <3>4. StartStage'
      BY <1>1, <2>q DEF WaiterSeesAudio, WaiterStep, CanTranscribe
    <3> QED
      BY <3>1, <3>2, <3>3, <3>4
  <2>o. DeliveredInOrder'
    BY <2>q DEF DeliveredInOrder
  <2> QED
    BY <2>1, <2>2, <2>3, <2>o
<1>2. CASE WaiterGivesUp(w)
  <2>q. queue' = queue /\ delivered' = delivered /\ \A q : Queued(q)' <=> Queued(q)
    BY <1>2 DEF WaiterGivesUp, WaiterStep, Queued
  <2>1. NobodyInterferes' /\ StopIsOfTheNewest' /\ SlotIsOfACapture' /\ QueueStage' /\ PassStage'
    BY <1>2, <2>q DEF WaiterGivesUp, WaiterStep
  <2>2. LiveIsNewest' /\ PendingIsUndelivered'
    <3>1. \A q \in Sessions : Pending(q)' => Pending(q)
      BY <1>2, <2>q DEF WaiterGivesUp, WaiterStep
    <3>2. \A q \in Sessions : watcher'[q] \in {"watching", "no_audio"} =>
            Pending(q) \/ watcher[q] \in {"watching", "no_audio"}
      BY <1>2, <2>q DEF WaiterGivesUp, WaiterStep
    <3>3. \A q \in Sessions : thread'[q] = "none" <=> thread[q] = "none"
      BY <1>2, <2>q DEF WaiterGivesUp, WaiterStep
    <3>4. delivered' = delivered /\ resolved' \in {resolved, FALSE}
      BY <1>2, <2>q DEF WaiterGivesUp, WaiterStep
    <3> QED
      BY <3>1, <3>2, <3>3, <3>4, NothingNewUnderWay
  <2>3. EarlyStage' /\ WatchStage' /\ StartStage'
    BY <1>2, <2>q DEF WaiterGivesUp, WaiterStep
  <2>4. WaitStage'
    <3>1. Working(w) /\ waiter' = [waiter EXCEPT ![w] = "done"]
      BY <1>2 DEF WaiterGivesUp, WaiterStep
    <3>2. \A v \in Waiters : v # w => ~Working(v)
      BY <3>1
    <3>3. \A v \in Waiters : ~Working(v)'
      BY <3>1, <3>2
    <3> HIDE DEF Working
    <3> QED
      BY <3>3
  <2>o. DeliveredInOrder'
    BY <2>q DEF DeliveredInOrder
  <2> QED
    BY <2>1, <2>2, <2>3, <2>4, <2>o
<1>3. CASE WaiterClones(w)
  <2>q. queue' = queue /\ delivered' = delivered /\ \A q : Queued(q)' <=> Queued(q)
    BY <1>3 DEF WaiterClones, WaiterStep, AudioRetained, Queued
  <2>1. NobodyInterferes' /\ StopIsOfTheNewest' /\ SlotIsOfACapture' /\ QueueStage' /\ PassStage'
    <3>1. NobodyInterferes'
      BY <1>3, <2>q DEF WaiterClones, WaiterStep, AudioRetained
    <3>2. StopIsOfTheNewest'
      BY <1>3, <2>q DEF WaiterClones, WaiterStep, AudioRetained
    <3>3. SlotIsOfACapture'
      BY <1>3, <2>q DEF WaiterClones, WaiterStep, AudioRetained
    <3>4. QueueStage'
      BY <1>3, <2>q DEF WaiterClones, WaiterStep, AudioRetained
    <3>5. PassStage'
      BY <1>3, <2>q DEF WaiterClones, WaiterStep, AudioRetained
    <3> QED
      BY <3>1, <3>2, <3>3, <3>4, <3>5
  <2>2. LiveIsNewest' /\ PendingIsUndelivered'
    <3>1. \A q \in Sessions : Pending(q)' => Pending(q)
      BY <1>3, <2>q DEF WaiterClones, WaiterStep, AudioRetained
    <3>2. \A q \in Sessions : watcher'[q] \in {"watching", "no_audio"} =>
            Pending(q) \/ watcher[q] \in {"watching", "no_audio"}
      BY <1>3, <2>q DEF WaiterClones, WaiterStep, AudioRetained
    <3>3. \A q \in Sessions : thread'[q] = "none" <=> thread[q] = "none"
      BY <1>3, <2>q DEF WaiterClones, WaiterStep, AudioRetained
    <3>4. delivered' = delivered /\ resolved' \in {resolved, FALSE}
      BY <1>3, <2>q DEF WaiterClones, WaiterStep, AudioRetained
    <3> QED
      BY <3>1, <3>2, <3>3, <3>4, NothingNewUnderWay
  <2>3. EarlyStage' /\ WatchStage' /\ StartStage'
    BY <1>3, <2>q DEF WaiterClones, WaiterStep, AudioRetained
  <2>4. WaitStage'
    <3>1. retained \in Sessions /\ w[2] \in Sessions /\ Working(w)
      BY <1>3 DEF WaiterClones, WaiterStep, AudioRetained
    <3>2. Pending(w[2])
      BY <3>1, OneIsPending
    <3>3. ~Unretained(retained)
      BY <3>1 DEF RetainedFirst, Untouched
    <3>4. ~(retained > w[2]) /\ ~(w[2] > retained)
      BY <3>1, <3>2, <3>3 DEF Unretained, RetainedIsNewest
    <3>5. retained = w[2]
      BY <3>1, <3>4
    <3>6. /\ waiter' = [waiter EXCEPT ![w] = "holding"] /\ held' = [held EXCEPT ![w] = retained]
          /\ waiter[w] = "ready" /\ status' = status /\ (NothingQueued' <=> NothingQueued)
      BY <1>3 DEF WaiterClones, WaiterStep
    <3>7. \A v \in Waiters : Working(v)' => v = w
      BY <3>1, <3>6
    <3>8. status = "captured" /\ NothingQueued
      BY <3>6
    <3>9. NothingQueued' /\ status' = "captured" /\ waiter'[w] = "holding" /\ held'[w] = w[2]
      BY <3>5, <3>6, <3>8
    <3> HIDE DEF Early, Working, NothingQueued, WaitStage
    <3> QED
      BY <3>7, <3>9, OneWaiterWorks
  <2>o. DeliveredInOrder'
    BY <2>q DEF DeliveredInOrder
  <2> QED
    BY <2>1, <2>2, <2>3, <2>4, <2>o
<1>4. CASE WaiterSubmits(w)
  <2>1. NobodyInterferes' /\ StopIsOfTheNewest' /\ SlotIsOfACapture' /\ QueueStage' /\ PassStage'
    BY <1>4 DEF WaiterSubmits, WaiterStep
  <2>2. LiveIsNewest' /\ PendingIsUndelivered'
    <3>1. Working(w) /\ waiter[w] = "holding" /\ held[w] = w[2] /\ w[2] \in Sessions
      BY <1>4 DEF WaiterSubmits, WaiterStep
    <3>2. ASSUME NEW q \in Sessions, Queued(q)' PROVE Queued(q) \/ q = w[2]
      BY <1>4, <3>1, <3>2, AppendAmong DEF WaiterSubmits, Queued, Among
    <3>3. ASSUME NEW q \in Sessions, Pending(q)' PROVE Pending(q)
      <4>1. \A v \in Waiters : Working(v)' => Working(v)
        BY <1>4 DEF WaiterSubmits, WaiterStep
      <4>2. (Early(q)' => Early(q)) /\ (Watched(q)' => Watched(q))
            /\ (Transcribed(q)' => Transcribed(q))
        BY <1>4 DEF WaiterSubmits
      <4>3. q = w[2] => Pending(q)
        BY <3>1, OneIsPending
      <4> HIDE DEF Working, Early, Watched, Transcribed
      <4> QED
        BY <3>2, <3>3, <4>1, <4>2, <4>3
    <3>4. watcher' = watcher /\ thread' = thread /\ delivered' = delivered /\ resolved' = resolved
      BY <1>4 DEF WaiterSubmits
    <3> QED
      BY <3>3, <3>4, NothingNewUnderWay
  <2>3. EarlyStage' /\ WatchStage' /\ WaitStage' /\ StartStage'
    BY <1>4 DEF WaiterSubmits, WaiterStep
  <2>o. DeliveredInOrder'
    BY <1>4 DEF WaiterSubmits, WaiterStep, DeliveredInOrder
  <2> QED
    BY <2>1, <2>2, <2>3, <2>o
<1> QED
  BY <1>1, <1>2, <1>3, <1>4

(* The queue consumer. *)
LEMMA RunnerFlows ==
  ASSUME Known, TypeOK', RunnerBegins("queue") \/ PassMoves \/
      RunnerPublishes("queue") \/ RunnerDelivers
  PROVE  FlowInv'
<1> USE SessionFacts, WaiterFacts DEF Known, FlowInv, Stages, IInv, TypeOK,
    OptSessions, mainVars, hotkeyVars, captureVars, waiterVars, runnerVars,
    boundVars, ghostVars
<1> USE DEF NobodyInterferes, StopIsOfTheNewest, SlotIsOfACapture,
    LiveIsNewest, PendingIsUndelivered, EarlyStage, WatchStage, WaitStage,
    QueueStage, PassStage, StartStage, Early, Watched, Working, Transcribed,
    NothingQueued, Starting, Pending, Quiet, Prompt, HotkeyAgrees,
    StartIsFresh, StartHoldsSlot, FreshIsIdle, Capturing,
    MicrophoneExclusive, CapturingIsNewest, Runners
<1>1. CASE RunnerBegins("queue")
  <2>h. queue # <<>> /\ Tail(queue) = <<>> /\ Head(queue) \in Sessions /\ Queued(Head(queue))
    BY <1>1, QueueHoldsOne DEF RunnerBegins, TakeJob
  <2>e. /\ queue' = <<>> /\ retries' = retries /\ delivered' = delivered
        /\ job' = [job EXCEPT !["queue"] = Head(queue)]
    BY <1>1, <2>h DEF RunnerBegins, TakeJob
  <2>n. \A q : ~Queued(q)'
    BY <2>e DEF Queued, Among
  <2>1. NobodyInterferes' /\ StopIsOfTheNewest' /\ SlotIsOfACapture' /\ QueueStage' /\ PassStage'
    <3>1. NobodyInterferes'
      BY <1>1, <2>h, <2>e, <2>n DEF RunnerBegins
    <3>2. StopIsOfTheNewest'
      BY <1>1, <2>h, <2>e, <2>n DEF RunnerBegins
    <3>3. SlotIsOfACapture'
      BY <1>1, <2>h, <2>e, <2>n DEF RunnerBegins
    <3>4. QueueStage'
      BY <1>1, <2>h, <2>e, <2>n DEF RunnerBegins
    <3>5. PassStage'
      BY <1>1, <2>h, <2>e, <2>n DEF RunnerBegins
    <3> QED
      BY <3>1, <3>2, <3>3, <3>4, <3>5
  <2>2. LiveIsNewest' /\ PendingIsUndelivered'
    BY <1>1, <2>h, <2>e, <2>n DEF RunnerBegins, LeaseFree, TakeJob
  <2>3. EarlyStage' /\ WatchStage' /\ WaitStage' /\ StartStage'
    BY <1>1, <2>h, <2>e, <2>n DEF RunnerBegins, LeaseFree, TakeJob
  <2>o. DeliveredInOrder'
    BY <1>1 DEF RunnerBegins, LeaseFree, TakeJob, DeliveredInOrder
  <2> QED
    BY <2>1, <2>2, <2>3, <2>o
<1>2. CASE PassMoves
  <2>q. queue' = queue /\ delivered' = delivered /\ \A q : Queued(q)' <=> Queued(q)
    BY <1>2 DEF PassMoves, Queued
  <2>1. NobodyInterferes' /\ StopIsOfTheNewest' /\ SlotIsOfACapture' /\ QueueStage' /\ PassStage'
    BY <1>2, <2>q DEF PassMoves
  <2>2. LiveIsNewest' /\ PendingIsUndelivered'
    <3>1. \A q \in Sessions : Pending(q)' => Pending(q)
      BY <1>2, <2>q DEF PassMoves
    <3>2. \A q \in Sessions : watcher'[q] \in {"watching", "no_audio"} =>
            Pending(q) \/ watcher[q] \in {"watching", "no_audio"}
      BY <1>2, <2>q DEF PassMoves
    <3>3. \A q \in Sessions : thread'[q] = "none" <=> thread[q] = "none"
      BY <1>2, <2>q DEF PassMoves
    <3>4. delivered' = delivered /\ resolved' \in {resolved, FALSE}
      BY <1>2, <2>q DEF PassMoves
    <3> QED
      BY <3>1, <3>2, <3>3, <3>4, NothingNewUnderWay
  <2>3. EarlyStage' /\ WatchStage' /\ WaitStage' /\ StartStage'
    BY <1>2, <2>q DEF PassMoves
  <2>o. DeliveredInOrder'
    BY <2>q DEF DeliveredInOrder
  <2> QED
    BY <2>1, <2>2, <2>3, <2>o
<1>3. CASE RunnerPublishes("queue")
  <2>q. queue' = queue /\ delivered' = delivered /\ \A q : Queued(q)' <=> Queued(q)
    BY <1>3 DEF RunnerPublishes, Queued
  <2>1. NobodyInterferes' /\ StopIsOfTheNewest' /\ SlotIsOfACapture' /\ QueueStage' /\ PassStage'
    BY <1>3, <2>q DEF RunnerPublishes
  <2>2. LiveIsNewest' /\ PendingIsUndelivered'
    <3>1. \A q \in Sessions : Pending(q)' => Pending(q)
      BY <1>3, <2>q DEF RunnerPublishes
    <3>2. \A q \in Sessions : watcher'[q] \in {"watching", "no_audio"} =>
            Pending(q) \/ watcher[q] \in {"watching", "no_audio"}
      BY <1>3, <2>q DEF RunnerPublishes
    <3>3. \A q \in Sessions : thread'[q] = "none" <=> thread[q] = "none"
      BY <1>3, <2>q DEF RunnerPublishes
    <3>4. delivered' = delivered /\ resolved' \in {resolved, FALSE}
      BY <1>3, <2>q DEF RunnerPublishes
    <3> QED
      BY <3>1, <3>2, <3>3, <3>4, NothingNewUnderWay
  <2>3. EarlyStage' /\ WatchStage' /\ WaitStage' /\ StartStage'
    BY <1>3, <2>q DEF RunnerPublishes
  <2>o. DeliveredInOrder'
    BY <2>q DEF DeliveredInOrder
  <2> QED
    BY <2>1, <2>2, <2>3, <2>o
<1>4. CASE RunnerDelivers
  <2>q. queue' = queue /\ \A q : Queued(q)' <=> Queued(q)
    BY <1>4 DEF RunnerDelivers, Queued
  <2>1. NobodyInterferes' /\ StopIsOfTheNewest' /\ SlotIsOfACapture' /\ QueueStage' /\ PassStage'
    BY <1>4, <2>q DEF RunnerDelivers
  <2>2. LiveIsNewest' /\ PendingIsUndelivered'
    <3>1. runner["queue"] # "idle" /\ queue = <<>>
      BY <1>4 DEF RunnerDelivers
    <3>2. /\ runner'["queue"] = "idle" /\ thread' = thread /\ watcher' = watcher
          /\ waiter' = waiter /\ stopRequested' = stopRequested
      BY <1>4 DEF RunnerDelivers
    <3>3. \A q \in Sessions : ~Early(q) /\ ~Watched(q) /\ ~Queued(q)
      BY <3>1 DEF Queued, Among
    <3>4. \A v \in Waiters : ~Working(v)
      BY <3>1
    <3>5. \A q \in Sessions : ~Pending(q)'
      BY <2>q, <3>2, <3>3, <3>4
    <3>6. LiveIsNewest'
      BY <3>2, <3>5
    <3> HIDE DEF Pending
    <3>7. PendingIsUndelivered'
      BY <3>5
    <3> QED
      BY <3>6, <3>7
  <2>3. EarlyStage' /\ WatchStage' /\ WaitStage' /\ StartStage'
    BY <1>4, <2>q DEF RunnerDelivers
  <2>o. DeliveredInOrder'
    <3>1. CASE runner["queue"] = "deliver"
      <4>1. Transcribed(job["queue"]) /\ job["queue"] \in Sessions
        BY <3>1 DEF JobsAreNamed
      <4>2. delivered' = Append(delivered, job["queue"])
        BY <1>4, <3>1 DEF RunnerDelivers
      <4>3. \A i \in 1 .. Len(delivered) : delivered[i] < job["queue"]
        BY <4>1
      <4> QED
        BY <4>1, <4>2, <4>3, AppendOrder
    <3>2. CASE runner["queue"] # "deliver"
      BY <1>4, <3>2 DEF RunnerDelivers, DeliveredInOrder
    <3> QED
      BY <3>1, <3>2
  <2> QED
    BY <2>1, <2>2, <2>3, <2>o
<1> QED
  BY <1>1, <1>2, <1>3, <1>4

(* What else changes is nothing a dictation's way depends on. *)
LEMMA FlowFrame ==
  ASSUME Known,
         UNCHANGED <<mainVars, hotSession, status, active, stopRequested, cancelled, thread,
                     watcher, waiterVars, queue, runner, job, resolved, boundVars, delivered>>
  PROVE  FlowInv'
<1> USE DEF Known, FlowInv, Stages, mainVars, waiterVars, boundVars
<1>1. \A q : Queued(q)' <=> Queued(q)
  BY DEF Queued, Among
<1>2. /\ \A s \in Sessions : (Early(s)' <=> Early(s)) /\ (Watched(s)' <=> Watched(s))
      /\ \A s \in Sessions : Pending(s)' <=> Pending(s)
      /\ \A w \in Waiters : Working(w)' <=> Working(w)
      /\ NothingQueued' <=> NothingQueued
  BY <1>1 DEF Early, Watched, Working, NothingQueued, Pending, Transcribed
<1>3. Quiet' <=> Quiet
  BY DEF Quiet, Working, NothingQueued
<1>4. NobodyInterferes' /\ StopIsOfTheNewest' /\ SlotIsOfACapture'
  BY DEF NobodyInterferes, StopIsOfTheNewest, SlotIsOfACapture, Starting, Early
<1>5. LiveIsNewest' /\ PendingIsUndelivered' /\ DeliveredInOrder'
  BY <1>2 DEF LiveIsNewest, PendingIsUndelivered, DeliveredInOrder
<1>6. EarlyStage' /\ WatchStage'
  BY <1>2 DEF EarlyStage, WatchStage
<1>7. WaitStage'
  BY <1>2, WaiterFacts DEF WaitStage
<1>8. QueueStage' /\ PassStage' /\ StartStage'
  BY <1>2, <1>3 DEF QueueStage, PassStage, StartStage
<1> QED
  BY <1>4, <1>5, <1>6, <1>7, <1>8

(* The stages hold at the start, when nothing is under way. *)
LEMMA InitFlow == Init => FlowInv
<1> SUFFICES ASSUME Init PROVE FlowInv
  OBVIOUS
<1>1. NobodyInterferes /\ StopIsOfTheNewest /\ SlotIsOfACapture /\ DeliveredInOrder
  BY DEF Init, NobodyInterferes, StopIsOfTheNewest, SlotIsOfACapture, Runners,
      DeliveredInOrder, Starting
<1>2. NothingQueued /\ \A w \in Waiters : ~Working(w)
  BY DEF Init, NothingQueued, Working, Runners
<1>3. \A s \in Sessions : ~Early(s) /\ ~Watched(s) /\ ~Pending(s)
  <2>1. \A s \in Sessions : ~Early(s) /\ ~Watched(s)
    BY DEF Init, Early, Watched
  <2>2. \A s \in Sessions : ~Queued(s) /\ ~Transcribed(s)
    BY <1>2 DEF Queued, Among, Transcribed, NothingQueued
  <2>3. \A s \in Sessions : ~Working(<<"stop", s>>) /\ ~Working(<<"watch", s>>)
    BY <1>2, WaiterFacts
  <2> QED
    BY <2>1, <2>2, <2>3 DEF Pending
<1>4. LiveIsNewest /\ PendingIsUndelivered
  BY <1>3 DEF Init, LiveIsNewest, PendingIsUndelivered
<1>5. Stages
  BY <1>2, <1>3 DEF Init, Stages, EarlyStage, WatchStage, WaitStage, QueueStage,
      PassStage, StartStage, NothingQueued
<1> QED
  BY <1>1, <1>4, <1>5 DEF FlowInv

(* Whoever acts, the stages hold. *)
LEMMA FlowStep ==
  ASSUME Known, [Next]_vars
  PROVE  FlowInv'
<1>1. IInv /\ TypeOK /\ TypeOK' /\ HotkeyAgrees /\ NobodyInterferes /\ JobsAreNamed /\ PassHoldsLease
  BY StepInv DEF Known, IInv, FlowInv
<1>2. CASE OnEvent \/ RequestStart \/ RequestStop
  BY <1>1, <1>2, PressEffect, StartFlows
<1>3. CASE StartRefused \/ StartRejected
  <2>1. StartEnds
    BY <1>1, <1>3 DEF StartRefused, StartRejected, StartEnds, AbandonActiveSession,
        captureVars, waiterVars, runnerVars, boundVars, ghostVars
  <2> QED
    BY <1>1, <2>1, StartFlows
<1>4. CASE StartAdmitted \/ StartClaims \/ StartArms \/ StartSpawns
  BY <1>1, <1>4, StartFlows
<1>5. CASE StopSignals \/ StopDrains
  BY <1>1, <1>5, StopFlows
<1>6. ~CancelPressed /\ ~CancelCapture /\ ~CancelRest
  BY <1>1 DEF Known, Prompt, NobodyInterferes, CancelPressed, CancelCapture, CancelRest
<1>7. ASSUME NEW s \in Sessions,
             \/ ThreadOpens(s) \/ ThreadRecorded(s) \/ ThreadFaults(s)
             \/ ThreadJudges(s) \/ ThreadRetains(s)
      PROVE  FlowInv'
  <2>1. ThreadMoves(s)
    BY <1>1, <1>7 DEF ThreadOpens, ThreadRecorded, ThreadFaults, ThreadJudges, ThreadRetains,
        ThreadStep, Discards, NobodyInterferes, ThreadMoves, Early, mainVars, hotkeyVars,
        captureVars, runnerVars, ghostVars
  <2> QED
    BY <1>1, <2>1, ThreadFlows
<1>8. ASSUME NEW s \in Sessions, ThreadPublishes(s) \/ ThreadReleases(s)
      PROVE  FlowInv'
  BY <1>1, <1>8, ThreadFlows
<1>9. \A s \in Sessions : ~ThreadRests(s)
  BY <1>1 DEF NobodyInterferes, ThreadRests, ThreadStep
<1>10. ASSUME NEW s \in Sessions, WatcherPolls(s) \/ WatcherActs(s)
       PROVE  FlowInv'
  BY <1>1, <1>10, WatcherFlows
<1>11. ASSUME NEW w \in Waiters,
              WaiterSeesAudio(w) \/ WaiterGivesUp(w) \/ WaiterClones(w) \/ WaiterSubmits(w)
       PROVE  FlowInv'
  BY <1>1, <1>11, WaiterFlows
<1>12. ASSUME NEW r \in Runners, RunnerBegins(r) \/ RunnerPublishes(r)
       PROVE  FlowInv'
  <2>1. r = "queue"
    BY <1>1, <1>12 DEF Known, Prompt, NobodyInterferes, Runners, RunnerBegins, TakeJob,
        RunnerPublishes
  <2> QED
    BY <1>1, <1>12, <2>1, RunnerFlows
<1>13. ASSUME NEW r \in Runners, RunnerHears(r) \/ RunnerFinishes(r)
       PROVE  FlowInv'
  <2>1. r = "queue"
    BY <1>1, <1>13 DEF NobodyInterferes, Runners, RunnerHears, RunnerFinishes
  <2>2. PassMoves
    BY <1>13, <2>1 DEF PassMoves, RunnerHears, RunnerFinishes, mainVars, hotkeyVars,
        captureVars, boundVars, ghostVars
  <2> QED
    BY <1>1, <2>2, RunnerFlows
<1>14. \A r \in Runners : ~RunnerBusy(r)
  <2>1. ASSUME NEW r \in Runners, RunnerBusy(r) PROVE FALSE
    <3>1. r = "queue"
      BY <1>1, <2>1 DEF Known, Prompt, NobodyInterferes, Runners, RunnerBusy, TakeJob
    <3>2. runner["queue"] = "idle" /\ runner["retry"] = "idle" /\ lease \in Runners
      BY <1>1, <2>1, <3>1 DEF NobodyInterferes, RunnerBusy, LeaseFree, TypeOK
    <3> QED
      BY <1>1, <3>2 DEF PassHoldsLease, Runners
  <2> QED
    BY <2>1
<1>15. CASE RunnerDelivers
  BY <1>1, <1>15, RunnerFlows
<1>16. CASE ExclusiveBegins \/ ExclusiveFinishes \/ UNCHANGED vars
  BY <1>16, FlowFrame DEF ExclusiveBegins, ExclusiveFinishes, vars, hotkeyVars, captureVars,
      runnerVars, ghostVars
<1> QED
  BY <1>2, <1>3, <1>4, <1>5, <1>6, <1>7, <1>8, <1>9, <1>10, <1>11, <1>12, <1>13, <1>14,
     <1>15, <1>16, NextCases

(* In every reachable state of a prompt system the stages are kept apart. *)
LEMMA FlowInvariance ==
  ASSUME Prompt
  PROVE  Spec => [](IInv /\ FlowInv)
<1>1. Init => IInv /\ FlowInv
  BY InitInv, InitFlow
<1>2. (IInv /\ FlowInv) /\ [Next]_vars => (IInv /\ FlowInv)'
  BY StepInv, FlowStep DEF Known
<1> QED
  BY <1>1, <1>2, PTL DEF Spec

-----------------------------------------------------------------------------
(* Utterances are delivered in the order they were recorded and none twice   *)
(* (OrderedFinalizationQueue, and the tasks of capture_wizard.rs that submit *)
(* to it), as long as every thread is prompt.                                *)
THEOREM UtterancesStayInOrder ==
  ASSUME Prompt
  PROVE  Spec => []DeliveredInOrder
  BY FlowInvariance, PTL DEF FlowInv

(* While a microphone is open nothing of an earlier dictation is waiting,    *)
(* queued, transcribing or delivering, as long as every thread is prompt.    *)
THEOREM DictationsDoNotOverlap ==
  ASSUME Prompt
  PROVE  Spec => []OneDictationAtATime
<1>1. FlowInv => OneDictationAtATime
  BY WaiterFacts DEF FlowInv, Stages, EarlyStage, OneDictationAtATime, Early, Working,
      NothingQueued
<1> QED
  BY <1>1, FlowInvariance, PTL

-----------------------------------------------------------------------------
(***************************************************************************)
(* The session reducer: every order in which the events arrive.            *)
(***************************************************************************)
(* The tracked numbers bound the applied ones: the conjunct that makes       *)
(* SequenceCountsEvents inductive, since an event IsNew(e) admits can then   *)
(* not have been applied before.                                             *)
AppliedAreTracked ==
  \A event \in applied :
    /\ event[1] \in DOMAIN lastSource
    /\ event[2] <= lastSource[event[1]]

(* What ReducerTypeOK says of lastSource, without the choice of a domain *)
TrackedType ==
  /\ DOMAIN lastSource \subseteq Producers
  /\ \A p \in DOMAIN lastSource : lastSource[p] \in Sources
  /\ lastSource = [p \in DOMAIN lastSource |-> lastSource[p]]

FlatTypeOK ==
  /\ phase \in Phases
  /\ activeSession \in SessionIds \cup {None}
  /\ TrackedType
  /\ sequence \in 0 .. SequenceLimit
  /\ applied \subseteq Producers \X Sources
  /\ begun \subseteq SessionIds /\ ended \subseteq SessionIds

Finiteness == IsFiniteSet(applied) /\ IsFiniteSet(DOMAIN lastSource)

EndedWereBegun == ended \subseteq begun

ReducerInv ==
  /\ FlatTypeOK
  /\ SessionMatchesPhase
  /\ EndedWereBegun
  /\ Finiteness
  /\ ProducersAreBounded
  /\ AppliedAreTracked
  /\ SequenceCountsEvents

(* The domain of lastSource after an event of producer p, and its values. *)
LEMMA TrackingStep ==
  ASSUME NEW p, NEW n \in Sources, NEW f, f = [q \in DOMAIN lastSource \cup {p} |->
                                      IF q = p THEN n ELSE lastSource[q]]
  PROVE  /\ DOMAIN f = DOMAIN lastSource \cup {p}
         /\ f[p] = n
         /\ \A q \in DOMAIN lastSource : q # p => f[q] = lastSource[q]
  OBVIOUS

(* A transition that may follow a live phase leads to a live or a terminal  *)
(* one, and only Arming may follow Idle.                                    *)
LEMMA Transitions ==
  ASSUME NEW from \in Phases, NEW to, TransitionAllowed(from, to)
  PROVE  /\ to \in Phases
         /\ from \in Live => to \in Live \cup Terminal
  BY DEF TransitionAllowed, Phases, Live, Terminal

LEMMA InitReducerInv == ReducerInit => ReducerInv
<1> SUFFICES ASSUME ReducerInit PROVE ReducerInv
  OBVIOUS
<1>1. DOMAIN lastSource = {}
  BY DEF ReducerInit
<1>2. FlatTypeOK
  BY <1>1, ReducerAssumption DEF ReducerInit, FlatTypeOK, TrackedType, Phases, Live, Terminal
<1>3. Finiteness /\ ProducersAreBounded
  BY <1>1, FS_EmptySet, ReducerAssumption DEF ReducerInit, Finiteness, ProducersAreBounded
<1>4. SequenceCountsEvents
  BY FS_EmptySet, ReducerAssumption DEF ReducerInit, SequenceCountsEvents
<1> QED
  BY <1>2, <1>3, <1>4 DEF ReducerInit, ReducerInv, SessionMatchesPhase, EndedWereBegun, AppliedAreTracked

LEMMA BeginSessionReducerInv ==
  ASSUME ReducerInv, NEW s \in SessionIds, BeginSession(s)
  PROVE  ReducerInv'
<1> USE DEF ReducerInv, BeginSession
<1>1. FlatTypeOK'
  BY DEF FlatTypeOK, TrackedType, Phases, Live
<1>2. SessionMatchesPhase' /\ EndedWereBegun'
  BY DEF SessionMatchesPhase, EndedWereBegun, Live
<1>3. Finiteness' /\ ProducersAreBounded' /\ AppliedAreTracked' /\ SequenceCountsEvents'
  BY DEF Finiteness, ProducersAreBounded, AppliedAreTracked, SequenceCountsEvents
<1> QED
  BY <1>1, <1>2, <1>3

LEMMA ApplyReducerInv ==
  ASSUME ReducerInv, NEW e \in Ingress, NEW next \in Phases, Apply(e, next)
  PROVE  ReducerInv'
<1> DEFINE event == <<e.producer, e.source>>
<1> USE DEF ReducerInv
<1>1. e.producer \in Producers /\ e.source \in Sources
  BY DEF Ingress
<1>2. /\ DOMAIN lastSource' = DOMAIN lastSource \cup {e.producer}
      /\ lastSource'[e.producer] = e.source
      /\ \A q \in DOMAIN lastSource : q # e.producer => lastSource'[q] = lastSource[q]
  BY <1>1, TrackingStep DEF Apply
<1>3. TrackedType'
  BY <1>1, <1>2 DEF Apply, FlatTypeOK, TrackedType
<1>4. FlatTypeOK'
  BY <1>1, <1>3, ReducerAssumption
     DEF Apply, FlatTypeOK, Saturated, SessionAfter
<1>5. SessionMatchesPhase'
  <2>1. SUFFICES ASSUME activeSession' # None
                 PROVE  phase' \in Live /\ activeSession' \in begun' \ ended'
    BY DEF SessionMatchesPhase
  <2>2. next \notin Terminal /\ activeSession' = activeSession
    BY <2>1 DEF Apply, SessionAfter
  <2>3. phase \in Live /\ activeSession \in begun \ ended
    BY <2>1, <2>2 DEF SessionMatchesPhase
  <2>4. next \in Live
    BY <2>2, <2>3, Transitions DEF Apply, FlatTypeOK
  <2> QED
    BY <2>2, <2>3, <2>4 DEF Apply
<1>6. EndedWereBegun'
  BY DEF Apply, EndedWereBegun, SessionMatchesPhase
<1>7. Finiteness'
  <2>1. IsFiniteSet(applied \cup {event})
    BY FS_AddElement DEF Finiteness
  <2>2. IsFiniteSet(DOMAIN lastSource \cup {e.producer})
    BY FS_AddElement DEF Finiteness
  <2> QED
    BY <1>2, <2>1, <2>2 DEF Finiteness, Apply
<1>8. ProducersAreBounded'
  <2>1. CASE e.producer \in DOMAIN lastSource
    <3>1. DOMAIN lastSource' = DOMAIN lastSource
      BY <1>2, <2>1
    <3> QED
      BY <3>1 DEF ProducersAreBounded
  <2>2. CASE e.producer \notin DOMAIN lastSource
    <3>1. Cardinality(DOMAIN lastSource) # MaximumProducers
      BY <2>2 DEF Apply, HasRoom
    <3>2. Cardinality(DOMAIN lastSource') = Cardinality(DOMAIN lastSource) + 1
      BY <1>2, <2>2, FS_AddElement DEF Finiteness
    <3>3. Cardinality(DOMAIN lastSource) \in Nat
      BY FS_CardinalityType DEF Finiteness
    <3> QED
      BY <3>1, <3>2, <3>3, ReducerAssumption DEF ProducersAreBounded
  <2> QED
    BY <2>1, <2>2
<1>9. AppliedAreTracked'
  <2>1. SUFFICES ASSUME NEW ev \in applied'
                 PROVE  ev[1] \in DOMAIN lastSource' /\ ev[2] <= lastSource'[ev[1]]
    BY DEF AppliedAreTracked
  <2>2. CASE ev = event
    BY <1>1, <1>2, <2>2, ReducerAssumption DEF Sources
  <2>3. CASE ev \in applied
    <3>1. ev[1] \in DOMAIN lastSource /\ ev[2] <= lastSource[ev[1]] /\ ev[2] \in Sources
      BY <2>3 DEF AppliedAreTracked, FlatTypeOK
    <3>2. CASE ev[1] = e.producer
      <4>1. e.source > lastSource[e.producer] /\ lastSource[e.producer] \in Sources
        BY <3>1, <3>2 DEF Apply, IsNew, FlatTypeOK, TrackedType
      <4> QED
        BY <1>1, <1>2, <3>1, <3>2, <4>1, ReducerAssumption DEF Sources
    <3>3. CASE ev[1] # e.producer
      BY <1>2, <3>1, <3>3
    <3> QED
      BY <3>2, <3>3
  <2> QED
    BY <2>2, <2>3 DEF Apply
<1>10. SequenceCountsEvents'
  <2>1. event \notin applied
    <3>1. SUFFICES ASSUME event \in applied PROVE FALSE
      OBVIOUS
    <3>2. e.producer \in DOMAIN lastSource /\ e.source <= lastSource[e.producer]
      BY <3>1 DEF AppliedAreTracked
    <3>3. e.source > lastSource[e.producer] /\ lastSource[e.producer] \in Sources
      BY <3>2 DEF Apply, IsNew, FlatTypeOK, TrackedType
    <3> QED
      BY <1>1, <3>2, <3>3, ReducerAssumption DEF Sources
  <2>2. Cardinality(applied') = Cardinality(applied) + 1
    BY <2>1, FS_AddElement DEF Apply, Finiteness
  <2>3. Cardinality(applied) \in Nat
    BY FS_CardinalityType DEF Finiteness
  <2> QED
    BY <2>2, <2>3, ReducerAssumption DEF Apply, SequenceCountsEvents, Saturated
<1> QED
  BY <1>4, <1>5, <1>6, <1>7, <1>8, <1>9, <1>10

LEMMA StutterReducerInv ==
  ASSUME ReducerInv, UNCHANGED reducerVars
  PROVE  ReducerInv'
BY DEF ReducerInv, reducerVars, FlatTypeOK, TrackedType, SessionMatchesPhase, EndedWereBegun,
       Finiteness, ProducersAreBounded, AppliedAreTracked, SequenceCountsEvents

LEMMA ReducerInvHolds == ReducerSpec => []ReducerInv
<1>1. ReducerInv /\ [ReducerNext]_reducerVars => ReducerInv'
  BY BeginSessionReducerInv, ApplyReducerInv, StutterReducerInv DEF ReducerNext
<1> QED
  BY InitReducerInv, <1>1, PTL DEF ReducerSpec

(* Every variable of the reducer keeps its type (coordinator.rs, Reducer). *)
THEOREM ReducerIsTyped == ReducerSpec => []ReducerTypeOK
<1>1. ReducerInv => ReducerTypeOK
  <2> SUFFICES ASSUME ReducerInv PROVE ReducerTypeOK
    OBVIOUS
  <2>1. lastSource \in [DOMAIN lastSource -> Sources]
    BY DEF ReducerInv, FlatTypeOK, TrackedType
  <2> QED
    BY <2>1 DEF ReducerInv, FlatTypeOK, TrackedType, ReducerTypeOK
<1> QED
  BY ReducerInvHolds, <1>1, PTL

(* The live session and the phase agree in every reachable state, although  *)
(* begin_session and apply each set one without looking at the other.       *)
THEOREM LiveSessionIsConsistent == ReducerSpec => []SessionMatchesPhase
<1>1. ReducerInv => SessionMatchesPhase
  BY DEF ReducerInv
<1> QED
  BY ReducerInvHolds, <1>1, PTL

(* MAXIMUM_PRODUCERS is never exceeded, whoever reports events. *)
THEOREM ProducerBound == ReducerSpec => []ProducersAreBounded
<1>1. ReducerInv => ProducersAreBounded
  BY DEF ReducerInv
<1> QED
  BY ReducerInvHolds, <1>1, PTL

(* coordinator_sequence counts every applied event exactly once, whatever   *)
(* the producers repeat or reorder, up to the limit where it saturates.     *)
THEOREM EventsAreCountedOnce == ReducerSpec => []SequenceCountsEvents
<1>1. ReducerInv => SequenceCountsEvents
  BY DEF ReducerInv
<1> QED
  BY ReducerInvHolds, <1>1, PTL

(* Events of an ended session never move the phase again. *)
THEOREM LateEventsAreHarmless == ReducerSpec => EndedSessionsAreInert
<1>1. ReducerInv => [\A e \in Ingress, next \in Phases :
                 Apply(e, next) => e.session \notin ended]_reducerVars
  BY ReducerAssumption DEF ReducerInv, Apply, IsOfLiveSession, SessionMatchesPhase, FlatTypeOK
<1> QED
  BY ReducerInvHolds, <1>1, PTL DEF EndedSessionsAreInert
=============================================================================
