--------------------------- MODULE SessionReducer ---------------------------
(***************************************************************************)
(* The session reducer of crates/speakeasy-domain (coordinator.rs and the  *)
(* transition table of state.rs).  Producers report events of a session,   *)
(* each with its own sequence number; the reducer applies an event only    *)
(* when its session is live, its number is new and the phase may follow.   *)
(* Nothing is assumed of the producers: an event may be late, repeated,    *)
(* reordered, of an ended session, or of no session at all.                *)
(***************************************************************************)
EXTENDS Naturals, FiniteSets

CONSTANTS
  SessionIds,        \* session identifiers; begin_session gets a fresh one
  Producers,
  MaxSource,         \* bound: source sequence numbers
  MaximumProducers,  \* MAXIMUM_PRODUCERS
  SequenceLimit,     \* u64::MAX, where coordinator_sequence saturates
  None               \* Option::None

ASSUME ReducerAssumption ==
  /\ MaxSource \in Nat
  /\ MaximumProducers \in Nat
  /\ SequenceLimit \in Nat
  /\ None \notin SessionIds

VARIABLES
  phase,             \* state.session
  activeSession,
  lastSource,        \* last_source_sequence
  sequence,          \* coordinator_sequence
  applied,           \* history: the events applied, as <<producer, number>>
  begun, ended       \* history: sessions begun, sessions ended

reducerVars == <<phase, activeSession, lastSource, sequence, applied, begun, ended>>

(* SessionPhase *)
Live     == {"Arming", "Capturing", "Draining", "Finalizing", "Delivering"}
Terminal == {"Delivered", "Cancelled", "Failed"}
Phases   == {"Idle"} \cup Live \cup Terminal

TransitionAllowed(from, to) ==
  <<from, to>> \in
    {<<"Idle", "Arming">>, <<"Arming", "Capturing">>, <<"Capturing", "Draining">>,
     <<"Draining", "Finalizing">>, <<"Finalizing", "Delivering">>,
     <<"Delivering", "Delivered">>, <<"Delivering", "Failed">>}
    \cup {"Arming", "Capturing", "Draining", "Finalizing"} \X {"Cancelled", "Failed"}
    \cup Terminal \X {"Idle"}

Sources == 0 .. MaxSource
Ingress == [session : SessionIds \cup {None}, producer : Producers, source : Sources]

ReducerInit ==
  /\ phase = "Idle"
  /\ activeSession = None
  /\ lastSource = [p \in {} |-> 0]
  /\ sequence = 0
  /\ applied = {} /\ begun = {} /\ ended = {}

-----------------------------------------------------------------------------
(* begin_session; a refused one changes nothing *)
BeginSession(s) ==
  /\ s \notin begun
  /\ activeSession = None
  /\ TransitionAllowed(phase, "Arming")
  /\ activeSession' = s
  /\ phase' = "Arming"
  /\ begun' = begun \cup {s}
  /\ UNCHANGED <<lastSource, sequence, applied, ended>>

(* Mutant: an event with the number of the last one is applied again *)
IsNewReplayed(e) ==
  e.producer \in DOMAIN lastSource => e.source >= lastSource[e.producer]

(* DuplicateOrOutOfOrder is not the answer *)
IsNew(e) ==
  e.producer \in DOMAIN lastSource => e.source > lastSource[e.producer]

(* ProducerCapacityExceeded is not the answer *)
HasRoom(e) ==
  e.producer \notin DOMAIN lastSource =>
    Cardinality(DOMAIN lastSource) # MaximumProducers

(* Mutant: the session of an event is not compared with the live one *)
IsOfLiveSessionAlways(e) == TRUE

(* StaleSession is not the answer *)
IsOfLiveSession(e) == e.session = None \/ e.session = activeSession

(* The live session once the phase is next *)
SessionAfter(next) == IF next \in Terminal THEN None ELSE activeSession

(* saturating_add(1) *)
Saturated(n) == IF n < SequenceLimit THEN n + 1 ELSE SequenceLimit

(* apply; every refusal changes nothing *)
Apply(e, next) ==
  /\ IsOfLiveSession(e)
  /\ IsNew(e)
  /\ HasRoom(e)
  /\ TransitionAllowed(phase, next)
  /\ lastSource' = [p \in DOMAIN lastSource \cup {e.producer} |->
                      IF p = e.producer THEN e.source ELSE lastSource[p]]
  /\ sequence' = Saturated(sequence)
  /\ phase' = next
  /\ activeSession' = SessionAfter(next)
  /\ applied' = applied \cup {<<e.producer, e.source>>}
  /\ ended' = IF next \in Terminal THEN ended \cup ({activeSession} \ {None})
              ELSE ended
  /\ UNCHANGED begun

ReducerNext ==
  \/ \E s \in SessionIds : BeginSession(s)
  \/ \E e \in Ingress, next \in Phases : Apply(e, next)

ReducerSpec == ReducerInit /\ [][ReducerNext]_reducerVars

-----------------------------------------------------------------------------
(* Properties *)

(* Every variable holds a value of its type. *)
ReducerTypeOK ==
  /\ phase \in Phases
  /\ activeSession \in SessionIds \cup {None}
  /\ \E known \in SUBSET Producers : lastSource \in [known -> Sources]
  /\ sequence \in 0 .. SequenceLimit
  /\ applied \subseteq Producers \X Sources
  /\ begun \subseteq SessionIds /\ ended \subseteq SessionIds

(* The live session and the phase agree although begin_session and apply    *)
(* each set one without looking at the other: a session is live only while  *)
(* its phase is, and an ended session is never live again, whatever late    *)
(* events of it still arrive.                                               *)
SessionMatchesPhase ==
  activeSession # None => phase \in Live /\ activeSession \in begun \ ended

(* The reducer remembers a bounded number of producers. *)
ProducersAreBounded == Cardinality(DOMAIN lastSource) <= MaximumProducers

(* coordinator_sequence counts the distinct events applied, up to the limit *)
(* where it saturates: no event, however often it is delivered, is counted  *)
(* twice, and none is applied without being counted.                        *)
SequenceCountsEvents ==
  sequence = IF Cardinality(applied) < SequenceLimit
             THEN Cardinality(applied) ELSE SequenceLimit

(* An event of an ended session, delivered late or again, never moves the   *)
(* phase: a session leaves its mark on the reducer only while it is the     *)
(* live one.                                                                *)
EndedSessionsAreInert ==
  [][\A e \in Ingress, next \in Phases :
       Apply(e, next) => e.session \notin ended]_reducerVars
=============================================================================
