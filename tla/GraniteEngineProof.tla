------------------------- MODULE GraniteEngineProof -------------------------
(***************************************************************************)
(* What the desktop says of its engine is so, and a pass delivers the      *)
(* whole of its own utterance: StatusIsTrue and PassIsWhole of             *)
(* GraniteEngine, for every number of warm threads, chunks, commands and   *)
(* faults, for every machine and for any two or more worker identities,    *)
(* from EngineAssumption and MaxChunksAssumption.  The invariant comes in  *)
(* four layers: what the variables hold, who owns the adapter lock and the *)
(* processes, what was verified and described, and what travels in the     *)
(* pipes.                                                                  *)
(***************************************************************************)
EXTENDS GraniteEngine, SequenceTheorems, TLAPS

----------------------------------------------------------------------------
(* The first layer: types *)

Binaries == {"main", "alternate"}
Recorded == Providers \cup {"unrecorded"}
Events == {"error", "model_loaded", "stream_started", "audio_accepted",
           "stream_finished"}
Responses == [request : Requests, event : Events, heard : Seq(Nat \X Nat)]
Streams == [session : Nat, heard : Seq(Nat \X Nat)]

Processes == [life : {"none", "alive", "crashed", "killed"}, exe : Binaries,
              provider : Recorded, context : Contexts, inbox : Seq(Requests),
              outbox : Seq(Responses), loaded : BOOLEAN, active : Streams]

ThreadRecords == [at : ThreadPlaces, exe : Binaries, provider : Recorded,
                  proc : Workers \cup {NoWorker}, verification : Verifications,
                  error : Codes]

EngineTyped ==
  /\ machine \in MachineFacts
  /\ disk \in {"absent", "intact", "corrupt"} /\ override \in Providers \cup {"none"}
  /\ slot \in Workers \cup {NoWorker} /\ lock \in Threads \cup {NoThread}
  /\ proc \in [Workers -> Processes]
  /\ thread \in [Threads -> ThreadRecords]
  /\ request \in Requests
  /\ passes \in Nat /\ commands \in Nat /\ passes <= commands /\ commands <= MaxCommands

(* The labels on show, the flags and the bounds *)
LabelsTyped ==
  /\ machine \in Machines
  /\ status \in {"absent", "installed_unverified", "verifying", "verified_on_disk",
                 "failed", "downloading", "cancelled"}
  /\ crashes \in Nat
  /\ warm \in {"cold", "warming", "ready", "adapter_failed", "not_configured",
               "granite_model_files_unverified", "granite_worker_missing",
               "memory_below_granite_floor"}
  /\ device \in {"not_configured", "cpu", "cuda", "cuda_unverified"}
  /\ integrity \in Integrities
  /\ cancel \in BOOLEAN /\ lease \in BOOLEAN
  /\ arbiter \in {"none", "dictation", "engine", "install"}
  /\ ui \in [op : {"none", "retest", "restart", "switch"},
            at : {"idle", "take", "cold", "warm"}]
  /\ faults \in 0 .. MaxFaults

(* The places of a thread say what it holds: a process only from its spawn  *)
(* on, and a warm thread only until the process is resident.                *)
PlacesHold ==
  \A t \in Threads :
    /\ thread[t].at \in {"idle", "read", "enter", "hash"} => thread[t].proc = NoWorker
    /\ thread[t].at \in {"loading", "stream"} => thread[t].proc \in Workers
    /\ t \in Warmers /\ thread[t].at # "loading" => thread[t].proc = NoWorker
    /\ thread[t].at \in {"stream", "failed", "take", "cold", "ended"} => t = Pass
    /\ thread[t].at = "settle" => t \in Warmers

----------------------------------------------------------------------------
(* The second layer: ownership *)

(* One thread hashes or loads, it holds the adapter lock, and nothing is    *)
(* resident meanwhile.                                                      *)
LoaderHoldsLock ==
  /\ \A t \in Threads : thread[t].at \in {"hash", "loading"} <=> lock = t
  /\ lock # NoThread => slot = NoWorker

(* A process lives exactly as long as something refers to it.               *)
LivingIsOwned ==
  \A p \in Workers : proc[p].life # "none" <=> Owned(p, slot, thread)

----------------------------------------------------------------------------
(* The third layer: what was verified *)

(* Nothing is resident, and no thread believes the files were hashed, while *)
(* the files are corrupt: they never become so again.                       *)
VerifierSaw ==
  /\ \A t \in Threads : thread[t].at = "loading" => thread[t].verification = "verified"
  /\ disk = "corrupt" =>
       /\ slot = NoWorker
       /\ \A t \in Threads : thread[t].verification \notin {"verified", "already_loaded"}

----------------------------------------------------------------------------
(* The fourth layer: what travels in the pipes *)

(* At most one frame is under way, it is the request the pass waits for or  *)
(* the reply to it, and the pass that waits is at the other end.            *)
PipesAreTheRequest ==
  \A p \in Workers :
    /\ proc[p].inbox # <<>> \/ proc[p].outbox # <<>> =>
         Running(Pass, "stream") /\ Held = p /\ request.sent
    /\ proc[p].inbox # <<>> => proc[p].inbox = <<request>> /\ proc[p].outbox = <<>>
    /\ proc[p].outbox # <<>> => 
         Len(proc[p].outbox) = 1 /\ proc[p].outbox[1].request = request

(* The first n chunks of the utterance of the current pass                  *)
FirstChunks(n) == [i \in 1 .. n |-> <<passes, i - 1>>]

StreamHolds(n) ==
  proc[Held].active = [session |-> passes, heard |-> FirstChunks(n)]

Unanswered == proc[Held].outbox = <<>>
Answered(event) == proc[Held].outbox # <<>> /\ proc[Held].outbox[1].event = event

(* The request the pass is at says how much the worker has heard of it.     *)
StreamFollowsRequest ==
  Running(Pass, "stream") =>
    /\ request.sequence < Chunks
    /\ request.command \in {"load", "start"} => request.sequence = 0
    /\ request.command = "start" /\ Answered("stream_started") => StreamHolds(0)
    /\ request.command = "push" /\ Unanswered => StreamHolds(request.sequence)
    /\ request.command = "push" /\ Answered("audio_accepted") =>
         StreamHolds(request.sequence + 1)
    /\ request.command = "finish" /\ Unanswered => StreamHolds(Chunks)
    /\ request.command = "finish" /\ Answered("stream_finished") =>
         proc[Held].outbox[1].heard = FirstChunks(Chunks)

(* The requests of a pass carry its number, and begin with the load.        *)
RequestIsOfPass ==
  /\ thread[Pass].at # "idle" => request.session = passes
  /\ thread[Pass].at \in {"read", "enter", "hash", "loading"} =>
       request = FirstRequest(passes)

(* A pass that failed has a code, and one that is over without a code has   *)
(* the transcript.                                                          *)
FailureHasCode ==
  thread[Pass].at \in {"failed", "take", "cold"} => thread[Pass].error # "none"

EngineInv ==
  /\ EngineTyped /\ LabelsTyped /\ PlacesHold
  /\ LoaderHoldsLock /\ LivingIsOwned
  /\ StatusIsTrue /\ VerifierSaw
  /\ PipesAreTheRequest /\ StreamFollowsRequest /\ RequestIsOfPass
  /\ FailureHasCode /\ TranscriptIsWhole

----------------------------------------------------------------------------
(* What the worker answers *)

WorkerStates == [loaded : BOOLEAN, active : Streams]
Replies == [worker : WorkerStates, event : Events, heard : Seq(Nat \X Nat)]

(* Every request is answered, and the worker stays a worker. *)
LEMMA HandleTyped ==
  ASSUME NEW w \in WorkerStates, NEW r \in Requests,
         NEW files \in BOOLEAN, NEW loads \in BOOLEAN, NEW infers \in BOOLEAN
  PROVE  Handle(w, r, files, loads, infers) \in Replies
<1>1. NoStream \in Streams
  BY DEF NoStream, Streams
<1>2. r.session \in Nat /\ r.sequence \in Nat
  BY EngineAssumption, MaxChunksAssumption DEF Requests
<1>3. ASSUME NEW e \in Events
      PROVE  Reply(w, e) \in Replies
  BY <1>3 DEF Reply, Replies
<1>4. CASE r.command = "load"
  <2>1. [w EXCEPT !.loaded = TRUE] \in WorkerStates
    BY DEF WorkerStates
  <2> QED BY <1>3, <1>4, <2>1 DEF Handle, LoadModel, ErrorReply, Reply, Replies, Events
<1>5. CASE r.command = "start"
  <2>1. [w EXCEPT !.active = [session |-> r.session, heard |-> <<>>]] \in WorkerStates
    <3>1. [session |-> r.session, heard |-> <<>>] \in Streams
      BY <1>2 DEF Streams
    <3> QED BY <3>1 DEF WorkerStates
  <2> QED BY <1>3, <1>5, <2>1 DEF Handle, StartStream, ErrorReply, Reply, Replies, Events
<1>6. CASE r.command = "push"
  <2>1. [w EXCEPT !.active.heard = Append(@, <<r.session, r.sequence>>)] \in WorkerStates
    <3>1. w.active \in Streams /\ w.active.heard \in Seq(Nat \X Nat)
      BY DEF WorkerStates, Streams
    <3>2. Append(w.active.heard, <<r.session, r.sequence>>) \in Seq(Nat \X Nat)
      BY <1>2, <3>1
    <3>3. [w.active EXCEPT !.heard = Append(@, <<r.session, r.sequence>>)] \in Streams
      BY <3>1, <3>2 DEF Streams
    <3> QED BY <3>3 DEF WorkerStates
  <2> QED BY <1>3, <1>6, <2>1 DEF Handle, PushAudio, ErrorReply, Reply, Replies, Events
<1>7. CASE r.command = "finish"
  <2>1. [w EXCEPT !.active = NoStream] \in WorkerStates
    BY <1>1 DEF WorkerStates
  <2>2. w.active.heard \in Seq(Nat \X Nat)
    BY DEF WorkerStates, Streams
  <2> QED BY <1>3, <1>7, <2>1, <2>2 DEF Handle, FinishStream, ErrorReply, Reply, Replies, Events
<1> QED BY <1>4, <1>5, <1>6, <1>7 DEF Requests

----------------------------------------------------------------------------
(* Facts about processes and threads *)

LEMMA IdleTyped ==
  /\ IdleProcess \in Processes
  /\ IdleThread \in ThreadRecords
  /\ FirstRequest(0) \in Requests
<1>1. <<>> \in Seq(Requests) /\ <<>> \in Seq(Responses) /\ <<>> \in Seq(Nat \X Nat)
  OBVIOUS
<1>2. NoStream \in Streams
  BY <1>1 DEF NoStream, Streams
<1>3. 0 \in 0 .. MaxCommands /\ 0 \in 0 .. Chunks
  BY EngineAssumption, MaxChunksAssumption
<1>4. IdleProcess \in Processes
  BY <1>1, <1>2 DEF IdleProcess, Processes, Binaries, Recorded, Providers, Contexts
<1>5. IdleThread \in ThreadRecords
  BY DEF IdleThread, ThreadRecords, Binaries, Recorded, Providers, ThreadPlaces,
         Verifications, Codes
<1> QED BY <1>3, <1>4, <1>5 DEF FirstRequest, Requests

LEMMA DroppedTyped ==
  ASSUME NEW procs \in [Workers -> Processes], NEW s, NEW threads
  PROVE  Dropped(procs, s, threads) \in [Workers -> Processes]
BY IdleTyped DEF Dropped

(* The fields of a thread that an action may change *)
LEMMA ThreadTyped ==
  ASSUME EngineTyped, NEW t \in Threads
  PROVE  /\ thread[t] \in ThreadRecords
         /\ thread[t].at \in ThreadPlaces /\ thread[t].exe \in Binaries
         /\ thread[t].provider \in Recorded /\ thread[t].proc \in Workers \cup {NoWorker}
         /\ thread[t].verification \in Verifications /\ thread[t].error \in Codes
BY DEF EngineTyped, ThreadRecords

LEMMA ProcessTyped ==
  ASSUME EngineTyped, NEW p \in Workers
  PROVE  /\ proc[p] \in Processes
         /\ proc[p].life \in {"none", "alive", "crashed", "killed"}
         /\ proc[p].exe \in Binaries /\ proc[p].provider \in Recorded
         /\ proc[p].context \in Contexts
         /\ proc[p].inbox \in Seq(Requests) /\ proc[p].outbox \in Seq(Responses)
         /\ Worker(p) \in WorkerStates
BY DEF EngineTyped, Processes, Worker, WorkerStates

(* Two identities are enough: while one thread loads, the pass holds at most  *)
(* one process and nothing is resident.                                       *)
LEMMA FreeWorkerIsFree ==
  ASSUME EngineTyped, PlacesHold, LoaderHoldsLock, LivingIsOwned,
         NEW t \in Threads, Running(t, "hash")
  PROVE  FreeWorker \in Workers /\ proc[FreeWorker].life = "none"
<1>1. lock = t /\ slot = NoWorker /\ NoWorker \notin Workers
  BY EngineAssumption DEF LoaderHoldsLock, Running
<1>2. ASSUME NEW s \in Threads, thread[s].proc \in Workers
      PROVE  s = Pass
  <2>1. thread[s].proc # NoWorker
    BY <1>1, <1>2
  <2>2. CASE s \in Warmers
    BY <1>1, <2>1, <2>2 DEF PlacesHold, LoaderHoldsLock, Running
  <2> QED BY <2>2 DEF Threads
<1>3. PICK p \in Workers : p # thread[Pass].proc
  BY EngineAssumption
<1>4. ~Owned(p, slot, thread)
  BY <1>1, <1>2, <1>3 DEF Owned
<1>5. proc[p].life = "none"
  BY <1>4 DEF LivingIsOwned
<1> QED BY <1>5 DEF FreeWorker

----------------------------------------------------------------------------
(* The first layer is kept *)

LEMMA RefusalIsACode == GateRefusal \in Codes
BY DEF GateRefusal, Codes

LEMMA ActiveWorkerTyped ==
  ASSUME EngineTyped, NEW requested \in Providers \cup {"none"}
  PROVE  /\ ActiveWorker(machine, requested).exe \in Binaries
         /\ ActiveWorker(machine, requested).provider \in Recorded
BY DEF ActiveWorker, EngineTyped, MachineFacts, Binaries, Recorded, Providers

(* The threads' records and places, for one thread that moves *)
LEMMA OneThreadMoves ==
  ASSUME EngineTyped, PlacesHold, NEW t \in Threads, NEW r \in ThreadRecords,
         thread' = [thread EXCEPT ![t] = r],
         r.at \in {"idle", "read", "enter", "hash"} => r.proc = NoWorker,
         r.at \in {"loading", "stream"} => r.proc \in Workers,
         t \in Warmers /\ r.at # "loading" => r.proc = NoWorker,
         r.at \in {"stream", "failed", "take", "cold", "ended"} => t = Pass,
         r.at = "settle" => t \in Warmers
  PROVE  thread' \in [Threads -> ThreadRecords] /\ PlacesHold'
<1>1. thread \in [Threads -> ThreadRecords]
  BY DEF EngineTyped
<1>2. thread' \in [Threads -> ThreadRecords]
  BY <1>1
<1>3. \A s \in Threads : thread'[s] = IF s = t THEN r ELSE thread[s]
  BY <1>1
<1> QED BY <1>2, <1>3 DEF PlacesHold

LEMMA ThreadStepKeepsTypes ==
  ASSUME EngineTyped, PlacesHold, LoaderHoldsLock, LivingIsOwned,
         NEW t \in Threads, ThreadStep(t)
  PROVE  EngineTyped' /\ PlacesHold'
<1> USE ThreadTyped, IdleTyped
<1>0. NoWorker \notin Workers /\ Pass \notin Warmers
  BY EngineAssumption
<1>1. CASE Gate(t)
  <2>1. t # Pass => t \in Warmers
    BY DEF Threads
  <2>2. thread[t].proc = NoWorker
    BY <1>1 DEF Gate, Running, PlacesHold
  <2>3. CASE GateRefusal = "none"
    <3> DEFINE r == [thread[t] EXCEPT !.at = "enter", !.exe = ActiveWorker(machine, override).exe,
                                      !.provider = ActiveWorker(machine, override).provider]
    <3>0. override \in Providers \cup {"none"}
      BY DEF EngineTyped
    <3>1. r \in ThreadRecords /\ r.at = "enter" /\ r.proc = NoWorker
      BY <2>2, <3>0, ActiveWorkerTyped DEF ThreadRecords, ThreadPlaces
    <3>2. thread' = [thread EXCEPT ![t] = r]
      BY <1>1, <2>3 DEF Gate, EngineTyped
    <3> HIDE DEF r
    <3>3. thread' \in [Threads -> ThreadRecords] /\ PlacesHold'
      BY <3>1, <3>2, OneThreadMoves
    <3> QED BY <1>1, <3>3 DEF Gate, EngineTyped, passVars, boundVars, modelVars
  <2>4. CASE GateRefusal # "none"
    <3> DEFINE r == [thread[t] EXCEPT !.at = IF t = Pass THEN "ended" ELSE "settle",
                                      !.error = IF t = Pass THEN GateRefusal ELSE @]
    <3>1. r \in ThreadRecords /\ r.at = (IF t = Pass THEN "ended" ELSE "settle") /\ r.proc = NoWorker
      BY <2>2, RefusalIsACode DEF ThreadRecords, ThreadPlaces
    <3>2. thread' = [thread EXCEPT ![t] = r]
      BY <1>1, <2>4 DEF Gate, EngineTyped
    <3> HIDE DEF r
    <3>3. thread' \in [Threads -> ThreadRecords] /\ PlacesHold'
      BY <1>0, <2>1, <3>1, <3>2, OneThreadMoves
    <3> QED BY <1>1, <3>3 DEF Gate, EngineTyped, passVars, boundVars, modelVars
  <2> QED BY <2>3, <2>4
<1>2. CASE Enter(t)
  <2>1. t # Pass => t \in Warmers
    BY DEF Threads
  <2>2. thread[t].proc = NoWorker
    BY <1>2 DEF Enter, Running, PlacesHold
  <2>3. CASE slot # NoWorker
    <3> DEFINE r == [IdleThread EXCEPT !.at = Returned(t, TRUE), !.verification = "already_loaded",
                         !.proc = IF t = Pass THEN slot ELSE NoWorker]
    <3>1. /\ r \in ThreadRecords /\ r.at = (IF t = Pass THEN "stream" ELSE "settle")
          /\ r.proc = IF t = Pass THEN slot ELSE NoWorker
      BY <2>3 DEF ThreadRecords, ThreadPlaces, EngineTyped, Returned, Verifications
    <3>2. thread' = [thread EXCEPT ![t] = r] /\ slot \in Workers
      BY <1>2, <2>3 DEF Enter, EngineTyped
    <3> HIDE DEF r
    <3>3. thread' \in [Threads -> ThreadRecords] /\ PlacesHold'
      BY <1>0, <2>1, <3>1, <3>2, OneThreadMoves
    <3> QED BY <1>2, <2>3, <3>3 DEF Enter, EngineTyped, passVars, boundVars, modelVars
  <2>4. CASE slot = NoWorker
    <3> DEFINE r == [thread[t] EXCEPT !.at = "hash"]
    <3>1. r \in ThreadRecords /\ r.at = "hash" /\ r.proc = NoWorker
      BY <2>2 DEF ThreadRecords, ThreadPlaces
    <3>2. thread' = [thread EXCEPT ![t] = r] /\ lock' = t
      BY <1>2, <2>4 DEF Enter, EngineTyped
    <3> HIDE DEF r
    <3>3. thread' \in [Threads -> ThreadRecords] /\ PlacesHold'
      BY <3>1, <3>2, OneThreadMoves
    <3> QED BY <1>2, <3>2, <3>3 DEF Enter, EngineTyped, passVars, boundVars, modelVars
  <2> QED BY <2>3, <2>4
<1>3. CASE Hash(t)
  <2>1. t # Pass => t \in Warmers
    BY DEF Threads
  <2>2. FreeWorker \in Workers
    BY <1>3, FreeWorkerIsFree DEF Hash
  <2>3. CASE disk = "intact"
    <3> DEFINE r == [IdleThread EXCEPT !.at = "loading", !.proc = FreeWorker,
                                       !.verification = "verified"]
               q == [IdleProcess EXCEPT !.life = "alive", !.exe = thread[t].exe,
                                        !.provider = thread[t].provider]
    <3>1. r \in ThreadRecords /\ r.at = "loading" /\ r.proc = FreeWorker
      BY <2>2 DEF ThreadRecords, ThreadPlaces, Verifications
    <3>2. q \in Processes
      BY DEF Processes
    <3>3. /\ thread' = [thread EXCEPT ![t] = r] /\ proc' = [proc EXCEPT ![FreeWorker] = q]
          /\ UNCHANGED lock
      BY <1>3, <2>3 DEF Hash
    <3> HIDE DEF r, q
    <3>4. thread' \in [Threads -> ThreadRecords] /\ PlacesHold'
      BY <2>2, <3>1, <3>3, OneThreadMoves
    <3> QED BY <1>3, <3>2, <3>3, <3>4 DEF Hash, EngineTyped, passVars, boundVars, modelVars
  <2>4. CASE disk # "intact"
    <3> DEFINE r == [IdleThread EXCEPT !.at = Returned(t, FALSE), !.verification = "failed",
                                       !.error = "adapter_failed"]
    <3>1. r \in ThreadRecords /\ r.at = (IF t = Pass THEN "ended" ELSE "settle") /\ r.proc = NoWorker
      BY DEF ThreadRecords, ThreadPlaces, Verifications, Codes, Returned, IdleThread
    <3>2. thread' = [thread EXCEPT ![t] = r] /\ UNCHANGED proc /\ lock' = NoThread
      BY <1>3, <2>4 DEF Hash
    <3> HIDE DEF r
    <3>3. thread' \in [Threads -> ThreadRecords] /\ PlacesHold'
      BY <1>0, <2>1, <3>1, <3>2, OneThreadMoves
    <3> QED BY <1>3, <3>2, <3>3 DEF Hash, EngineTyped, passVars, boundVars, modelVars
  <2> QED BY <2>3, <2>4
<1>4. CASE Load(t)
  <2>1. t # Pass => t \in Warmers
    BY DEF Threads
  <2> DEFINE p == thread[t].proc
             r == [thread[t] EXCEPT !.at = Returned(t, TRUE), !.proc = IF t = Pass THEN p ELSE NoWorker]
  <2>2. p \in Workers
    BY <1>4 DEF Load, Running, PlacesHold
  <2>3. /\ r \in ThreadRecords /\ r.at = (IF t = Pass THEN "stream" ELSE "settle")
        /\ r.proc = IF t = Pass THEN p ELSE NoWorker
    BY DEF ThreadRecords, ThreadPlaces, Returned
  <2>4. /\ thread' = [thread EXCEPT ![t] = r] /\ lock' = NoThread /\ slot' = p
    BY <1>4 DEF Load, EngineTyped
  <2>5. PICK context \in Contexts : proc' = [proc EXCEPT ![p].loaded = TRUE, ![p].context = context]
    BY <1>4 DEF Load, EngineTyped, MachineFacts, Contexts
  <2>6. proc' \in [Workers -> Processes]
    BY <2>2, <2>5 DEF EngineTyped, Processes
  <2> HIDE DEF r, p
  <2>7. thread' \in [Threads -> ThreadRecords] /\ PlacesHold'
    BY <1>0, <2>1, <2>2, <2>3, <2>4, OneThreadMoves
  <2> QED BY <1>4, <2>2, <2>4, <2>6, <2>7 DEF Load, EngineTyped, passVars, boundVars, modelVars
<1>5. CASE LoadFails(t)
  <2>1. t # Pass => t \in Warmers
    BY DEF Threads
  <2> DEFINE r == [thread[t] EXCEPT !.at = Returned(t, FALSE), !.proc = NoWorker,
                                    !.error = "adapter_failed"]
  <2>3. r \in ThreadRecords /\ r.at = (IF t = Pass THEN "ended" ELSE "settle") /\ r.proc = NoWorker
    BY DEF ThreadRecords, ThreadPlaces, Returned, Codes
  <2>4. thread' = [thread EXCEPT ![t] = r] /\ lock' = NoThread
    BY <1>5 DEF LoadFails, EngineTyped
  <2>5. proc' \in [Workers -> Processes]
    BY <1>5, DroppedTyped DEF LoadFails, EngineTyped
  <2> HIDE DEF r
  <2>6. thread' \in [Threads -> ThreadRecords] /\ PlacesHold'
    BY <1>0, <2>1, <2>3, <2>4, OneThreadMoves
  <2> QED BY <1>5, <2>4, <2>5, <2>6 DEF LoadFails, EngineTyped, passVars, boundVars, modelVars
<1>6. CASE Settle(t)
  <2>1. IdleThread.at = "idle" /\ IdleThread.proc = NoWorker
    BY DEF IdleThread
  <2>2. thread' \in [Threads -> ThreadRecords] /\ PlacesHold'
    BY <1>6, <2>1, OneThreadMoves DEF Settle
  <2> QED BY <1>6, <2>2 DEF Settle, EngineTyped, engineVars, passVars, boundVars, modelVars
<1> QED BY <1>1, <1>2, <1>3, <1>4, <1>5, <1>6 DEF ThreadStep

(* The pass failing at its stream *)
LEMMA FailingPass ==
  ASSUME EngineTyped, PlacesHold, Running(Pass, "stream"), NEW code \in Codes, FailPass(code)
  PROVE  thread' \in [Threads -> ThreadRecords] /\ PlacesHold'
<1> DEFINE r == [thread[Pass] EXCEPT !.at = "failed", !.error = code]
<1>1. Pass \in Threads /\ Pass \notin Warmers
  BY EngineAssumption DEF Threads
<1>2. r \in ThreadRecords /\ r.at = "failed"
  BY <1>1, ThreadTyped DEF ThreadRecords, ThreadPlaces
<1>3. thread' = [thread EXCEPT ![Pass] = r]
  BY <1>1 DEF FailPass, EngineTyped
<1> HIDE DEF r
<1> QED BY <1>1, <1>2, <1>3, OneThreadMoves

LEMMA NextRequestTyped ==
  ASSUME NEW r \in Requests, r.sequence < Chunks
  PROVE  NextRequest(r) \in Requests
<1>1. Chunks \in Nat /\ r.sequence \in 0 .. Chunks
  BY EngineAssumption, MaxChunksAssumption DEF Requests
<1>2. CASE r.command = "push" /\ r.sequence + 1 < Chunks
  <2>1. r.sequence + 1 \in 0 .. Chunks
    BY <1>1, <1>2
  <2>2. NextRequest(r) = [r EXCEPT !.sequence = r.sequence + 1, !.sent = FALSE]
    BY <1>2 DEF NextRequest, Requests
  <2> QED BY <2>1, <2>2 DEF Requests
<1>3. CASE ~(r.command = "push" /\ r.sequence + 1 < Chunks)
  <2>1. \E next \in {"start", "push", "finish"} :
           NextRequest(r) = [r EXCEPT !.command = next, !.sent = FALSE]
    BY <1>3 DEF NextRequest, Requests
  <2> QED BY <2>1 DEF Requests
<1> QED BY <1>2, <1>3

LEMMA KilledTyped ==
  ASSUME EngineTyped, NEW p \in Workers
  PROVE  Killed(p, proc) \in [Workers -> Processes]
<1>1. <<>> \in Seq(Requests) /\ <<>> \in Seq(Responses)
  OBVIOUS
<1> DEFINE dead == [proc[p] EXCEPT !.life = "killed", !.inbox = <<>>, !.outbox = <<>>]
<1>2. proc[p] \in Processes
  BY DEF EngineTyped
<1>3. dead \in Processes
  BY <1>1, <1>2 DEF Processes
<1>4. Killed(p, proc) = [proc EXCEPT ![p] = dead]
  BY DEF Killed
<1> HIDE DEF dead
<1> QED BY <1>3, <1>4 DEF EngineTyped

LEMMA HeldIsAWorker ==
  ASSUME PlacesHold, Running(Pass, "stream")
  PROVE  Held \in Workers /\ Pass \in Threads
BY DEF PlacesHold, Running, Held, Threads

LEMMA PassStepKeepsTypes ==
  ASSUME EngineTyped, PlacesHold, Running(Pass, "stream") => request.sequence < Chunks, PassStep
  PROVE  EngineTyped' /\ PlacesHold'
<1> USE ThreadTyped, IdleTyped
<1>0. Pass \in Threads /\ Pass \notin Warmers
  BY EngineAssumption DEF Threads
<1>a. {"none", "adapter_failed", "deadline_exceeded", "cancelled", "stale_event",
       "no_speech_detected"} \subseteq Codes
  BY DEF Codes
<1>1. CASE SendRequest
  <2>0. Held \in Workers
    BY <1>1, HeldIsAWorker DEF SendRequest
  <2>1. CASE /\ \E code \in Codes : FailPass(code)
             /\ UNCHANGED <<proc, request>>
    <3>1. thread' \in [Threads -> ThreadRecords] /\ PlacesHold'
      BY <1>1, <2>1, FailingPass DEF SendRequest
    <3> QED BY <1>1, <2>1, <3>1 DEF SendRequest, EngineTyped, engineVars, boundVars, modelVars
  <2>2. CASE /\ request' = [request EXCEPT !.sent = TRUE]
             /\ proc' = [proc EXCEPT ![Held].inbox = Append(@, request')]
             /\ UNCHANGED thread
    <3>1. request' \in Requests
      BY <2>2 DEF EngineTyped, Requests
    <3>2. Append(proc[Held].inbox, request') \in Seq(Requests)
      BY <2>0, <3>1, ProcessTyped
    <3>3. proc' \in [Workers -> Processes]
      BY <2>0, <2>2, <3>2 DEF EngineTyped, Processes
    <3> QED BY <1>1, <2>2, <3>1, <3>3
            DEF SendRequest, EngineTyped, engineVars, boundVars, modelVars, PlacesHold
  <2> QED BY <1>a, <1>1, <2>1, <2>2 DEF SendRequest
<1>2. CASE GiveUpWaiting \/ WorkerGone
  <2>0. Held \in Workers /\ Running(Pass, "stream")
    BY <1>2, HeldIsAWorker DEF GiveUpWaiting, WorkerGone
  <2>1. PICK code \in Codes : FailPass(code)
    BY <1>a, <1>2 DEF GiveUpWaiting, WorkerGone
  <2>2. thread' \in [Threads -> ThreadRecords] /\ PlacesHold'
    BY <2>0, <2>1, FailingPass
  <2>3. proc' \in [Workers -> Processes]
    BY <1>2, <2>0, KilledTyped DEF GiveUpWaiting, WorkerGone
  <2> QED BY <1>2, <2>2, <2>3
          DEF GiveUpWaiting, WorkerGone, EngineTyped, engineVars, passVars, boundVars, modelVars
<1>3. CASE ReceiveResponse
  <2>0. Held \in Workers /\ Running(Pass, "stream")
    BY <1>3, HeldIsAWorker DEF ReceiveResponse
  <2>1. [proc EXCEPT ![Held].outbox = Tail(@)] \in [Workers -> Processes]
    <3>1. proc[Held].outbox \in Seq(Responses) /\ proc[Held].outbox # <<>>
      BY <1>3, <2>0, ProcessTyped DEF ReceiveResponse
    <3>2. Tail(proc[Held].outbox) \in Seq(Responses)
      BY <3>1
    <3> QED BY <2>0, <3>2 DEF EngineTyped, Processes
  <2>2. proc' \in [Workers -> Processes]
    BY <1>3, <2>0, <2>1, KilledTyped DEF ReceiveResponse
  <2>3. request' \in Requests
    BY <1>3, <2>0, NextRequestTyped DEF ReceiveResponse, EngineTyped
  <2>4. thread' \in [Threads -> ThreadRecords] /\ PlacesHold'
    <3>1. CASE \E code \in Codes : FailPass(code)
      BY <2>0, <3>1, FailingPass
    <3>2. CASE UNCHANGED thread
      BY <3>2 DEF EngineTyped, PlacesHold
    <3>3. CASE thread' = [thread EXCEPT ![Pass].at = "ended"]
      <4> DEFINE r == [thread[Pass] EXCEPT !.at = "ended"]
      <4>1. r \in ThreadRecords /\ r.at = "ended"
        BY <1>0 DEF ThreadRecords, ThreadPlaces
      <4>2. thread' = [thread EXCEPT ![Pass] = r]
        BY <1>0, <3>3 DEF EngineTyped
      <4> HIDE DEF r
      <4> QED BY <1>0, <4>1, <4>2, OneThreadMoves
    <3> QED BY <1>a, <1>3, <3>1, <3>2, <3>3 DEF ReceiveResponse
  <2> QED BY <1>3, <2>2, <2>3, <2>4
          DEF ReceiveResponse, EngineTyped, engineVars, boundVars, modelVars
<1>4. CASE PassFails \/ PassRecordsCold \/ PassTakes
  <2> DEFINE place == thread'[Pass].at
             r == [thread[Pass] EXCEPT !.at = place]
  <2>1. /\ thread' = [thread EXCEPT ![Pass] = r]
        /\ place \in {"take", "cold", "ended"}
    <3>1. \E at \in {"take", "cold", "ended"} : thread' = [thread EXCEPT ![Pass].at = at]
      BY <1>4 DEF PassFails, PassRecordsCold, PassTakes
    <3> QED BY <1>0, <3>1 DEF EngineTyped
  <2>2. r \in ThreadRecords /\ r.at = place
    BY <1>0, <2>1 DEF ThreadRecords, ThreadPlaces
  <2> HIDE DEF r, place
  <2>3. thread' \in [Threads -> ThreadRecords] /\ PlacesHold'
    BY <1>0, <2>1, <2>2, OneThreadMoves
  <2>4. proc' \in [Workers -> Processes] /\ slot' \in Workers \cup {NoWorker}
    BY <1>4, DroppedTyped DEF PassFails, PassRecordsCold, PassTakes, EngineTyped
  <2> QED BY <1>4, <2>3, <2>4
          DEF PassFails, PassRecordsCold, PassTakes, EngineTyped, passVars, boundVars, modelVars
<1>5. CASE PassEnds
  <2>1. IdleThread.at = "idle" /\ IdleThread.proc = NoWorker
    BY DEF IdleThread
  <2>2. thread' \in [Threads -> ThreadRecords] /\ PlacesHold'
    BY <1>0, <1>5, <2>1, OneThreadMoves DEF PassEnds
  <2>3. proc' \in [Workers -> Processes]
    BY <1>5, DroppedTyped DEF PassEnds, EngineTyped
  <2> QED BY <1>5, <2>2, <2>3 DEF PassEnds, EngineTyped, engineVars, boundVars, modelVars
<1> QED BY <1>1, <1>2, <1>3, <1>4, <1>5 DEF PassStep

LEMMA WarmerStarts ==
  ASSUME EngineTyped, PlacesHold, NEW w \in Warmers, StartWarmer(w)
  PROVE  thread' \in [Threads -> ThreadRecords] /\ PlacesHold'
<1> DEFINE r == [IdleThread EXCEPT !.at = "read"]
<1>1. r \in ThreadRecords /\ r.at = "read" /\ r.proc = NoWorker
  BY IdleTyped DEF ThreadRecords, ThreadPlaces, IdleThread
<1>2. thread' = [thread EXCEPT ![w] = r] /\ w \in Threads
  BY DEF StartWarmer, Threads
<1> HIDE DEF r
<1> QED BY <1>1, <1>2, OneThreadMoves

LEMMA UiStepKeepsTypes ==
  ASSUME EngineTyped, PlacesHold, UiStep
  PROVE  EngineTyped' /\ PlacesHold'
<1>1. CASE UiTakes
  <2>1. proc' \in [Workers -> Processes]
    BY <1>1, DroppedTyped DEF UiTakes, EngineTyped
  <2> QED BY <1>1, <2>1 DEF UiTakes, EngineTyped, PlacesHold, passVars, boundVars, modelVars
<1>2. CASE UiRecordsCold
  BY <1>2 DEF UiRecordsCold, EngineTyped, PlacesHold, passVars, boundVars, modelVars
<1>3. CASE \E w \in Warmers : UiWarms(w)
  <2>1. thread' \in [Threads -> ThreadRecords] /\ PlacesHold'
    BY <1>3, WarmerStarts DEF UiWarms
  <2> QED BY <1>3, <2>1 DEF UiWarms, EngineTyped, engineVars, passVars, boundVars
<1> QED BY <1>1, <1>2, <1>3 DEF UiStep

LEMMA CommandsKeepTypes ==
  ASSUME EngineTyped, PlacesHold, Commands
  PROVE  EngineTyped' /\ PlacesHold'
<1> USE IdleTyped
<1>1. CASE \E retry \in BOOLEAN : PassBegins(retry)
  <2>0. Pass \in Threads /\ Pass \notin Warmers
    BY EngineAssumption DEF Threads
  <2> DEFINE r == [IdleThread EXCEPT !.at = "read"]
  <2>1. r \in ThreadRecords /\ r.at = "read" /\ r.proc = NoWorker
    BY DEF ThreadRecords, ThreadPlaces, IdleThread
  <2>2. thread' = [thread EXCEPT ![Pass] = r]
    BY <1>1 DEF PassBegins
  <2> HIDE DEF r
  <2>3. thread' \in [Threads -> ThreadRecords] /\ PlacesHold'
    BY <2>0, <2>1, <2>2, OneThreadMoves
  <2>4. /\ passes' \in Nat /\ commands' \in Nat
        /\ passes' <= commands' /\ commands' <= MaxCommands
    BY <1>1, EngineAssumption DEF PassBegins, EngineTyped
  <2>5. request' \in Requests
    <3>1. passes + 1 \in 0 .. MaxCommands /\ 0 \in 0 .. Chunks
      BY <1>1, EngineAssumption, MaxChunksAssumption DEF PassBegins, EngineTyped
    <3> QED BY <1>1, <3>1 DEF PassBegins, FirstRequest, Requests
  <2> QED BY <1>1, <2>3, <2>4, <2>5 DEF PassBegins, EngineTyped, engineVars, modelVars
<1>2. CASE CancelPass
  BY <1>2 DEF CancelPass, EngineTyped, PlacesHold, engineVars, modelVars
<1>3. CASE GpuRetest \/ RestartEngine \/ InstallBegins \/ ModelRemove
  <2>1. /\ commands' = commands + 1 /\ commands < MaxCommands
        /\ UNCHANGED <<machine, override, slot, lock, proc, thread, request, passes>>
        /\ disk' \in {disk, "absent"}
    BY <1>3 DEF GpuRetest, RestartEngine, InstallBegins, ModelRemove, UiIdle,
                engineVars, passVars, modelVars
  <2>2. /\ passes' \in Nat /\ commands' \in Nat
        /\ passes' <= commands' /\ commands' <= MaxCommands
    BY <2>1, EngineAssumption DEF EngineTyped
  <2> QED BY <2>1, <2>2 DEF EngineTyped, PlacesHold
<1>4. CASE \E provider \in Providers : SwitchProvider(provider)
  <2>1. /\ commands' = commands + 1 /\ commands < MaxCommands
        /\ UNCHANGED <<machine, disk, slot, lock, proc, thread, request, passes>>
        /\ override' \in Providers \cup {"none"}
    BY <1>4 DEF SwitchProvider, UiIdle, passVars, modelVars
  <2>2. /\ passes' \in Nat /\ commands' \in Nat
        /\ passes' <= commands' /\ commands' <= MaxCommands
    BY <2>1, EngineAssumption DEF EngineTyped
  <2> QED BY <2>1, <2>2 DEF EngineTyped, PlacesHold
<1>5. CASE \E w \in Warmers : InstallSucceeds(w)
  <2>1. thread' \in [Threads -> ThreadRecords] /\ PlacesHold'
    BY <1>5, WarmerStarts DEF InstallSucceeds
  <2> QED BY <1>5, <2>1 DEF InstallSucceeds, EngineTyped, engineVars, passVars, boundVars
<1>6. CASE InstallFails
  BY <1>6 DEF InstallFails, EngineTyped, PlacesHold, engineVars, passVars, boundVars
<1> QED BY <1>1, <1>2, <1>3, <1>4, <1>5, <1>6 DEF Commands

LEMMA WorkersKeepTypes ==
  ASSUME EngineTyped, PlacesHold, NEW p \in Workers, WorkerHandles(p) \/ WorkerCrashes(p)
  PROVE  EngineTyped' /\ PlacesHold'
<1> USE ProcessTyped
<1>1. CASE WorkerHandles(p)
  <2> DEFINE asked == Head(proc[p].inbox)
             reply(infers) == Handle(Worker(p), asked, disk # "absent", TRUE, infers)
             answer(infers) == [request |-> asked, event |-> reply(infers).event,
                                heard |-> reply(infers).heard]
  <2>1. PICK infers \in BOOLEAN :
          proc' = [proc EXCEPT ![p].inbox = Tail(@), ![p].loaded = reply(infers).worker.loaded,
                     ![p].active = reply(infers).worker.active,
                     ![p].outbox = Append(@, answer(infers))]
    BY <1>1 DEF WorkerHandles
  <2>2. proc[p].inbox \in Seq(Requests) /\ proc[p].inbox # <<>>
    BY <1>1 DEF WorkerHandles
  <2>3. asked \in Requests /\ Tail(proc[p].inbox) \in Seq(Requests)
    BY <2>2
  <2>4. (disk # "absent") \in BOOLEAN
    OBVIOUS
  <2>5. reply(infers) \in Replies
    BY <2>3, <2>4, HandleTyped
  <2> HIDE DEF asked, reply
  <2>6. answer(infers) \in Responses
    BY <2>3, <2>5 DEF Responses, Replies
  <2>7. Append(proc[p].outbox, answer(infers)) \in Seq(Responses)
    BY <2>6
  <2>8. reply(infers).worker.loaded \in BOOLEAN /\ reply(infers).worker.active \in Streams
    BY <2>5 DEF Replies, WorkerStates
  <2>9. proc' \in [Workers -> Processes]
    BY <2>1, <2>3, <2>7, <2>8 DEF EngineTyped, Processes
  <2> QED BY <1>1, <2>9
          DEF WorkerHandles, EngineTyped, PlacesHold, engineVars, passVars, boundVars, modelVars
<1>2. CASE WorkerCrashes(p)
  <2>1. <<>> \in Seq(Requests)
    OBVIOUS
  <2> DEFINE crashed == [proc[p] EXCEPT !.life = "crashed", !.inbox = <<>>]
  <2>3. crashed \in Processes
    BY <2>1 DEF Processes
  <2>4. proc' = [proc EXCEPT ![p] = crashed]
    BY <1>2 DEF WorkerCrashes
  <2> HIDE DEF crashed
  <2>2. proc' \in [Workers -> Processes]
    BY <2>3, <2>4 DEF EngineTyped
  <2> QED BY <1>2, <2>2
          DEF WorkerCrashes, EngineTyped, PlacesHold, engineVars, passVars, modelVars
<1> QED BY <1>1, <1>2

----------------------------------------------------------------------------
(* The second layer is kept *)

Loading == {"hash", "loading"}

LEMMA NobodyLoads ==
  ASSUME LoaderHoldsLock, UNCHANGED lock, slot' \in {slot, NoWorker},
         \A t \in Threads : thread'[t].at \in Loading <=> thread[t].at \in Loading
  PROVE  LoaderHoldsLock'
BY DEF LoaderHoldsLock, Loading

LEMMA LoadingEnds ==
  ASSUME EngineTyped, LoaderHoldsLock, NEW t \in Threads, NEW r,
         thread[t].at \in Loading, r.at \notin Loading,
         thread' = [thread EXCEPT ![t] = r], lock' = NoThread
  PROVE  LoaderHoldsLock'
<1>1. NoThread \notin Threads
  BY EngineAssumption
<1>2. \A s \in Threads : s # t => thread'[s] = thread[s]
  BY DEF EngineTyped
<1>3. thread'[t] = r
  BY DEF EngineTyped
<1> QED BY <1>1, <1>2, <1>3 DEF LoaderHoldsLock, Loading

LEMMA SameOwners ==
  ASSUME LivingIsOwned, UNCHANGED slot,
         \A t \in Threads : thread'[t].proc = thread[t].proc,
         \A p \in Workers : proc'[p].life = "none" <=> proc[p].life = "none"
  PROVE  LivingIsOwned'
BY DEF LivingIsOwned, Owned

(* What is dropped is what lost its last owner. *)
LEMMA DroppedWithOwner ==
  ASSUME LivingIsOwned, proc' = Dropped(proc, slot', thread'),
         \A p \in Workers : Owned(p, slot', thread') => Owned(p, slot, thread)
  PROVE  LivingIsOwned'
<1>1. IdleProcess.life = "none"
  BY DEF IdleProcess
<1>2. ASSUME NEW p \in Workers
      PROVE  proc'[p] = IF Owned(p, slot', thread') THEN proc[p] ELSE IdleProcess
  BY DEF Dropped
<1> QED BY <1>1, <1>2 DEF LivingIsOwned, Owned

LEMMA ThreadStepKeepsOwners ==
  ASSUME EngineTyped, PlacesHold, LoaderHoldsLock, LivingIsOwned, NEW t \in Threads, ThreadStep(t)
  PROVE  LoaderHoldsLock' /\ LivingIsOwned'
<1> USE ThreadTyped
<1>0. NoWorker \notin Workers /\ NoThread \notin Threads
  BY EngineAssumption
<1>1. CASE Gate(t) \/ Settle(t)
  <2>1. \A s \in Threads : s # t => thread'[s] = thread[s]
    BY <1>1 DEF Gate, Settle, EngineTyped
  <2>2. thread[t].at \notin Loading /\ thread[t].proc = NoWorker
    BY <1>1 DEF Gate, Settle, Running, PlacesHold, Loading
  <2>3. thread'[t].at \notin Loading /\ thread'[t].proc = NoWorker
    BY <1>1, <2>2 DEF Gate, Settle, EngineTyped, Loading, IdleThread, ThreadRecords
  <2>4. UNCHANGED <<slot, lock, proc>>
    BY <1>1 DEF Gate, Settle, engineVars
  <2> QED BY <2>1, <2>2, <2>3, <2>4, NobodyLoads, SameOwners
<1>2. CASE Enter(t)
  <2>1. \A s \in Threads : s # t => thread'[s] = thread[s]
    BY <1>2 DEF Enter, EngineTyped
  <2>2. thread[t].at \notin Loading /\ thread[t].proc = NoWorker /\ lock = NoThread
    BY <1>2 DEF Enter, Running, PlacesHold, Loading
  <2>3. UNCHANGED <<slot, proc>>
    BY <1>2 DEF Enter
  <2>4. CASE slot # NoWorker
    <3>1. /\ thread'[t].at \notin Loading /\ thread'[t].proc \in {slot, NoWorker}
          /\ UNCHANGED lock
      <4> DEFINE r == [IdleThread EXCEPT !.at = Returned(t, TRUE), !.verification = "already_loaded",
                           !.proc = IF t = Pass THEN slot ELSE NoWorker]
      <4>1. r.at \in {"stream", "settle"} /\ r.proc \in {slot, NoWorker}
        BY DEF Returned, IdleThread
      <4>2. thread' = [thread EXCEPT ![t] = r] /\ UNCHANGED lock
        BY <1>2, <2>4 DEF Enter
      <4> HIDE DEF r
      <4>3. thread'[t] = r
        BY <4>2 DEF EngineTyped
      <4> QED BY <4>1, <4>2, <4>3 DEF Loading
    <3>2. LoaderHoldsLock'
      BY <2>1, <2>2, <2>3, <3>1, NobodyLoads
    <3>3. \A p \in Workers : Owned(p, slot, thread') <=> Owned(p, slot, thread)
      BY <1>0, <2>1, <2>2, <3>1 DEF Owned
    <3>4. LivingIsOwned'
      BY <2>3, <3>3 DEF LivingIsOwned, Owned
    <3> QED BY <3>2, <3>4
  <2>5. CASE slot = NoWorker
    <3>1. thread'[t].at = "hash" /\ thread'[t].proc = NoWorker /\ lock' = t
      BY <1>2, <2>2, <2>5 DEF Enter, EngineTyped, ThreadRecords
    <3>2. LoaderHoldsLock'
      BY <1>0, <2>1, <2>2, <2>3, <2>5, <3>1 DEF LoaderHoldsLock, Loading
    <3>3. LivingIsOwned'
      BY <2>1, <2>2, <2>3, <3>1, SameOwners
    <3> QED BY <3>2, <3>3
  <2> QED BY <2>4, <2>5
<1>3. CASE Hash(t)
  <2>1. \A s \in Threads : s # t => thread'[s] = thread[s]
    BY <1>3 DEF Hash, EngineTyped
  <2>2. /\ thread[t].at = "hash" /\ thread[t].proc = NoWorker /\ lock = t /\ slot = NoWorker
        /\ UNCHANGED slot
    BY <1>0, <1>3 DEF Hash, Running, PlacesHold, LoaderHoldsLock
  <2>3. CASE disk = "intact"
    <3>1. FreeWorker \in Workers /\ proc[FreeWorker].life = "none"
      BY <1>3, FreeWorkerIsFree DEF Hash
    <3>2. /\ thread'[t].at = "loading" /\ thread'[t].proc = FreeWorker /\ UNCHANGED lock
          /\ \A p \in Workers : p # FreeWorker => proc'[p] = proc[p]
          /\ proc'[FreeWorker].life = "alive"
      <4> DEFINE r == [IdleThread EXCEPT !.at = "loading", !.proc = FreeWorker,
                                         !.verification = "verified"]
                 q == [IdleProcess EXCEPT !.life = "alive", !.exe = thread[t].exe,
                                          !.provider = thread[t].provider]
      <4>1. r.at = "loading" /\ r.proc = FreeWorker /\ q.life = "alive"
        BY DEF IdleThread, IdleProcess
      <4>2. /\ thread' = [thread EXCEPT ![t] = r] /\ proc' = [proc EXCEPT ![FreeWorker] = q]
            /\ UNCHANGED lock
        BY <1>3, <2>3 DEF Hash
      <4> HIDE DEF r, q
      <4> QED BY <3>1, <4>1, <4>2 DEF EngineTyped
    <3>3. LoaderHoldsLock'
      BY <2>1, <2>2, <3>2, NobodyLoads DEF Loading
    <3>4. \A p \in Workers : Owned(p, slot, thread') <=> Owned(p, slot, thread) \/ p = FreeWorker
      BY <1>0, <2>1, <2>2, <3>2 DEF Owned
    <3>5. LivingIsOwned'
      BY <2>2, <3>1, <3>2, <3>4 DEF LivingIsOwned, Owned
    <3> QED BY <3>3, <3>5
  <2>4. CASE disk # "intact"
    <3>1. /\ thread'[t].at \notin Loading /\ thread'[t].proc = NoWorker
          /\ UNCHANGED proc
      <4> DEFINE r == [IdleThread EXCEPT !.at = Returned(t, FALSE), !.verification = "failed",
                                         !.error = "adapter_failed"]
      <4>1. r.at \notin Loading /\ r.proc = NoWorker
        BY DEF Loading, Returned, IdleThread
      <4>2. thread' = [thread EXCEPT ![t] = r] /\ UNCHANGED proc
        BY <1>3, <2>4 DEF Hash
      <4> HIDE DEF r
      <4> QED BY <4>1, <4>2 DEF EngineTyped
    <3>2. LoaderHoldsLock'
      <4>1. PICK r : thread' = [thread EXCEPT ![t] = r] /\ lock' = NoThread
        BY <1>3, <2>4 DEF Hash
      <4>2. r.at \notin Loading
        BY <3>1, <4>1 DEF EngineTyped
      <4>3. thread[t].at \in Loading
        BY <2>2 DEF Loading
      <4> QED BY <4>1, <4>2, <4>3, LoadingEnds
    <3>3. LivingIsOwned'
      BY <2>1, <2>2, <3>1, SameOwners
    <3> QED BY <3>2, <3>3
  <2> QED BY <2>3, <2>4
<1>4. CASE Load(t)
  <2> DEFINE p == thread[t].proc
  <2>1. \A s \in Threads : s # t => thread'[s] = thread[s]
    BY <1>4 DEF Load, EngineTyped
  <2>2. /\ thread[t].at = "loading" /\ lock = t /\ slot = NoWorker /\ p \in Workers
    BY <1>0, <1>4 DEF Load, Running, PlacesHold, LoaderHoldsLock
  <2>3. /\ thread'[t].at \notin Loading /\ thread'[t].proc \in {p, NoWorker}
        /\ slot' = p /\ lock' = NoThread
    BY <1>4 DEF Load, EngineTyped, Returned, Loading, ThreadRecords
  <2>4. \A q \in Workers : proc'[q].life = proc[q].life
    BY <1>4, <2>2 DEF Load, EngineTyped, Processes
  <2>5. LoaderHoldsLock'
    BY <1>0, <2>1, <2>2, <2>3 DEF LoaderHoldsLock, Loading
  <2>6. \A q \in Workers : Owned(q, slot', thread') <=> Owned(q, slot, thread)
    BY <1>0, <2>1, <2>2, <2>3 DEF Owned
  <2>7. LivingIsOwned'
    BY <2>4, <2>6 DEF LivingIsOwned, Owned
  <2> QED BY <2>5, <2>7
<1>5. CASE LoadFails(t)
  <2>1. \A s \in Threads : s # t => thread'[s] = thread[s]
    BY <1>5 DEF LoadFails, EngineTyped
  <2>2. thread[t].at = "loading" /\ lock = t /\ UNCHANGED slot
    BY <1>5 DEF LoadFails, Running, LoaderHoldsLock
  <2>3. thread'[t].at \notin Loading /\ thread'[t].proc = NoWorker /\ lock' = NoThread
    BY <1>5 DEF LoadFails, EngineTyped, Returned, Loading, ThreadRecords
  <2>4. LoaderHoldsLock'
    BY <1>0, <2>1, <2>2, <2>3 DEF LoaderHoldsLock, Loading
  <2>5. \A q \in Workers : Owned(q, slot, thread') => Owned(q, slot, thread)
    BY <1>0, <2>1, <2>3 DEF Owned
  <2>6. LivingIsOwned'
    BY <1>5, <2>2, <2>5, DroppedWithOwner DEF LoadFails
  <2> QED BY <2>4, <2>6
<1> QED BY <1>1, <1>2, <1>3, <1>4, <1>5 DEF ThreadStep

LEMMA PassStepKeepsOwners ==
  ASSUME EngineTyped, PlacesHold, LoaderHoldsLock, LivingIsOwned, PassStep
  PROVE  LoaderHoldsLock' /\ LivingIsOwned'
<1> USE ThreadTyped
<1>0. NoWorker \notin Workers /\ Pass \in Threads
  BY EngineAssumption DEF Threads
<1>1. CASE SendRequest \/ GiveUpWaiting \/ ReceiveResponse \/ WorkerGone
  <2>1. Held \in Workers /\ Running(Pass, "stream")
    BY <1>1, HeldIsAWorker DEF SendRequest, GiveUpWaiting, ReceiveResponse, WorkerGone
  <2>2. UNCHANGED <<slot, lock>>
    BY <1>1 DEF SendRequest, GiveUpWaiting, ReceiveResponse, WorkerGone, engineVars
  <2>3. \A t \in Threads : t # Pass => thread'[t] = thread[t]
    BY <1>1 DEF SendRequest, GiveUpWaiting, ReceiveResponse, WorkerGone, FailPass, EngineTyped
  <2>4. thread'[Pass].at \in {"stream", "failed", "ended"} /\ thread'[Pass].proc = thread[Pass].proc
    <3>1. \/ UNCHANGED thread \/ \E code : FailPass(code)
          \/ thread' = [thread EXCEPT ![Pass].at = "ended"]
      BY <1>1 DEF SendRequest, GiveUpWaiting, ReceiveResponse, WorkerGone
    <3>2. \A code : FailPass(code) =>
             thread'[Pass].at = "failed" /\ thread'[Pass].proc = thread[Pass].proc
      BY <1>0 DEF FailPass, EngineTyped, ThreadRecords
    <3>3. thread' = [thread EXCEPT ![Pass].at = "ended"] =>
             thread'[Pass].at = "ended" /\ thread'[Pass].proc = thread[Pass].proc
      BY <1>0 DEF EngineTyped, ThreadRecords
    <3> QED BY <2>1, <3>1, <3>2, <3>3 DEF Running
  <2>5. LoaderHoldsLock'
    BY <2>1, <2>2, <2>3, <2>4, NobodyLoads DEF Running, Loading
  <2>6. proc[Held].life # "none"
    BY <1>0, <2>1 DEF LivingIsOwned, Owned, Held
  <2>7. \A p \in Workers : proc'[p].life = "none" <=> proc[p].life = "none"
    <3>1. \/ UNCHANGED proc
          \/ \E e : proc' = [proc EXCEPT ![Held].inbox = e]
          \/ \E e : proc' = [proc EXCEPT ![Held].outbox = e]
          \/ proc' = Killed(Held, proc)
      BY <1>1 DEF SendRequest, GiveUpWaiting, ReceiveResponse, WorkerGone
    <3>2. \A e : proc' = [proc EXCEPT ![Held].inbox = e] =>
             \A p \in Workers : proc'[p].life = proc[p].life
      BY <2>1 DEF EngineTyped, Processes
    <3>3. \A e : proc' = [proc EXCEPT ![Held].outbox = e] =>
             \A p \in Workers : proc'[p].life = proc[p].life
      BY <2>1 DEF EngineTyped, Processes
    <3>4. proc' = Killed(Held, proc) =>
             /\ proc'[Held].life = "killed"
             /\ \A p \in Workers : p # Held => proc'[p] = proc[p]
      BY <2>1 DEF Killed, EngineTyped, Processes
    <3> QED BY <2>6, <3>1, <3>2, <3>3, <3>4
  <2>8. LivingIsOwned'
    BY <2>2, <2>3, <2>4, <2>7, SameOwners
  <2> QED BY <2>5, <2>8
<1>2. CASE PassFails \/ PassRecordsCold \/ PassTakes
  <2>1. \A t \in Threads : t # Pass => thread'[t] = thread[t]
    BY <1>2 DEF PassFails, PassRecordsCold, PassTakes, EngineTyped
  <2>2. \E at \in {"take", "cold", "ended"} : thread' = [thread EXCEPT ![Pass].at = at]
    BY <1>2 DEF PassFails, PassRecordsCold, PassTakes
  <2>3. thread'[Pass].at \notin Loading /\ thread'[Pass].proc = thread[Pass].proc
    BY <1>0, <2>2 DEF EngineTyped, ThreadRecords, Loading
  <2>4. thread[Pass].at \notin Loading
    BY <1>2 DEF PassFails, PassRecordsCold, PassTakes, Running, Loading
  <2>5. UNCHANGED lock /\ slot' \in {slot, NoWorker}
    BY <1>2 DEF PassFails, PassRecordsCold, PassTakes
  <2>6. LoaderHoldsLock'
    BY <2>1, <2>3, <2>4, <2>5, NobodyLoads
  <2>7. CASE PassTakes
    <3>1. \A p \in Workers : Owned(p, slot', thread') => Owned(p, slot, thread)
      BY <1>0, <2>1, <2>3, <2>7 DEF Owned, PassTakes
    <3>2. \A p \in Workers : Owned(p, NoWorker, thread) <=> Owned(p, NoWorker, thread')
      BY <2>1, <2>3 DEF Owned
    <3>3. proc' = Dropped(proc, slot', thread')
      BY <2>7, <3>2 DEF PassTakes, Dropped
    <3> QED BY <2>6, <3>1, <3>3, DroppedWithOwner
  <2>8. CASE PassFails \/ PassRecordsCold
    <3>1. UNCHANGED <<slot, proc>>
      BY <2>8 DEF PassFails, PassRecordsCold
    <3> QED BY <2>1, <2>3, <2>6, <3>1, SameOwners
  <2> QED BY <1>2, <2>7, <2>8
<1>3. CASE PassEnds
  <2>1. \A t \in Threads : t # Pass => thread'[t] = thread[t]
    BY <1>3 DEF PassEnds, EngineTyped
  <2>2. /\ thread'[Pass].at \notin Loading /\ thread'[Pass].proc = NoWorker
        /\ thread[Pass].at \notin Loading /\ UNCHANGED <<slot, lock>>
    BY <1>0, <1>3 DEF PassEnds, EngineTyped, IdleThread, Running, Loading, engineVars
  <2>3. LoaderHoldsLock'
    BY <2>1, <2>2, NobodyLoads
  <2>4. \A p \in Workers : Owned(p, slot', thread') => Owned(p, slot, thread)
    BY <1>0, <2>1, <2>2 DEF Owned
  <2>5. proc' = Dropped(proc, slot', thread')
    BY <1>3, <2>2 DEF PassEnds
  <2> QED BY <2>3, <2>4, <2>5, DroppedWithOwner
<1> QED BY <1>1, <1>2, <1>3 DEF PassStep

(* What a worker that handles a request makes of itself *)
LEMMA HandlingEffect ==
  ASSUME EngineTyped, NEW p \in Workers, WorkerHandles(p)
  PROVE  /\ proc[p].inbox # <<>> /\ proc[p].life = "alive" /\ proc'[p].life = "alive"
         /\ \A q \in Workers : q # p => proc'[q] = proc[q]
         /\ proc'[p].exe = proc[p].exe /\ proc'[p].provider = proc[p].provider
         /\ proc'[p].context = proc[p].context
         /\ proc'[p].inbox = Tail(proc[p].inbox)
         /\ \E infers \in BOOLEAN :
              LET asked == Head(proc[p].inbox)
                  reply == Handle(Worker(p), asked, disk # "absent", TRUE, infers)
              IN /\ proc'[p].active = reply.worker.active
                 /\ proc'[p].outbox = Append(proc[p].outbox,
                       [request |-> asked, event |-> reply.event, heard |-> reply.heard])
<1> DEFINE reply(infers) == Handle(Worker(p), Head(proc[p].inbox), disk # "absent", TRUE, infers)
           answer(infers) == [request |-> Head(proc[p].inbox), event |-> reply(infers).event,
                              heard |-> reply(infers).heard]
<1>1. PICK infers \in BOOLEAN :
        proc' = [proc EXCEPT ![p].inbox = Tail(@), ![p].loaded = reply(infers).worker.loaded,
                   ![p].active = reply(infers).worker.active,
                   ![p].outbox = Append(@, answer(infers))]
  BY DEF WorkerHandles
<1> HIDE DEF reply, answer
<1>2. \A q \in Workers : q # p => proc'[q] = proc[q]
  BY <1>1 DEF EngineTyped
<1>3. proc'[p] = [proc[p] EXCEPT !.inbox = Tail(@), !.loaded = reply(infers).worker.loaded,
                   !.active = reply(infers).worker.active, !.outbox = Append(@, answer(infers))]
  BY <1>1 DEF EngineTyped
<1>4. proc[p] \in Processes
  BY DEF EngineTyped
<1>5. /\ proc'[p].life = proc[p].life /\ proc'[p].exe = proc[p].exe
      /\ proc'[p].provider = proc[p].provider /\ proc'[p].context = proc[p].context
      /\ proc'[p].inbox = Tail(proc[p].inbox) /\ proc'[p].active = reply(infers).worker.active
      /\ proc'[p].outbox = Append(proc[p].outbox, answer(infers))
  BY <1>3, <1>4 DEF Processes
<1>6. proc[p].inbox # <<>> /\ proc[p].life = "alive"
  BY DEF WorkerHandles
<1> QED BY <1>2, <1>5, <1>6 DEF reply, answer

LEMMA StartsKeepOwners ==
  ASSUME EngineTyped, PlacesHold, LoaderHoldsLock, LivingIsOwned, NEW t \in Threads,
         Running(t, "idle"), thread' = [thread EXCEPT ![t] = [IdleThread EXCEPT !.at = "read"]],
         UNCHANGED <<slot, lock, proc>>
  PROVE  LoaderHoldsLock' /\ LivingIsOwned'
<1>1. \A s \in Threads : s # t => thread'[s] = thread[s]
  BY DEF EngineTyped
<1>2. /\ thread'[t].at \notin Loading /\ thread'[t].proc = NoWorker
      /\ thread[t].at \notin Loading /\ thread[t].proc = NoWorker
  BY DEF EngineTyped, IdleThread, Running, Loading, PlacesHold
<1> QED BY <1>1, <1>2, NobodyLoads, SameOwners

LEMMA OthersKeepOwners ==
  ASSUME EngineTyped, PlacesHold, LoaderHoldsLock, LivingIsOwned,
         UiStep \/ Commands \/ \E p \in Workers : WorkerHandles(p) \/ WorkerCrashes(p)
  PROVE  LoaderHoldsLock' /\ LivingIsOwned'
<1>0. NoWorker \notin Workers
  BY EngineAssumption
<1>1. CASE UiTakes
  <2>1. \A p \in Workers : Owned(p, slot', thread') => Owned(p, slot, thread)
    BY <1>0, <1>1 DEF UiTakes, Owned
  <2>2. proc' = Dropped(proc, slot', thread')
    BY <1>1 DEF UiTakes
  <2>3. LivingIsOwned'
    BY <2>1, <2>2, DroppedWithOwner
  <2>4. LoaderHoldsLock'
    BY <1>1, NobodyLoads DEF UiTakes
  <2> QED BY <2>3, <2>4
<1>2. CASE \/ \E w \in Warmers : UiWarms(w) \/ InstallSucceeds(w)
           \/ \E retry \in BOOLEAN : PassBegins(retry)
  <2>1. /\ UNCHANGED <<slot, lock, proc>>
        /\ \E t \in Threads : /\ Running(t, "idle")
                              /\ thread' = [thread EXCEPT ![t] = [IdleThread EXCEPT !.at = "read"]]
    BY <1>2 DEF UiWarms, InstallSucceeds, PassBegins, StartWarmer, engineVars, Threads
  <2> QED BY <2>1, StartsKeepOwners
<1>3. CASE UiRecordsCold \/ CancelPass \/ GpuRetest \/ RestartEngine \/ InstallBegins \/ InstallFails
           \/ ModelRemove \/ \E provider \in Providers : SwitchProvider(provider)
  <2>1. UNCHANGED <<slot, lock, proc, thread>>
    BY <1>3 DEF UiRecordsCold, CancelPass, GpuRetest, RestartEngine, InstallBegins, InstallFails,
                ModelRemove, SwitchProvider, engineVars
  <2> QED BY <2>1, NobodyLoads, SameOwners
<1>4. ASSUME NEW p \in Workers, WorkerHandles(p) \/ WorkerCrashes(p)
      PROVE  LoaderHoldsLock' /\ LivingIsOwned'
  <2>1. UNCHANGED <<slot, lock, thread>>
    BY <1>4 DEF WorkerHandles, WorkerCrashes, engineVars
  <2>2. \A q \in Workers : q # p => proc'[q] = proc[q]
    <3>1. CASE WorkerHandles(p)
      <4>1. PICK r : proc' = [proc EXCEPT ![p] = r]
        BY <3>1 DEF WorkerHandles
      <4> QED BY <4>1 DEF EngineTyped
    <3>2. CASE WorkerCrashes(p)
      BY <3>2 DEF WorkerCrashes, EngineTyped
    <3> QED BY <1>4, <3>1, <3>2
  <2>3. proc[p].life = "alive" /\ proc'[p].life \in {"alive", "crashed"}
    <3>1. CASE WorkerHandles(p)
      BY <3>1, HandlingEffect
    <3>2. CASE WorkerCrashes(p)
      BY <3>2 DEF WorkerCrashes, EngineTyped, Processes
    <3> QED BY <1>4, <3>1, <3>2
  <2> QED BY <2>1, <2>2, <2>3, NobodyLoads, SameOwners
<1> QED BY <1>1, <1>2, <1>3, <1>4 DEF UiStep, Commands

----------------------------------------------------------------------------
(* The labels keep their types *)

LEMMA LabelsKept ==
  ASSUME EngineTyped, LabelsTyped, Next
  PROVE  LabelsTyped'
<1>1. CASE \E t \in Threads : ThreadStep(t)
  <2> PICK t \in Threads : ThreadStep(t)
    BY <1>1
  <2>1. CASE Gate(t)
    <3>1. warm' \in {warm} \cup {"granite_worker_missing", "memory_below_granite_floor",
                                 "not_configured"}
      BY <2>1 DEF Gate, GateRefusal
    <3> QED BY <2>1, <3>1 DEF Gate, LabelsTyped, modelVars, passVars, boundVars
  <2>2. CASE Enter(t) \/ Hash(t)
    <3>1. warm' \in {warm, "warming", "granite_model_files_unverified"}
      BY <2>2 DEF Enter, Hash
    <3> QED BY <2>2, <3>1 DEF Enter, Hash, LabelsTyped, modelVars, passVars, boundVars
  <2>3. CASE Load(t)
    <3> DEFINE p == thread[t].proc
    <3>1. PICK context \in Contexts : RecordWorkerProvider(p, context)
      BY <2>3 DEF Load, EngineTyped, MachineFacts, Contexts
    <3>2. device' \in {"cpu", "cuda", "cuda_unverified"}
      <4>1. DeviceName(HasCuda(p), context) \in {"cpu", "cuda", "cuda_unverified"}
        BY DEF DeviceName, Contexts, HasCuda
      <4> QED BY <3>1, <4>1 DEF RecordWorkerProvider
    <3>3. integrity' \in Integrities
      BY <3>1 DEF RecordWorkerProvider, Assess, Integrities
    <3>4. warm' = "ready"
      BY <2>3 DEF Load
    <3> QED BY <2>3, <3>2, <3>3, <3>4 DEF Load, LabelsTyped, modelVars, passVars, boundVars
  <2>4. CASE LoadFails(t)
    <3>1. crashes' \in Nat
      BY <2>4 DEF LoadFails, RecordCrash, LabelsTyped
    <3> QED BY <2>4, <3>1 DEF LoadFails, LabelsTyped, modelVars, passVars, boundVars
  <2>5. CASE Settle(t)
    <3>1. thread[t].verification \in Verifications
      BY ThreadTyped
    <3>2. status' \in {"absent", "installed_unverified", "verified_on_disk", "failed"}
      BY <2>5, <3>1 DEF Settle, SettledState, Readiness, Verifications
    <3> QED BY <2>5, <3>2 DEF Settle, LabelsTyped, engineVars, passVars, boundVars
  <2> QED BY <2>1, <2>2, <2>3, <2>4, <2>5 DEF ThreadStep
<1>2. CASE PassStep
  <2>1. CASE SendRequest \/ GiveUpWaiting \/ ReceiveResponse \/ WorkerGone
    BY <2>1 DEF SendRequest, GiveUpWaiting, ReceiveResponse, WorkerGone, LabelsTyped,
                modelVars, engineVars, passVars, boundVars
  <2>2. CASE PassFails
    <3>1. crashes' \in Nat
      BY <2>2 DEF PassFails, RecordCrash, LabelsTyped
    <3> QED BY <2>2, <3>1 DEF PassFails, LabelsTyped, modelVars, passVars, boundVars
  <2>3. CASE PassTakes \/ PassRecordsCold
    BY <2>3 DEF PassTakes, PassRecordsCold, LabelsTyped, modelVars, passVars, boundVars
  <2>4. CASE PassEnds
    <3>1. cancel' \in BOOLEAN /\ lease' \in BOOLEAN
      BY <2>4 DEF PassEnds
    <3> QED BY <2>4, <3>1 DEF PassEnds, LabelsTyped, modelVars, engineVars, boundVars
  <2> QED BY <1>2, <2>1, <2>2, <2>3, <2>4 DEF PassStep
<1>3. CASE UiStep
  <2>1. CASE UiTakes \/ UiRecordsCold
    BY <2>1 DEF UiTakes, UiRecordsCold, LabelsTyped, modelVars, passVars, boundVars
  <2>2. CASE \E w \in Warmers : UiWarms(w)
    BY <2>2 DEF UiWarms, MarkVerifying, LabelsTyped, engineVars, passVars, boundVars
  <2> QED BY <1>3, <2>1, <2>2 DEF UiStep
<1>4. CASE Commands
  <2>1. CASE \E retry \in BOOLEAN : PassBegins(retry)
    BY <2>1 DEF PassBegins, LabelsTyped, modelVars, engineVars
  <2>2. CASE CancelPass
    <3>1. faults' \in 0 .. MaxFaults
      BY <2>2, EngineAssumption DEF CancelPass, LabelsTyped
    <3> QED BY <2>2, <3>1 DEF CancelPass, LabelsTyped, modelVars, engineVars
  <2>3. CASE GpuRetest \/ RestartEngine \/ \E provider \in Providers : SwitchProvider(provider)
    BY <2>3 DEF GpuRetest, RestartEngine, SwitchProvider, LabelsTyped, modelVars, engineVars,
                passVars
  <2>4. CASE InstallBegins \/ InstallFails \/ ModelRemove \/ \E w \in Warmers : InstallSucceeds(w)
    BY <2>4 DEF InstallBegins, InstallFails, ModelRemove, InstallSucceeds, LabelsTyped, engineVars,
                passVars, boundVars
  <2> QED BY <1>4, <2>1, <2>2, <2>3, <2>4 DEF Commands
<1>5. ASSUME NEW p \in Workers, WorkerHandles(p) \/ WorkerCrashes(p)
      PROVE  LabelsTyped'
  <2>1. faults' \in 0 .. MaxFaults
    <3>1. UNCHANGED faults \/ (faults < MaxFaults /\ faults' = faults + 1)
      BY <1>5 DEF WorkerHandles, WorkerCrashes, boundVars
    <3>2. faults \in 0 .. MaxFaults /\ MaxFaults \in Nat
      BY EngineAssumption DEF LabelsTyped
    <3> QED BY <3>1, <3>2
  <2> QED BY <1>5, <2>1 DEF WorkerHandles, WorkerCrashes, LabelsTyped, modelVars, engineVars,
                            passVars
<1> QED BY <1>1, <1>2, <1>3, <1>4, <1>5 DEF Next, ThreadsRun

----------------------------------------------------------------------------
(* The third layer is kept *)

LEMMA ReadyKept ==
  ASSUME EngineTyped, LabelsTyped, PlacesHold, LoaderHoldsLock, ReadyIsResident, Next
  PROVE  ReadyIsResident'
<1>0. NoWorker \notin Workers /\ Pass \in Threads /\ Pass \notin Warmers
  BY EngineAssumption DEF Threads
<1>a. ASSUME UNCHANGED <<slot, warm>>, ui.at = "cold" => ui'.at = "cold",
             thread[Pass].at = "cold" => thread'[Pass].at = "cold"
      PROVE  ReadyIsResident'
  BY <1>a DEF ReadyIsResident
<1>1. CASE \E t \in Threads : ThreadStep(t)
  <2> PICK t \in Threads : ThreadStep(t)
    BY <1>1
  <2>0. t # Pass => thread'[Pass] = thread[Pass]
    BY <1>0 DEF ThreadStep, Gate, Enter, Hash, Load, LoadFails, Settle, EngineTyped
  <2>1. thread[t].at # "cold"
    BY DEF ThreadStep, Gate, Enter, Hash, Load, LoadFails, Settle, Running
  <2>2. UNCHANGED ui
    BY DEF ThreadStep, Gate, Enter, Hash, Load, LoadFails, Settle
  <2>3. CASE Load(t)
    BY <1>0, <2>3 DEF Load, Running, PlacesHold, ReadyIsResident
  <2>4. CASE ~Load(t)
    <3>1. UNCHANGED slot /\ (UNCHANGED warm \/ warm' # "ready")
      BY <2>4 DEF ThreadStep, Gate, GateRefusal, Enter, Hash, LoadFails, Settle, engineVars
    <3>2. thread[Pass].at = "cold" => thread'[Pass].at = "cold"
      BY <2>0, <2>1
    <3> QED BY <1>a, <2>2, <3>1, <3>2 DEF ReadyIsResident
  <2> QED BY <2>3, <2>4
<1>2. CASE PassStep
  <2>1. CASE PassTakes
    <3>1. thread'[Pass].at = "cold"
      BY <1>0, <2>1 DEF PassTakes, EngineTyped, ThreadRecords
    <3> QED BY <3>1 DEF ReadyIsResident
  <2>2. CASE PassRecordsCold
    BY <2>2 DEF PassRecordsCold, ReadyIsResident
  <2>3. CASE ~PassTakes /\ ~PassRecordsCold
    <3>1. UNCHANGED <<slot, warm, ui>>
      BY <1>2, <2>3 DEF PassStep, SendRequest, GiveUpWaiting, ReceiveResponse, WorkerGone, PassFails,
                        PassEnds, engineVars
    <3>2. thread[Pass].at # "cold"
      BY <1>2, <2>3 DEF PassStep, SendRequest, GiveUpWaiting, ReceiveResponse, WorkerGone, PassFails,
                        PassEnds, Running
    <3> QED BY <1>a, <3>1, <3>2
  <2> QED BY <2>1, <2>2, <2>3
<1>3. CASE UiTakes
  BY <1>3 DEF UiTakes, LabelsTyped, ReadyIsResident
<1>4. CASE UiRecordsCold
  BY <1>4 DEF UiRecordsCold, ReadyIsResident
<1>5. CASE \/ \E w \in Warmers : UiWarms(w) \/ InstallSucceeds(w)
           \/ \E retry \in BOOLEAN : PassBegins(retry)
  <2>1. UNCHANGED <<slot, warm>> /\ (ui.at = "cold" => ui'.at = "cold")
    BY <1>5 DEF UiWarms, InstallSucceeds, PassBegins, engineVars
  <2>2. thread[Pass].at = "cold" => thread'[Pass].at = "cold"
    BY <1>0, <1>5 DEF UiWarms, InstallSucceeds, PassBegins, StartWarmer, Running, EngineTyped
  <2> QED BY <1>a, <2>1, <2>2
<1>6. CASE CancelPass \/ GpuRetest \/ RestartEngine \/ InstallBegins \/ InstallFails
           \/ ModelRemove \/ \E provider \in Providers : SwitchProvider(provider)
  <2>1. UNCHANGED <<slot, warm, thread>> /\ (ui.at = "cold" => ui'.at = "cold")
    BY <1>6 DEF CancelPass, GpuRetest, RestartEngine, InstallBegins, InstallFails, ModelRemove,
                SwitchProvider, UiIdle, engineVars
  <2> QED BY <1>a, <2>1
<1>7. CASE \E p \in Workers : WorkerHandles(p) \/ WorkerCrashes(p)
  <2>1. UNCHANGED <<slot, warm, thread, ui>>
    BY <1>7 DEF WorkerHandles, WorkerCrashes, engineVars
  <2> QED BY <1>a, <2>1
<1> QED BY <1>1, <1>2, <1>3, <1>4, <1>5, <1>6, <1>7 DEF Next, ThreadsRun, UiStep, Commands

(* The resident process stays what it was when it was described. *)
LEMMA DescriptionKept ==
  ASSUME EngineTyped, PlacesHold, LoaderHoldsLock, LivingIsOwned, ResidentIsDescribed, Next
  PROVE  ResidentIsDescribed'
<1>0. NoWorker \notin Workers /\ Pass \in Threads /\ NoThread \notin Threads
  BY EngineAssumption DEF Threads
<1>a. ASSUME UNCHANGED <<machine, slot, device, integrity>>,
             slot # NoWorker => /\ proc'[slot].exe = proc[slot].exe
                                /\ proc'[slot].provider = proc[slot].provider
                                /\ proc'[slot].context = proc[slot].context
      PROVE  ResidentIsDescribed'
  BY <1>a DEF ResidentIsDescribed, HasCuda
<1>b. slot # NoWorker => slot \in Workers
  BY DEF EngineTyped
<1>1. CASE \E t \in Threads : ThreadStep(t)
  <2> PICK t \in Threads : ThreadStep(t)
    BY <1>1
  <2>1. CASE Gate(t) \/ Enter(t) \/ Settle(t)
    <3>1. UNCHANGED <<machine, slot, device, integrity, proc>>
      BY <2>1 DEF Gate, Enter, Settle, engineVars
    <3> QED BY <1>a, <3>1
  <2>2. CASE Hash(t)
    <3>1. slot = NoWorker /\ slot' = slot
      BY <1>0, <2>2 DEF Hash, Running, LoaderHoldsLock
    <3> QED BY <3>1 DEF ResidentIsDescribed
  <2>3. CASE Load(t)
    <3> DEFINE p == thread[t].proc
    <3>1. p \in Workers /\ slot' = p /\ machine' = machine
      BY <2>3 DEF Load, Running, PlacesHold
    <3>2. PICK context \in Contexts :
            /\ proc' = [proc EXCEPT ![p].loaded = TRUE, ![p].context = context]
            /\ RecordWorkerProvider(p, context)
      BY <2>3 DEF Load, EngineTyped, MachineFacts, Contexts
    <3>3. /\ proc'[p].exe = proc[p].exe /\ proc'[p].provider = proc[p].provider
          /\ proc'[p].context = context
      BY <3>1, <3>2 DEF EngineTyped, Processes
    <3> QED BY <3>1, <3>2, <3>3 DEF ResidentIsDescribed, HasCuda, RecordWorkerProvider
  <2>4. CASE LoadFails(t)
    <3>1. UNCHANGED <<machine, slot, device, integrity>>
      BY <2>4 DEF LoadFails
    <3>2. slot # NoWorker => proc'[slot] = proc[slot]
      BY <1>b, <2>4 DEF LoadFails, Dropped, Owned
    <3> QED BY <1>a, <3>1, <3>2
  <2> QED BY <2>1, <2>2, <2>3, <2>4 DEF ThreadStep
<1>2. CASE PassStep
  <2>1. CASE PassTakes
    BY <2>1 DEF PassTakes, ResidentIsDescribed
  <2>2. CASE PassFails \/ PassRecordsCold
    <3>1. UNCHANGED <<machine, slot, device, integrity, proc>>
      BY <2>2 DEF PassFails, PassRecordsCold
    <3> QED BY <1>a, <3>1
  <2>3. CASE PassEnds
    <3>1. UNCHANGED <<machine, slot, device, integrity>>
      BY <2>3 DEF PassEnds, engineVars
    <3>2. slot # NoWorker => proc'[slot] = proc[slot]
      BY <1>b, <2>3 DEF PassEnds, Dropped, Owned
    <3> QED BY <1>a, <3>1, <3>2
  <2>4. CASE SendRequest \/ GiveUpWaiting \/ ReceiveResponse \/ WorkerGone
    <3>1. UNCHANGED <<machine, slot, device, integrity>>
      BY <2>4 DEF SendRequest, GiveUpWaiting, ReceiveResponse, WorkerGone, engineVars
    <3>2. Held \in Workers
      BY <2>4, HeldIsAWorker DEF SendRequest, GiveUpWaiting, ReceiveResponse, WorkerGone
    <3>3. \/ UNCHANGED proc
          \/ \E e : proc' = [proc EXCEPT ![Held].inbox = e]
          \/ \E e : proc' = [proc EXCEPT ![Held].outbox = e]
          \/ proc' = Killed(Held, proc)
      BY <2>4 DEF SendRequest, GiveUpWaiting, ReceiveResponse, WorkerGone
    <3> DEFINE Same == \A p \in Workers : /\ proc'[p].exe = proc[p].exe
                                          /\ proc'[p].provider = proc[p].provider
                                          /\ proc'[p].context = proc[p].context
    <3>4. ASSUME NEW e, proc' = [proc EXCEPT ![Held].inbox = e] PROVE Same
      BY <3>2, <3>4 DEF EngineTyped, Processes
    <3>5. ASSUME NEW e, proc' = [proc EXCEPT ![Held].outbox = e] PROVE Same
      BY <3>2, <3>5 DEF EngineTyped, Processes
    <3>6. proc' = Killed(Held, proc) => Same
      BY <3>2 DEF EngineTyped, Processes, Killed
    <3>7. Same
      BY <3>3, <3>4, <3>5, <3>6
    <3> QED BY <1>a, <1>b, <3>1, <3>7
  <2> QED BY <1>2, <2>1, <2>2, <2>3, <2>4 DEF PassStep
<1>3. CASE UiTakes
  BY <1>3 DEF UiTakes, ResidentIsDescribed
<1>4. CASE UiRecordsCold \/ (\E w \in Warmers : UiWarms(w)) \/ Commands
  <2>1. UNCHANGED <<machine, slot, device, integrity, proc>>
    BY <1>4 DEF UiRecordsCold, UiWarms, InstallSucceeds, PassBegins, CancelPass, GpuRetest,
                RestartEngine, InstallBegins, InstallFails, ModelRemove, SwitchProvider, Commands,
                engineVars
  <2> QED BY <1>a, <2>1
<1>5. ASSUME NEW p \in Workers, WorkerHandles(p) \/ WorkerCrashes(p)
      PROVE  ResidentIsDescribed'
  <2>1. UNCHANGED <<machine, slot, device, integrity>>
    BY <1>5 DEF WorkerHandles, WorkerCrashes, engineVars
  <2>2. \A q \in Workers : /\ proc'[q].exe = proc[q].exe /\ proc'[q].provider = proc[q].provider
                           /\ proc'[q].context = proc[q].context
    <3>1. CASE WorkerHandles(p)
      BY <3>1, HandlingEffect
    <3>2. CASE WorkerCrashes(p)
      BY <3>2 DEF WorkerCrashes, EngineTyped, Processes
    <3> QED BY <1>5, <3>1, <3>2
  <2> QED BY <1>a, <1>b, <2>1, <2>2
<1> QED BY <1>1, <1>2, <1>3, <1>4, <1>5 DEF Next, ThreadsRun, UiStep

(* A verdict "verified" is of files that were not corrupt, and stays so. *)
LEMMA VerifierKept ==
  ASSUME EngineTyped, PlacesHold, LoaderHoldsLock, VerifierSaw, Next
  PROVE  VerifierSaw'
<1> USE ThreadTyped
<1>0. Pass \in Threads /\ IdleThread.verification = "not_attempted" /\ IdleThread.at = "idle"
  BY DEF Threads, IdleThread
<1> DEFINE Hopeful == {"verified", "already_loaded"}
           Move(t) == /\ \A s \in Threads : s # t => thread'[s] = thread[s]
                      /\ thread'[t].at = "loading" => thread'[t].verification = "verified"
                      /\ thread'[t].verification \in Hopeful =>
                           disk # "corrupt" \/ thread[t].verification \in Hopeful
<1>a. ASSUME NEW t \in Threads, Move(t), disk' = "corrupt" => disk = "corrupt",
             slot' # NoWorker => slot # NoWorker \/ disk # "corrupt"
      PROVE  VerifierSaw'
  BY <1>a DEF VerifierSaw
<1>b. ASSUME UNCHANGED thread, disk' = "corrupt" => disk = "corrupt", slot' \in {slot, NoWorker}
      PROVE  VerifierSaw'
  BY <1>b DEF VerifierSaw
<1>1. CASE \E t \in Threads : ThreadStep(t)
  <2> PICK t \in Threads : ThreadStep(t)
    BY <1>1
  <2>0. UNCHANGED disk
    BY DEF ThreadStep, Gate, Enter, Hash, Load, LoadFails, Settle, modelVars
  <2>1. \A s \in Threads : s # t => thread'[s] = thread[s]
    BY DEF ThreadStep, Gate, Enter, Hash, Load, LoadFails, Settle, EngineTyped
  <2>2. CASE Gate(t)
    <3>1. thread'[t].at # "loading" /\ thread'[t].verification = thread[t].verification
      BY <2>2 DEF Gate, EngineTyped, ThreadRecords
    <3>2. UNCHANGED slot
      BY <2>2 DEF Gate
    <3> QED BY <1>a, <2>0, <2>1, <3>1, <3>2
  <2>3. CASE Enter(t)
    <3>1. UNCHANGED slot
      BY <2>3 DEF Enter
    <3>2. CASE slot # NoWorker
      <4>1. thread'[t].at # "loading"
        <5>1. PICK q : thread' = [thread EXCEPT ![t] = [IdleThread EXCEPT
                 !.at = Returned(t, TRUE), !.verification = "already_loaded", !.proc = q]]
          BY <2>3, <3>2 DEF Enter
        <5> QED BY <5>1 DEF EngineTyped, IdleThread, Returned
      <4>2. disk # "corrupt"
        BY <3>2 DEF VerifierSaw
      <4> QED BY <1>a, <2>0, <2>1, <3>1, <4>1, <4>2
    <3>3. CASE slot = NoWorker
      <4>1. thread'[t].at = "hash" /\ thread'[t].verification = thread[t].verification
        BY <2>3, <3>3 DEF Enter, EngineTyped, ThreadRecords
      <4> QED BY <1>a, <2>0, <2>1, <3>1, <4>1
    <3> QED BY <3>2, <3>3
  <2>4. CASE Hash(t)
    <3>1. UNCHANGED slot
      BY <2>4 DEF Hash
    <3>2. CASE disk = "intact"
      <4>1. PICK p : thread' = [thread EXCEPT ![t] = [IdleThread EXCEPT !.at = "loading",
                            !.proc = p, !.verification = "verified"]]
        BY <2>4, <3>2 DEF Hash
      <4>2. thread'[t].verification = "verified"
        BY <4>1 DEF EngineTyped, IdleThread
      <4> QED BY <1>a, <2>0, <2>1, <3>1, <3>2, <4>2
    <3>3. CASE disk # "intact"
      <4>1. thread'[t].at # "loading" /\ thread'[t].verification = "failed"
        <5> DEFINE r == [IdleThread EXCEPT !.at = Returned(t, FALSE), !.verification = "failed",
                                           !.error = "adapter_failed"]
        <5>1. r.at # "loading" /\ r.verification = "failed"
          BY DEF IdleThread, Returned
        <5>2. thread' = [thread EXCEPT ![t] = r]
          BY <2>4, <3>3 DEF Hash
        <5> HIDE DEF r
        <5> QED BY <5>1, <5>2 DEF EngineTyped
      <4> QED BY <1>a, <2>0, <2>1, <3>1, <4>1
    <3> QED BY <3>2, <3>3
  <2>5. CASE Load(t)
    <3>1. thread'[t].at # "loading" /\ thread'[t].verification = thread[t].verification
      BY <2>5 DEF Load, EngineTyped, Returned, ThreadRecords
    <3>2. disk # "corrupt"
      BY <2>5 DEF Load, Running, VerifierSaw
    <3> QED BY <1>a, <2>0, <2>1, <3>1, <3>2
  <2>6. CASE LoadFails(t)
    <3>1. thread'[t].at # "loading" /\ thread'[t].verification = thread[t].verification
      BY <2>6 DEF LoadFails, EngineTyped, Returned, ThreadRecords
    <3>2. UNCHANGED slot
      BY <2>6 DEF LoadFails
    <3> QED BY <1>a, <2>0, <2>1, <3>1, <3>2
  <2>7. CASE Settle(t)
    <3>1. thread'[t] = IdleThread /\ UNCHANGED slot
      BY <2>7 DEF Settle, EngineTyped, engineVars
    <3> QED BY <1>0, <1>a, <2>0, <2>1, <3>1
  <2> QED BY <2>2, <2>3, <2>4, <2>5, <2>6, <2>7 DEF ThreadStep
<1>2. CASE PassStep
  <2>0. UNCHANGED disk /\ slot' \in {slot, NoWorker}
    BY <1>2 DEF PassStep, SendRequest, GiveUpWaiting, ReceiveResponse, WorkerGone, PassFails,
                PassTakes, PassRecordsCold, PassEnds, modelVars, engineVars
  <2>1. \/ UNCHANGED thread
        \/ thread' = [thread EXCEPT ![Pass] = IdleThread]
        \/ \E at \in {"failed", "ended", "take", "cold"} : thread' = [thread EXCEPT ![Pass].at = at]
        \/ \E code : FailPass(code)
    BY <1>2 DEF PassStep, SendRequest, GiveUpWaiting, ReceiveResponse, WorkerGone, PassFails,
                PassTakes, PassRecordsCold, PassEnds
  <2>2. CASE UNCHANGED thread
    BY <1>b, <2>0, <2>2
  <2>3. CASE thread' = [thread EXCEPT ![Pass] = IdleThread]
    <3>1. Move(Pass)
      BY <1>0, <2>3 DEF EngineTyped
    <3> QED BY <1>0, <1>a, <2>0, <3>1
  <2>4. CASE \E at \in {"failed", "ended", "take", "cold"} : thread' = [thread EXCEPT ![Pass].at = at]
    <3>1. Move(Pass)
      BY <1>0, <2>4 DEF EngineTyped, ThreadRecords
    <3> QED BY <1>0, <1>a, <2>0, <3>1
  <2>5. CASE \E code : FailPass(code)
    <3>1. Move(Pass)
      BY <1>0, <2>5 DEF EngineTyped, ThreadRecords, FailPass
    <3> QED BY <1>0, <1>a, <2>0, <3>1
  <2> QED BY <2>1, <2>2, <2>3, <2>4, <2>5
<1>3. CASE \/ \E w \in Warmers : UiWarms(w) \/ InstallSucceeds(w)
           \/ \E retry \in BOOLEAN : PassBegins(retry)
  <2>1. UNCHANGED slot /\ (disk' = "corrupt" => disk = "corrupt")
    BY <1>3 DEF UiWarms, InstallSucceeds, PassBegins, engineVars, modelVars
  <2>2. PICK t \in Threads : thread' = [thread EXCEPT ![t] = [IdleThread EXCEPT !.at = "read"]]
    BY <1>3 DEF UiWarms, InstallSucceeds, PassBegins, StartWarmer, Threads
  <2>3. Move(t)
    BY <2>2 DEF EngineTyped, IdleThread
  <2> QED BY <1>a, <2>1, <2>3
<1>4. CASE UiTakes \/ UiRecordsCold \/ CancelPass \/ GpuRetest \/ RestartEngine \/ InstallBegins
           \/ InstallFails \/ ModelRemove \/ \E provider \in Providers : SwitchProvider(provider)
  <2>1. /\ UNCHANGED thread /\ (disk' = "corrupt" => disk = "corrupt")
        /\ slot' \in {slot, NoWorker}
    BY <1>4 DEF UiTakes, UiRecordsCold, CancelPass, GpuRetest, RestartEngine, InstallBegins,
                InstallFails, ModelRemove, SwitchProvider, engineVars, modelVars
  <2> QED BY <1>b, <2>1
<1>5. CASE \E p \in Workers : WorkerHandles(p) \/ WorkerCrashes(p)
  <2>1. UNCHANGED <<thread, disk, slot>>
    BY <1>5 DEF WorkerHandles, WorkerCrashes, engineVars, modelVars
  <2> QED BY <1>b, <2>1
<1> QED BY <1>1, <1>2, <1>3, <1>4, <1>5 DEF Next, ThreadsRun, UiStep, Commands

LEMMA VerifiedKept ==
  ASSUME EngineTyped, VerifierSaw, VerifiedIsIntact, Next
  PROVE  VerifiedIsIntact'
<1>1. CASE \E t \in Threads : Settle(t)
  <2>1. PICK t \in Threads : Settle(t)
    BY <1>1
  <2>2. UNCHANGED disk /\ thread[t].verification \in Verifications
    BY <2>1, ThreadTyped DEF Settle
  <2>3. status' = "verified_on_disk" => thread[t].verification \in {"verified", "already_loaded"}
    BY <2>1, <2>2 DEF Settle, SettledState, Readiness, Verifications
  <2> QED BY <2>2, <2>3 DEF VerifierSaw, VerifiedIsIntact
<1>2. CASE (\E w \in Warmers : InstallSucceeds(w)) \/ ModelRemove
  BY <1>2 DEF InstallSucceeds, ModelRemove, VerifiedIsIntact
<1>3. CASE InstallBegins \/ InstallFails \/ \E w \in Warmers : UiWarms(w)
  BY <1>3 DEF InstallBegins, InstallFails, UiWarms, MarkVerifying, VerifiedIsIntact
<1>4. CASE UNCHANGED <<disk, status>>
  BY <1>4 DEF VerifiedIsIntact
<1>5. ASSUME NEW t \in Threads, ThreadStep(t), ~Settle(t)
      PROVE  UNCHANGED <<disk, status>>
  BY <1>5 DEF ThreadStep, Gate, Enter, Hash, Load, LoadFails, modelVars
<1>6. PassStep => UNCHANGED <<disk, status>>
  BY DEF PassStep, SendRequest, GiveUpWaiting, ReceiveResponse, WorkerGone, PassFails, PassTakes,
         PassRecordsCold, PassEnds, modelVars
<1>7. UiTakes \/ UiRecordsCold => UNCHANGED <<disk, status>>
  BY DEF UiTakes, UiRecordsCold, modelVars
<1>8. \/ CancelPass \/ GpuRetest \/ RestartEngine
      \/ (\E retry \in BOOLEAN : PassBegins(retry))
      \/ (\E provider \in Providers : SwitchProvider(provider))
      => UNCHANGED <<disk, status>>
  BY DEF CancelPass, GpuRetest, RestartEngine, PassBegins, SwitchProvider, modelVars
<1>9. (\E p \in Workers : WorkerHandles(p) \/ WorkerCrashes(p)) => UNCHANGED <<disk, status>>
  BY DEF WorkerHandles, WorkerCrashes, modelVars
<1> QED BY <1>1, <1>2, <1>3, <1>4, <1>5, <1>6, <1>7, <1>8, <1>9
        DEF Next, ThreadsRun, UiStep, Commands

----------------------------------------------------------------------------
(* The fourth layer is kept *)

PassFollowsProtocol ==
  /\ PipesAreTheRequest /\ StreamFollowsRequest /\ RequestIsOfPass
  /\ FailureHasCode /\ TranscriptIsWhole

(* No frame is under way while the pass is not at its stream. *)
LEMMA QuietBeforeStream ==
  ASSUME PipesAreTheRequest, ~(Running(Pass, "stream") /\ request.sent), NEW p \in Workers
  PROVE  proc[p].inbox = <<>> /\ proc[p].outbox = <<>>
BY DEF PipesAreTheRequest

(* Steps that do not concern the pass, or the worker it holds *)
LEMMA PassUntouched ==
  ASSUME PlacesHold, PassFollowsProtocol, UNCHANGED <<request, heard, passes>>,
         thread'[Pass].at = thread[Pass].at, thread'[Pass].proc = thread[Pass].proc,
         thread'[Pass].error = thread[Pass].error,
         \A p \in Workers :
           \/ /\ proc'[p].inbox = proc[p].inbox /\ proc'[p].outbox = proc[p].outbox
              /\ proc'[p].active = proc[p].active
           \/ /\ proc'[p].inbox = <<>> /\ proc'[p].outbox = <<>>
              /\ ~(Running(Pass, "stream") /\ p = Held)
  PROVE  PassFollowsProtocol'
<1>1. /\ Held' = Held /\ (Running(Pass, "stream"))' = Running(Pass, "stream")
  BY DEF Held, Running
<1>2. PipesAreTheRequest'
  BY <1>1 DEF PipesAreTheRequest, PassFollowsProtocol
<1>3. StreamFollowsRequest'
  <2>1. CASE Running(Pass, "stream")
    <3>1. /\ proc'[Held].outbox = proc[Held].outbox
          /\ proc'[Held].active = proc[Held].active
      BY <2>1, HeldIsAWorker
    <3> QED BY <1>1, <2>1, <3>1
            DEF StreamFollowsRequest, PassFollowsProtocol, Unanswered, Answered, StreamHolds,
                FirstChunks
  <2> QED BY <1>1, <2>1 DEF StreamFollowsRequest
<1>4. RequestIsOfPass' /\ FailureHasCode'
  BY DEF RequestIsOfPass, FirstRequest, FailureHasCode, PassFollowsProtocol
<1>5. TranscriptIsWhole'
  BY DEF TranscriptIsWhole, Running, PassFollowsProtocol
<1> QED BY <1>2, <1>3, <1>4, <1>5 DEF PassFollowsProtocol

(* Steps of the pass away from its stream *)
LEMMA PassAwayFromStream ==
  ASSUME PassFollowsProtocol, ~(Running(Pass, "stream") /\ request.sent),
         \A p \in Workers :
           \/ proc'[p].inbox = proc[p].inbox /\ proc'[p].outbox = proc[p].outbox
           \/ proc'[p].inbox = <<>> /\ proc'[p].outbox = <<>>,
         RequestIsOfPass',
         thread'[Pass].at = "stream" => request' = FirstRequest(passes'),
         thread'[Pass].at \in {"failed", "take", "cold"} => thread'[Pass].error # "none",
         thread'[Pass].at = "ended" => thread'[Pass].error # "none"
  PROVE  PassFollowsProtocol'
<1>1. \A p \in Workers : proc'[p].inbox = <<>> /\ proc'[p].outbox = <<>>
  BY QuietBeforeStream DEF PassFollowsProtocol
<1>2. PipesAreTheRequest'
  BY <1>1 DEF PipesAreTheRequest
<1>3. StreamFollowsRequest'
  <2>1. FirstRequest(passes').command = "load" /\ FirstRequest(passes').sequence = 0
    BY DEF FirstRequest
  <2>2. 0 < Chunks
    BY EngineAssumption, MaxChunksAssumption
  <2> QED BY <2>1, <2>2 DEF StreamFollowsRequest, Running
<1>4. FailureHasCode' /\ TranscriptIsWhole'
  BY DEF FailureHasCode, TranscriptIsWhole, Running
<1> QED BY <1>2, <1>3, <1>4 DEF PassFollowsProtocol

LEMMA ThreadStepFollowsProtocol ==
  ASSUME EngineTyped, PlacesHold, LoaderHoldsLock, LivingIsOwned, PassFollowsProtocol,
         NEW t \in Threads, ThreadStep(t)
  PROVE  PassFollowsProtocol'
<1> USE ThreadTyped
<1>0. Pass \in Threads /\ Pass \notin Warmers /\ NoWorker \notin Workers
  BY EngineAssumption DEF Threads
<1>1. UNCHANGED <<request, heard, passes>>
  BY DEF ThreadStep, Gate, Enter, Hash, Load, LoadFails, Settle, passVars, boundVars
<1>2. IdleProcess.inbox = <<>> /\ IdleProcess.outbox = <<>>
  BY DEF IdleProcess
<1>3. \A p \in Workers :
        \/ /\ proc'[p].inbox = proc[p].inbox /\ proc'[p].outbox = proc[p].outbox
           /\ proc'[p].active = proc[p].active
        \/ /\ proc'[p].inbox = <<>> /\ proc'[p].outbox = <<>>
           /\ t = Pass \/ ~(Running(Pass, "stream") /\ p = Held)
  <2>1. CASE Gate(t) \/ Enter(t) \/ Settle(t)
    BY <2>1 DEF Gate, Enter, Settle
  <2>2. CASE Hash(t)
    <3>1. FreeWorker \in Workers /\ proc[FreeWorker].life = "none"
      BY <2>2, FreeWorkerIsFree DEF Hash
    <3>2. ~(Running(Pass, "stream") /\ FreeWorker = Held)
      BY <1>0, <3>1 DEF LivingIsOwned, Owned, Held
    <3>3. CASE UNCHANGED proc
      BY <3>3
    <3>4. CASE disk = "intact"
      <4> DEFINE q == [IdleProcess EXCEPT !.life = "alive", !.exe = thread[t].exe,
                                          !.provider = thread[t].provider]
      <4>1. q.inbox = <<>> /\ q.outbox = <<>>
        BY DEF IdleProcess
      <4>2. proc' = [proc EXCEPT ![FreeWorker] = q]
        BY <2>2, <3>4 DEF Hash
      <4> HIDE DEF q
      <4>3. /\ proc'[FreeWorker] = q
            /\ \A p \in Workers : p # FreeWorker => proc'[p] = proc[p]
        BY <3>1, <4>2 DEF EngineTyped
      <4> QED BY <3>2, <4>1, <4>3
    <3> QED BY <2>2, <3>3, <3>4 DEF Hash
  <2>3. CASE Load(t)
    <3> DEFINE q == thread[t].proc
    <3>1. q \in Workers
      BY <2>3 DEF Load, Running, PlacesHold
    <3>2. PICK context \in Contexts : proc' = [proc EXCEPT ![q].loaded = TRUE, ![q].context = context]
      BY <2>3 DEF Load, EngineTyped, MachineFacts, Contexts
    <3>3. \A p \in Workers :
            /\ proc'[p].inbox = proc[p].inbox /\ proc'[p].outbox = proc[p].outbox
            /\ proc'[p].active = proc[p].active
      BY <3>1, <3>2 DEF EngineTyped, Processes
    <3> QED BY <3>3
  <2>4. CASE LoadFails(t)
    <3>1. t # Pass => thread'[Pass].proc = thread[Pass].proc
      BY <1>0, <2>4 DEF LoadFails, EngineTyped
    <3>2. \A p \in Workers : proc'[p] = IF Owned(p, slot, thread') THEN proc[p] ELSE IdleProcess
      BY <2>4 DEF LoadFails, Dropped
    <3>3. t # Pass => Owned(Held, slot, thread')
      BY <1>0, <3>1 DEF Owned, Held
    <3> QED BY <1>2, <3>2, <3>3
  <2> QED BY <2>1, <2>2, <2>3, <2>4 DEF ThreadStep
<1>4. CASE t # Pass
  <2>1. thread'[Pass] = thread[Pass]
    BY <1>0, <1>4 DEF ThreadStep, Gate, Enter, Hash, Load, LoadFails, Settle, EngineTyped
  <2> QED BY <1>1, <1>3, <1>4, <2>1, PassUntouched
<1>5. CASE t = Pass
  <2>1. thread[Pass].at \in {"read", "enter", "hash", "loading"}
    BY <1>0, <1>5 DEF ThreadStep, Gate, Enter, Hash, Load, LoadFails, Settle, Running
  <2>2. \/ thread'[Pass].at \in {"enter", "hash", "loading", "stream"}
        \/ thread'[Pass].at = "ended" /\ thread'[Pass].error # "none"
    <3>1. CASE Gate(t)
      <4>1. CASE GateRefusal = "none"
        BY <1>5, <3>1, <4>1 DEF Gate, EngineTyped, ThreadRecords
      <4>2. CASE GateRefusal # "none"
        BY <1>5, <3>1, <4>2 DEF Gate, EngineTyped, ThreadRecords
      <4> QED BY <4>1, <4>2
    <3>2. CASE Enter(t)
      <4>1. CASE slot # NoWorker
        <5>1. thread' = [thread EXCEPT ![Pass] = [IdleThread EXCEPT
                 !.at = "stream", !.verification = "already_loaded", !.proc = slot]]
          BY <1>5, <3>2, <4>1 DEF Enter, Returned
        <5> QED BY <1>0, <5>1 DEF EngineTyped, IdleThread
      <4>2. CASE slot = NoWorker
        BY <1>5, <3>2, <4>2 DEF Enter, EngineTyped, ThreadRecords
      <4> QED BY <4>1, <4>2
    <3>3. CASE Hash(t)
      <4>1. CASE disk = "intact"
        <5>1. PICK p : thread' = [thread EXCEPT ![Pass] = [IdleThread EXCEPT !.at = "loading",
                          !.proc = p, !.verification = "verified"]]
          BY <1>5, <3>3, <4>1 DEF Hash
        <5> QED BY <1>0, <5>1 DEF EngineTyped, IdleThread
      <4>2. CASE disk # "intact"
        BY <1>5, <3>3, <4>2 DEF Hash, EngineTyped, IdleThread, Returned
      <4> QED BY <4>1, <4>2
    <3>4. CASE Load(t)
      BY <1>5, <3>4 DEF Load, EngineTyped, ThreadRecords, Returned
    <3>5. CASE LoadFails(t)
      BY <1>5, <3>5 DEF LoadFails, EngineTyped, ThreadRecords, Returned
    <3> QED BY <1>0, <1>5, <3>1, <3>2, <3>3, <3>4, <3>5 DEF ThreadStep, Settle
  <2>3. RequestIsOfPass'
    BY <1>1, <2>1, <2>2 DEF RequestIsOfPass, PassFollowsProtocol, FirstRequest
  <2>4. request' = FirstRequest(passes')
    BY <1>1, <2>1 DEF RequestIsOfPass, PassFollowsProtocol, FirstRequest
  <2>5. ~Running(Pass, "stream")
    BY <2>1 DEF Running
  <2> QED BY <1>3, <2>2, <2>3, <2>4, <2>5, PassAwayFromStream
<1> QED BY <1>4, <1>5

LEMMA FirstChunksGrow ==
  ASSUME NEW n \in Nat, passes \in Nat
  PROVE  /\ FirstChunks(0) = <<>>
         /\ Len(FirstChunks(n)) = n
         /\ Append(FirstChunks(n), <<passes, n>>) = FirstChunks(n + 1)
<1>1. FirstChunks(n) \in Seq(Nat \X Nat) /\ Len(FirstChunks(n)) = n
  BY DEF FirstChunks
<1>2. FirstChunks(0) = <<>>
  BY DEF FirstChunks
<1> DEFINE longer == Append(FirstChunks(n), <<passes, n>>)
<1>3. longer \in Seq(Nat \X Nat) /\ Len(longer) = n + 1 /\ DOMAIN longer = 1 .. n + 1
  BY <1>1
<1>4. FirstChunks(n + 1) = [i \in 1 .. n + 1 |-> <<passes, i - 1>>]
  BY DEF FirstChunks
<1>5. \A i \in 1 .. n + 1 : longer[i] = <<passes, i - 1>>
  <2> TAKE i \in 1 .. n + 1
  <2>1. CASE i = n + 1
    BY <1>1, <2>1
  <2>2. CASE i \in 1 .. n
    <3>1. longer[i] = FirstChunks(n)[i]
      BY <1>1, <2>2
    <3> QED BY <2>2, <3>1 DEF FirstChunks
  <2>3. i = n + 1 \/ i \in 1 .. n
    OBVIOUS
  <2> QED BY <2>1, <2>2, <2>3
<1>6. longer = [i \in 1 .. n + 1 |-> longer[i]]
  BY <1>3
<1>7. longer = FirstChunks(n + 1)
  BY <1>4, <1>5, <1>6
<1> QED BY <1>1, <1>2, <1>7

(* A pipe with one frame *)
LEMMA OneFrame ==
  /\ \A e : Append(<<>>, e) = <<e>>
  /\ \A s \in Seq(Responses) : Len(s) = 1 => Head(s) = s[1] /\ Tail(s) = <<>>
  /\ \A r : Head(<<r>>) = r /\ Tail(<<r>>) = <<>>
<1>1. ASSUME NEW s \in Seq(Responses), Len(s) = 1
      PROVE  Head(s) = s[1] /\ Tail(s) = <<>>
  <2>1. Tail(s) \in Seq(Responses) /\ Len(Tail(s)) = 0
    BY <1>1
  <2>2. Head(s) = s[1]
    BY <1>1
  <2>3. Tail(s) = <<>>
    BY <2>1, EmptySeq
  <2> QED BY <2>2, <2>3
<1> QED BY <1>1

(* The effect of a failing step of the stream: the pipes are empty after it. *)
LEMMA FailFollowsProtocol ==
  ASSUME EngineTyped, PassFollowsProtocol, Running(Pass, "stream"), PlacesHold,
         UNCHANGED <<request, passes>>,
         thread'[Pass].at = "failed", thread'[Pass].error # "none",
         \A p \in Workers : \/ /\ proc'[p].inbox = proc[p].inbox /\ proc'[p].outbox = proc[p].outbox
                               /\ p # Held \/ ~request.sent
                            \/ proc'[p].inbox = <<>> /\ proc'[p].outbox = <<>>
  PROVE  PassFollowsProtocol'
<1>1. \A p \in Workers : proc'[p].inbox = <<>> /\ proc'[p].outbox = <<>>
  BY DEF PassFollowsProtocol, PipesAreTheRequest
<1>2. PipesAreTheRequest'
  BY <1>1 DEF PipesAreTheRequest
<1>3. StreamFollowsRequest' /\ TranscriptIsWhole' /\ FailureHasCode'
  BY DEF StreamFollowsRequest, TranscriptIsWhole, FailureHasCode, Running
<1>4. RequestIsOfPass'
  BY DEF RequestIsOfPass, PassFollowsProtocol, Running
<1> QED BY <1>2, <1>3, <1>4 DEF PassFollowsProtocol

LEMMA SendFollowsProtocol ==
  ASSUME EngineTyped, PlacesHold, PassFollowsProtocol, SendRequest
  PROVE  PassFollowsProtocol'
<1>0. Pass \in Threads /\ Held \in Workers /\ Running(Pass, "stream") /\ ~request.sent
  BY HeldIsAWorker DEF SendRequest
<1>1. UNCHANGED <<heard, passes>>
  BY DEF SendRequest, boundVars
<1>2. CASE \E code \in {"cancelled", "deadline_exceeded", "adapter_failed"} :
             FailPass(code) /\ UNCHANGED <<proc, request>>
  <2>1. thread'[Pass].at = "failed" /\ thread'[Pass].error # "none"
    BY <1>0, <1>2 DEF FailPass, EngineTyped, ThreadRecords
  <2> QED BY <1>0, <1>1, <1>2, <2>1, FailFollowsProtocol
<1>3. CASE /\ request' = [request EXCEPT !.sent = TRUE] /\ UNCHANGED thread
           /\ proc' = [proc EXCEPT ![Held].inbox = Append(@, request')]
  <2>1. /\ request'.command = request.command /\ request'.session = request.session
        /\ request'.sequence = request.sequence /\ request'.sent = TRUE
    BY <1>3 DEF EngineTyped, Requests
  <2>2. \A p \in Workers : proc[p].inbox = <<>> /\ proc[p].outbox = <<>>
    BY <1>0, QuietBeforeStream DEF PassFollowsProtocol
  <2>3. /\ \A p \in Workers : p # Held => proc'[p] = proc[p]
        /\ proc'[Held].inbox = Append(proc[Held].inbox, request')
        /\ proc'[Held].outbox = proc[Held].outbox /\ proc'[Held].active = proc[Held].active
    BY <1>0, <1>3 DEF EngineTyped, Processes
  <2>4. proc'[Held].inbox = <<request'>>
    <3>1. proc[Held].inbox = <<>>
      BY <1>0, <2>2
    <3> QED BY <2>3, <3>1, OneFrame
  <2>5. Held' = Held /\ Running(Pass, "stream")'
    BY <1>0, <1>3 DEF Held, Running
  <2>6. PipesAreTheRequest'
    BY <2>1, <2>2, <2>3, <2>4, <2>5 DEF PipesAreTheRequest
  <2>7. StreamFollowsRequest'
    BY <1>0, <1>1, <2>1, <2>2, <2>3, <2>5
       DEF StreamFollowsRequest, PassFollowsProtocol, Unanswered, Answered, StreamHolds, FirstChunks
  <2>8. RequestIsOfPass' /\ FailureHasCode' /\ TranscriptIsWhole'
    BY <1>0, <1>1, <1>3, <2>1
       DEF RequestIsOfPass, FailureHasCode, TranscriptIsWhole, PassFollowsProtocol, Running
  <2> QED BY <2>6, <2>7, <2>8 DEF PassFollowsProtocol
<1> QED BY <1>2, <1>3 DEF SendRequest

LEMMA GivingUpFollowsProtocol ==
  ASSUME EngineTyped, PlacesHold, PassFollowsProtocol, GiveUpWaiting \/ WorkerGone
  PROVE  PassFollowsProtocol'
<1>0. Pass \in Threads /\ Held \in Workers /\ Running(Pass, "stream")
  BY HeldIsAWorker DEF GiveUpWaiting, WorkerGone
<1>1. UNCHANGED <<request, passes>>
  BY DEF GiveUpWaiting, WorkerGone, passVars, boundVars
<1>2. thread'[Pass].at = "failed" /\ thread'[Pass].error # "none"
  BY <1>0 DEF GiveUpWaiting, WorkerGone, FailPass, EngineTyped, ThreadRecords
<1>3. proc' = Killed(Held, proc)
  BY DEF GiveUpWaiting, WorkerGone
<1>4. /\ \A p \in Workers : p # Held => proc'[p] = proc[p]
      /\ proc'[Held].inbox = <<>> /\ proc'[Held].outbox = <<>>
  BY <1>0, <1>3 DEF Killed, EngineTyped, Processes
<1> QED BY <1>0, <1>1, <1>2, <1>4, FailFollowsProtocol

LEMMA ReceiveFollowsProtocol ==
  ASSUME EngineTyped, PlacesHold, PassFollowsProtocol, ReceiveResponse
  PROVE  PassFollowsProtocol'
<1>0. Pass \in Threads /\ Held \in Workers /\ Running(Pass, "stream") /\ request.sent
  BY HeldIsAWorker DEF ReceiveResponse
<1>1. UNCHANGED passes
  BY DEF ReceiveResponse, boundVars
<1> DEFINE response == Head(proc[Held].outbox)
           rest == [proc EXCEPT ![Held].outbox = Tail(@)]
<1>2. proc[Held].outbox \in Seq(Responses) /\ proc[Held].outbox # <<>>
  BY <1>0, ProcessTyped DEF ReceiveResponse
<1>3. /\ Len(proc[Held].outbox) = 1 /\ proc[Held].outbox[1].request = request
      /\ proc[Held].inbox = <<>>
      /\ \A p \in Workers : p # Held => proc[p].inbox = <<>> /\ proc[p].outbox = <<>>
  BY <1>0, <1>2 DEF PassFollowsProtocol, PipesAreTheRequest
<1>4. response = proc[Held].outbox[1] /\ Tail(proc[Held].outbox) = <<>>
  BY <1>2, <1>3, OneFrame
<1>5. ASSUME proc' = rest
      PROVE  /\ \A p \in Workers : proc'[p].inbox = <<>> /\ proc'[p].outbox = <<>>
             /\ proc'[Held].active = proc[Held].active
  BY <1>0, <1>3, <1>4, <1>5 DEF EngineTyped, Processes
<1>6. response.request = request
  BY <1>3, <1>4
<1>7. CASE proc' = rest /\ UNCHANGED request /\ FailPass("adapter_failed")
  <2>1. thread'[Pass].at = "failed" /\ thread'[Pass].error # "none"
    BY <1>0, <1>7 DEF FailPass, EngineTyped, ThreadRecords
  <2> QED BY <1>0, <1>1, <1>5, <1>7, <2>1, FailFollowsProtocol
<1>8. CASE /\ response.event = Terminal[request.command] /\ request.command # "finish"
           /\ proc' = rest /\ request' = NextRequest(request) /\ UNCHANGED <<thread, heard>>
  <2>0. /\ Held' = Held /\ Running(Pass, "stream")'
    BY <1>0, <1>8 DEF Held, Running
  <2>1. PipesAreTheRequest'
    BY <1>5, <1>8 DEF PipesAreTheRequest
  <2>2. Unanswered'
    BY <1>0, <1>5, <1>8, <2>0 DEF Unanswered
  <2>3. Answered(response.event)
    BY <1>2, <1>4 DEF Answered
  <2>4. /\ request.sequence \in Nat /\ request.sequence < Chunks /\ Chunks \in Nat
        /\ request.command \in {"load", "start"} => request.sequence = 0
    BY <1>0, EngineAssumption, MaxChunksAssumption
       DEF PassFollowsProtocol, StreamFollowsRequest, EngineTyped, Requests
  <2>5. \A n : StreamHolds(n)' <=> StreamHolds(n)
    BY <1>1, <1>5, <1>8, <2>0 DEF StreamHolds, FirstChunks
  <2>6. StreamFollowsRequest'
    <3>1. CASE request.command = "load"
      <4>1. request' = [request EXCEPT !.command = "start", !.sent = FALSE]
        BY <1>8, <3>1 DEF NextRequest
      <4>2. request'.command = "start" /\ request'.sequence = 0
        BY <2>4, <3>1, <4>1 DEF EngineTyped, Requests
      <4> QED BY <2>2, <2>4, <4>2 DEF StreamFollowsRequest, Answered, Unanswered
    <3>2. CASE request.command = "start"
      <4>1. request' = [request EXCEPT !.command = "push", !.sent = FALSE]
        BY <1>8, <3>2 DEF NextRequest
      <4>2. request'.command = "push" /\ request'.sequence = 0
        BY <2>4, <3>2, <4>1 DEF EngineTyped, Requests
      <4>3. StreamHolds(0)
        BY <1>0, <1>8, <2>3, <3>2 DEF StreamFollowsRequest, PassFollowsProtocol, Terminal
      <4> QED BY <2>2, <2>4, <2>5, <4>2, <4>3 DEF StreamFollowsRequest, Answered, Unanswered
    <3>3. CASE request.command = "push"
      <4>0. StreamHolds(request.sequence + 1)
        BY <1>0, <1>8, <2>3, <3>3 DEF StreamFollowsRequest, PassFollowsProtocol, Terminal
      <4>1. CASE request.sequence + 1 < Chunks
        <5>1. request' = [request EXCEPT !.sequence = request.sequence + 1, !.sent = FALSE]
          BY <1>8, <3>3, <4>1 DEF NextRequest, EngineTyped, Requests
        <5>2. request'.command = "push" /\ request'.sequence = request.sequence + 1
          BY <3>3, <5>1 DEF EngineTyped, Requests
        <5> QED BY <2>2, <2>5, <4>0, <4>1, <5>2 DEF StreamFollowsRequest, Answered, Unanswered
      <4>2. CASE ~(request.sequence + 1 < Chunks)
        <5>1. request' = [request EXCEPT !.command = "finish", !.sent = FALSE]
          BY <1>8, <3>3, <4>2 DEF NextRequest
        <5>2. request'.command = "finish" /\ request'.sequence = request.sequence
          BY <5>1 DEF EngineTyped, Requests
        <5>3. request.sequence + 1 = Chunks
          BY <2>4, <4>2
        <5> QED BY <2>2, <2>4, <2>5, <4>0, <5>2, <5>3 DEF StreamFollowsRequest, Answered, Unanswered
      <4> QED BY <4>1, <4>2
    <3> QED BY <1>8, <3>1, <3>2, <3>3 DEF EngineTyped, Requests
  <2>7. request'.session = request.session
    BY <1>8 DEF NextRequest, EngineTyped, Requests
  <2>8. RequestIsOfPass' /\ FailureHasCode' /\ TranscriptIsWhole'
    BY <1>0, <1>1, <1>8, <2>7
       DEF RequestIsOfPass, FailureHasCode, TranscriptIsWhole, PassFollowsProtocol, Running
  <2> QED BY <2>1, <2>6, <2>8 DEF PassFollowsProtocol
<1>9. CASE /\ response.event = Terminal[request.command] /\ request.command = "finish"
           /\ proc' = rest /\ heard' = response.heard /\ UNCHANGED request
           /\ \/ thread' = [thread EXCEPT ![Pass].at = "ended"]
              \/ FailPass("no_speech_detected")
  <2>1. CASE FailPass("no_speech_detected")
    <3>1. thread'[Pass].at = "failed" /\ thread'[Pass].error # "none"
      BY <1>0, <2>1 DEF FailPass, EngineTyped, ThreadRecords
    <3> QED BY <1>0, <1>1, <1>5, <1>9, <3>1, FailFollowsProtocol
  <2>2. CASE thread' = [thread EXCEPT ![Pass].at = "ended"]
    <3>1. thread'[Pass].at = "ended"
      BY <1>0, <2>2 DEF EngineTyped, ThreadRecords
    <3>2. heard' = FirstChunks(Chunks)
      <4>1. Answered("stream_finished")
        BY <1>2, <1>4, <1>9 DEF Answered, Terminal
      <4> QED BY <1>0, <1>4, <1>9, <4>1 DEF StreamFollowsRequest, PassFollowsProtocol
    <3>3. PipesAreTheRequest'
      BY <1>5, <1>9 DEF PipesAreTheRequest
    <3>4. StreamFollowsRequest' /\ FailureHasCode'
      BY <3>1 DEF StreamFollowsRequest, FailureHasCode, Running
    <3>5. TranscriptIsWhole'
      BY <1>1, <3>2 DEF TranscriptIsWhole, FirstChunks
    <3>6. RequestIsOfPass'
      BY <1>0, <1>1, <1>9, <3>1 DEF RequestIsOfPass, PassFollowsProtocol, Running
    <3> QED BY <3>3, <3>4, <3>5, <3>6 DEF PassFollowsProtocol
  <2> QED BY <1>9, <2>1, <2>2
<1> QED BY <1>6, <1>7, <1>8, <1>9 DEF ReceiveResponse

LEMMA PassStepFollowsProtocol ==
  ASSUME EngineTyped, PlacesHold, LivingIsOwned, PassFollowsProtocol, PassStep
  PROVE  PassFollowsProtocol'
<1>0. Pass \in Threads
  BY DEF Threads
<1>1. CASE SendRequest
  BY <1>1, SendFollowsProtocol
<1>2. CASE GiveUpWaiting \/ WorkerGone
  BY <1>2, GivingUpFollowsProtocol
<1>3. CASE ReceiveResponse
  BY <1>3, ReceiveFollowsProtocol
<1>4. CASE PassFails \/ PassTakes \/ PassRecordsCold
  <2>1. \E at \in {"take", "cold", "ended"} : thread' = [thread EXCEPT ![Pass].at = at]
    BY <1>4 DEF PassFails, PassTakes, PassRecordsCold
  <2>2. /\ thread'[Pass].at \in {"take", "cold", "ended"}
        /\ thread'[Pass].error = thread[Pass].error
    BY <1>0, <2>1 DEF EngineTyped, ThreadRecords
  <2>3. thread[Pass].at \in {"failed", "take", "cold"} /\ UNCHANGED <<request, passes>>
    BY <1>4 DEF PassFails, PassTakes, PassRecordsCold, Running, passVars, boundVars
  <2>4. thread[Pass].error # "none" /\ ~Running(Pass, "stream")
    BY <2>3 DEF PassFollowsProtocol, FailureHasCode, Running
  <2>5. RequestIsOfPass'
    BY <2>2, <2>3 DEF PassFollowsProtocol, RequestIsOfPass
  <2>6. \A p \in Workers :
           \/ proc'[p].inbox = proc[p].inbox /\ proc'[p].outbox = proc[p].outbox
           \/ proc'[p].inbox = <<>> /\ proc'[p].outbox = <<>>
    BY <1>4 DEF PassFails, PassTakes, PassRecordsCold, Dropped, IdleProcess
  <2> QED BY <2>2, <2>4, <2>5, <2>6, PassAwayFromStream
<1>5. CASE PassEnds
  <2>1. thread'[Pass].at = "idle" /\ ~Running(Pass, "stream")
    BY <1>0, <1>5 DEF PassEnds, EngineTyped, IdleThread, Running
  <2>2. RequestIsOfPass'
    BY <2>1 DEF RequestIsOfPass
  <2>3. \A p \in Workers :
           \/ proc'[p].inbox = proc[p].inbox /\ proc'[p].outbox = proc[p].outbox
           \/ proc'[p].inbox = <<>> /\ proc'[p].outbox = <<>>
    BY <1>5 DEF PassEnds, Dropped, IdleProcess
  <2> QED BY <2>1, <2>2, <2>3, PassAwayFromStream
<1> QED BY <1>1, <1>2, <1>3, <1>4, <1>5 DEF PassStep

(* The worker answers the request of the pass, and hears it as it came. *)
LEMMA WorkerFollowsProtocol ==
  ASSUME EngineTyped, PlacesHold, PassFollowsProtocol, NEW p \in Workers, WorkerHandles(p)
  PROVE  PassFollowsProtocol'
<1>1. /\ proc[p].inbox # <<>> /\ Held = p /\ Running(Pass, "stream") /\ request.sent
      /\ proc[p].inbox = <<request>> /\ proc[p].outbox = <<>>
      /\ \A q \in Workers : q # p => proc[q].inbox = <<>> /\ proc[q].outbox = <<>>
  <2>1. proc[p].inbox # <<>>
    BY DEF WorkerHandles
  <2> QED BY <2>1 DEF PassFollowsProtocol, PipesAreTheRequest
<1>2. UNCHANGED <<thread, request, passes, heard>>
  BY DEF WorkerHandles, passVars, boundVars
<1> DEFINE reply(infers) == Handle(Worker(p), request, disk # "absent", TRUE, infers)
           answer(infers) == [request |-> request, event |-> reply(infers).event,
                              heard |-> reply(infers).heard]
<1>3. PICK infers \in BOOLEAN :
        /\ proc'[p].active = reply(infers).worker.active
        /\ proc'[p].outbox = Append(proc[p].outbox, answer(infers))
        /\ proc'[p].inbox = Tail(proc[p].inbox)
        /\ \A q \in Workers : q # p => proc'[q] = proc[q]
  <2>1. Head(proc[p].inbox) = request
    BY <1>1, OneFrame
  <2> QED BY <2>1, HandlingEffect
<1> DEFINE r == reply(infers)
<1>4. /\ proc'[p].outbox = <<answer(infers)>> /\ proc'[p].inbox = <<>>
  BY <1>1, <1>3, OneFrame
<1> HIDE DEF reply
<1>5. PipesAreTheRequest'
  <2>1. proc'[p].outbox # <<>> /\ Len(proc'[p].outbox) = 1 /\ proc'[p].outbox[1].request = request
    BY <1>4
  <2>2. Running(Pass, "stream")' /\ Held' = p /\ request' = request /\ request'.sent
    BY <1>1, <1>2 DEF Running, Held
  <2>3. \A q \in Workers : q # p => proc'[q].inbox = <<>> /\ proc'[q].outbox = <<>>
    BY <1>1, <1>3
  <2> QED BY <1>4, <2>1, <2>2, <2>3 DEF PipesAreTheRequest
<1>6. /\ proc'[p].outbox # <<>> /\ proc'[p].outbox[1].event = r.event
      /\ proc'[p].outbox[1].heard = r.heard
  BY <1>4
<1>7. ASSUME request.command = "start" /\ r.event = "stream_started" =>
               proc'[p].active = [session |-> passes, heard |-> FirstChunks(0)],
             request.command = "push" /\ r.event = "audio_accepted" =>
               proc'[p].active = [session |-> passes, heard |-> FirstChunks(request.sequence + 1)],
             request.command = "finish" /\ r.event = "stream_finished" =>
               r.heard = FirstChunks(Chunks)
      PROVE  StreamFollowsRequest'
  <2>1. /\ Held' = p /\ proc'[Held'].outbox # <<>> /\ proc'[Held'].outbox[1].event = r.event
        /\ proc'[Held'].outbox[1].heard = r.heard
    BY <1>1, <1>2, <1>6 DEF Held
  <2>2. request.sequence < Chunks /\ (request.command \in {"load", "start"} => request.sequence = 0)
    BY <1>1 DEF PassFollowsProtocol, StreamFollowsRequest
  <2>3. request' = request /\ passes' = passes
    BY <1>2
  <2> HIDE DEF r
  <2> QED BY <1>7, <2>1, <2>2, <2>3
          DEF StreamFollowsRequest, Unanswered, Answered, StreamHolds, FirstChunks
<1>8. /\ request.sequence \in Nat /\ request.sequence < Chunks /\ passes \in Nat /\ Chunks \in Nat
      /\ request.command \in {"load", "start"} => request.sequence = 0
      /\ request.session = passes /\ Unanswered
  BY <1>1, EngineAssumption, MaxChunksAssumption
     DEF PassFollowsProtocol, StreamFollowsRequest, RequestIsOfPass, EngineTyped, Requests, Running,
         Unanswered
<1>9. Worker(p) \in WorkerStates /\ Worker(p).active = proc[p].active
  BY ProcessTyped DEF Worker
<1>10. ASSUME request.command = "start", r.event = "stream_started"
       PROVE  proc'[p].active = [session |-> passes, heard |-> FirstChunks(0)]
  <2>1. r = StartStream(Worker(p), request.session)
    BY <1>10 DEF reply, Handle
  <2>2. r.worker = [Worker(p) EXCEPT !.active = [session |-> request.session, heard |-> <<>>]]
    BY <1>10, <2>1 DEF StartStream, Reply, ErrorReply
  <2>3. r.worker.active = [session |-> request.session, heard |-> <<>>]
    BY <1>9, <2>2 DEF WorkerStates
  <2> QED BY <1>3, <1>8, <2>3, FirstChunksGrow
<1>11. ASSUME request.command = "push", r.event = "audio_accepted"
       PROVE  proc'[p].active = [session |-> passes, heard |-> FirstChunks(request.sequence + 1)]
  <2>1. r = PushAudio(Worker(p), request.session, request.sequence)
    BY <1>11 DEF reply, Handle
  <2>2. Worker(p).active = [session |-> passes, heard |-> FirstChunks(request.sequence)]
    BY <1>1, <1>8, <1>9, <1>11 DEF PassFollowsProtocol, StreamFollowsRequest, StreamHolds
  <2>3. r.worker = [Worker(p) EXCEPT !.active.heard = Append(@, <<request.session, request.sequence>>)]
    BY <1>11, <2>1 DEF PushAudio, Reply, ErrorReply
  <2>4. r.worker.active = [Worker(p).active EXCEPT
                             !.heard = Append(@, <<request.session, request.sequence>>)]
    BY <1>9, <2>3 DEF WorkerStates
  <2>5. r.worker.active = [session |-> passes,
                           heard |-> Append(FirstChunks(request.sequence), <<passes, request.sequence>>)]
    <3> DEFINE chunks == FirstChunks(request.sequence)
               more == Append(chunks, <<passes, request.sequence>>)
    <3>1. Append(Worker(p).active.heard, <<request.session, request.sequence>>) = more
      BY <1>8, <2>2
    <3>2. r.worker.active = [Worker(p).active EXCEPT !.heard = more]
      BY <2>4, <3>1
    <3> HIDE DEF more, chunks
    <3>3. r.worker.active = [[session |-> passes, heard |-> chunks] EXCEPT !.heard = more]
      BY <2>2, <3>2 DEF chunks
    <3>4. r.worker.active = [session |-> passes, heard |-> more]
      BY <3>3
    <3> QED BY <3>4 DEF more, chunks
  <2> QED BY <1>3, <1>8, <2>5, FirstChunksGrow
<1>12. ASSUME request.command = "finish", r.event = "stream_finished"
       PROVE  r.heard = FirstChunks(Chunks)
  <2>1. r = FinishStream(Worker(p), request.session, infers)
    BY <1>12 DEF reply, Handle
  <2>2. Worker(p).active = [session |-> passes, heard |-> FirstChunks(Chunks)]
    BY <1>1, <1>8, <1>9, <1>12 DEF PassFollowsProtocol, StreamFollowsRequest, StreamHolds
  <2>3. r.heard = Worker(p).active.heard
    BY <1>12, <2>1 DEF FinishStream, Reply, ErrorReply
  <2> QED BY <2>2, <2>3
<1>14. StreamFollowsRequest'
  BY <1>7, <1>10, <1>11, <1>12
<1>15. RequestIsOfPass' /\ FailureHasCode' /\ TranscriptIsWhole'
  BY <1>2 DEF RequestIsOfPass, FailureHasCode, TranscriptIsWhole, PassFollowsProtocol, Running,
              FirstRequest
<1> QED BY <1>5, <1>14, <1>15 DEF PassFollowsProtocol

LEMMA CrashFollowsProtocol ==
  ASSUME EngineTyped, PlacesHold, PassFollowsProtocol, NEW p \in Workers, WorkerCrashes(p)
  PROVE  PassFollowsProtocol'
<1>1. UNCHANGED <<thread, request, passes, heard>>
  BY DEF WorkerCrashes, passVars
<1>2. /\ \A q \in Workers : q # p => proc'[q] = proc[q]
      /\ proc'[p].inbox = <<>> /\ proc'[p].outbox = proc[p].outbox
      /\ proc'[p].active = proc[p].active
  BY DEF WorkerCrashes, EngineTyped, Processes
<1>3. PipesAreTheRequest'
  BY <1>1, <1>2 DEF PipesAreTheRequest, PassFollowsProtocol, Running, Held
<1>4. StreamFollowsRequest'
  <2>1. CASE Running(Pass, "stream")
    <3>1. /\ Held' = Held /\ proc'[Held].outbox = proc[Held].outbox
          /\ proc'[Held].active = proc[Held].active
      BY <1>1, <1>2, <2>1, HeldIsAWorker DEF Held
    <3> QED BY <1>1, <2>1, <3>1 DEF PassFollowsProtocol, StreamFollowsRequest, Running, Unanswered,
                                     Answered, StreamHolds, FirstChunks
  <2> QED BY <1>1, <2>1 DEF StreamFollowsRequest, Running
<1>5. RequestIsOfPass' /\ FailureHasCode' /\ TranscriptIsWhole'
  BY <1>1 DEF RequestIsOfPass, FailureHasCode, TranscriptIsWhole, PassFollowsProtocol, Running,
              FirstRequest
<1> QED BY <1>3, <1>4, <1>5 DEF PassFollowsProtocol

LEMMA OthersFollowProtocol ==
  ASSUME EngineTyped, PlacesHold, LivingIsOwned, PassFollowsProtocol, UiStep \/ Commands
  PROVE  PassFollowsProtocol'
<1>0. Pass \in Threads /\ Pass \notin Warmers /\ NoWorker \notin Workers
  BY EngineAssumption DEF Threads
<1>1. CASE UiTakes
  <2>1. UNCHANGED <<thread, request, heard, passes>>
    BY <1>1 DEF UiTakes, passVars, boundVars
  <2>2. \A p \in Workers : proc'[p] = IF Owned(p, NoWorker, thread) THEN proc[p] ELSE IdleProcess
    BY <1>1 DEF UiTakes, Dropped
  <2>3. Owned(Held, NoWorker, thread)
    BY <1>0 DEF Owned, Held
  <2>4. IdleProcess.inbox = <<>> /\ IdleProcess.outbox = <<>>
    BY DEF IdleProcess
  <2> QED BY <2>1, <2>2, <2>3, <2>4, PassUntouched
<1>2. CASE \E retry \in BOOLEAN : PassBegins(retry)
  <2>1. /\ request' = FirstRequest(passes') /\ UNCHANGED proc /\ ~Running(Pass, "stream")
    BY <1>2 DEF PassBegins, Running
  <2>2. thread'[Pass].at = "read"
    BY <1>0, <1>2 DEF PassBegins, EngineTyped, IdleThread
  <2>3. RequestIsOfPass'
    BY <2>1, <2>2 DEF RequestIsOfPass, FirstRequest
  <2> QED BY <2>1, <2>2, <2>3, PassAwayFromStream
<1>3. CASE \E w \in Warmers : UiWarms(w) \/ InstallSucceeds(w)
  <2>1. UNCHANGED <<proc, request, heard, passes>>
    BY <1>3 DEF UiWarms, InstallSucceeds, passVars, boundVars
  <2>2. thread'[Pass] = thread[Pass]
    BY <1>0, <1>3 DEF UiWarms, InstallSucceeds, StartWarmer, EngineTyped
  <2> QED BY <2>1, <2>2, PassUntouched
<1>4. CASE UiRecordsCold \/ CancelPass \/ GpuRetest \/ RestartEngine \/ InstallBegins \/ InstallFails
           \/ ModelRemove \/ \E provider \in Providers : SwitchProvider(provider)
  <2>1. UNCHANGED <<thread, proc, request, heard, passes>>
    BY <1>4 DEF UiRecordsCold, CancelPass, GpuRetest, RestartEngine, InstallBegins, InstallFails,
                ModelRemove, SwitchProvider, passVars, boundVars
  <2> QED BY <2>1, PassUntouched
<1> QED BY <1>1, <1>2, <1>3, <1>4 DEF UiStep, Commands

----------------------------------------------------------------------------
(* The theorems *)

LEMMA EngineStarts == Init => EngineInv
<1> SUFFICES ASSUME Init
             PROVE  EngineInv
  OBVIOUS
<1> DEFINE first == CHOOSE w \in Warmers : TRUE
<1>0. first \in Warmers /\ Pass \in Threads /\ Pass \notin Warmers /\ NoWorker \notin Workers
  BY EngineAssumption DEF Threads
<1>1. first \in Threads /\ first # Pass
  BY <1>0 DEF Threads
<1> DEFINE reading == [IdleThread EXCEPT !.at = "read"]
<1>2. /\ thread = [t \in Threads |-> IF t = first THEN reading ELSE IdleThread]
      /\ proc = [p \in Workers |-> IdleProcess]
  BY DEF Init
<1>3. /\ IdleThread \in ThreadRecords /\ reading \in ThreadRecords
      /\ IdleThread.at = "idle" /\ reading.at = "read"
      /\ IdleThread.proc = NoWorker /\ reading.proc = NoWorker
      /\ IdleThread.verification = "not_attempted" /\ reading.verification = "not_attempted"
  BY IdleTyped DEF IdleThread, ThreadRecords, ThreadPlaces
<1> HIDE DEF first, reading
<1>4. \A t \in Threads : /\ thread[t] \in {IdleThread, reading}
                         /\ thread[t].at \in {"idle", "read"} /\ thread[t].proc = NoWorker
                         /\ thread[t].verification = "not_attempted"
  BY <1>2, <1>3
<1>5. thread[Pass].at = "idle"
  BY <1>0, <1>1, <1>2, <1>3
<1>6. /\ IdleProcess.life = "none" /\ IdleProcess.inbox = <<>> /\ IdleProcess.outbox = <<>>
  BY DEF IdleProcess
<1>7. EngineTyped
  <2>1. thread \in [Threads -> ThreadRecords] /\ proc \in [Workers -> Processes]
    BY <1>2, <1>3, IdleTyped
  <2>2. machine \in MachineFacts
    BY EngineAssumption DEF Init
  <2> QED BY <2>1, <2>2, IdleTyped, EngineAssumption DEF Init, EngineTyped
<1>8. LabelsTyped
  <2>1. faults \in 0 .. MaxFaults
    BY EngineAssumption DEF Init
  <2>2. crashes \in Nat /\ cancel \in BOOLEAN /\ lease \in BOOLEAN /\ machine \in Machines
    BY DEF Init
  <2>3. ui = [op |-> "none", at |-> "idle"]
    BY DEF Init
  <2>4. ui \in [op : {"none", "retest", "restart", "switch"},
               at : {"idle", "take", "cold", "warm"}]
    BY <2>3
  <2>5. status \in {"absent", "verifying"} /\ warm = "cold" /\ device = "not_configured"
        /\ integrity = "unrecorded" /\ arbiter = "none"
    BY DEF Init
  <2> QED BY <2>1, <2>2, <2>4, <2>5 DEF LabelsTyped, Integrities
<1>9. PlacesHold
  BY <1>4 DEF PlacesHold
<1>10. LoaderHoldsLock /\ LivingIsOwned
  <2>1. lock = NoThread /\ NoThread \notin Threads /\ slot = NoWorker
    BY EngineAssumption DEF Init
  <2> QED BY <1>0, <1>2, <1>4, <1>6, <2>1 DEF LoaderHoldsLock, LivingIsOwned, Owned
<1>11. StatusIsTrue
  <2>1. status # "verified_on_disk" /\ warm = "cold" /\ slot = NoWorker
    BY DEF Init
  <2> QED BY <2>1 DEF StatusIsTrue, ReadyIsResident, ResidentIsDescribed, VerifiedIsIntact
<1>12. VerifierSaw
  BY <1>4 DEF Init, VerifierSaw
<1>13. PipesAreTheRequest
  BY <1>2, <1>6 DEF PipesAreTheRequest
<1>14. StreamFollowsRequest /\ RequestIsOfPass /\ FailureHasCode /\ TranscriptIsWhole
  BY <1>5 DEF StreamFollowsRequest, RequestIsOfPass, FailureHasCode, TranscriptIsWhole, Running
<1> QED BY <1>7, <1>8, <1>9, <1>10, <1>11, <1>12, <1>13, <1>14 DEF EngineInv

LEMMA EngineStays == EngineInv /\ [Next]_vars => EngineInv'
<1> SUFFICES ASSUME EngineInv, [Next]_vars
             PROVE  EngineInv'
  OBVIOUS
<1> USE DEF EngineInv
<1>1. CASE Next
  <2>1. Running(Pass, "stream") => request.sequence < Chunks
    BY DEF StreamFollowsRequest
  <2>2. PassFollowsProtocol
    BY DEF PassFollowsProtocol
  <2>3. EngineTyped' /\ PlacesHold' /\ LoaderHoldsLock' /\ LivingIsOwned' /\ PassFollowsProtocol'
    <3>1. CASE \E t \in Threads : ThreadStep(t)
      BY <2>2, <3>1, ThreadStepKeepsTypes, ThreadStepKeepsOwners, ThreadStepFollowsProtocol
    <3>2. CASE PassStep
      BY <2>1, <2>2, <3>2, PassStepKeepsTypes, PassStepKeepsOwners, PassStepFollowsProtocol
    <3>3. CASE UiStep
      BY <2>2, <3>3, UiStepKeepsTypes, OthersKeepOwners, OthersFollowProtocol
    <3>4. CASE Commands
      BY <2>2, <3>4, CommandsKeepTypes, OthersKeepOwners, OthersFollowProtocol
    <3>5. CASE \E p \in Workers : WorkerHandles(p) \/ WorkerCrashes(p)
      BY <2>2, <3>5, WorkersKeepTypes, OthersKeepOwners, WorkerFollowsProtocol,
         CrashFollowsProtocol
    <3> QED BY <1>1, <3>1, <3>2, <3>3, <3>4, <3>5 DEF Next, ThreadsRun
  <2>4. LabelsTyped'
    BY <1>1, LabelsKept
  <2>5. StatusIsTrue'
    BY <1>1, ReadyKept, DescriptionKept, VerifiedKept DEF StatusIsTrue
  <2>6. VerifierSaw'
    BY <1>1, VerifierKept
  <2> QED BY <2>3, <2>4, <2>5, <2>6 DEF PassFollowsProtocol
<1>2. CASE UNCHANGED vars
  <2>1. UNCHANGED <<machine, disk, status, override, slot, lock, warm, device, integrity, crashes,
                    proc, thread, request, cancel, heard, lease, arbiter, ui, passes, commands,
                    faults>>
    BY <1>2 DEF vars, modelVars, engineVars, passVars, boundVars
  <2>2. EngineTyped' /\ LabelsTyped' /\ PlacesHold'
    BY <2>1 DEF EngineTyped, LabelsTyped, PlacesHold
  <2>3. LoaderHoldsLock' /\ LivingIsOwned'
    BY <2>1 DEF LoaderHoldsLock, LivingIsOwned, Owned
  <2>4. StatusIsTrue' /\ VerifierSaw'
    BY <2>1 DEF StatusIsTrue, ReadyIsResident, ResidentIsDescribed, VerifiedIsIntact, HasCuda,
                VerifierSaw
  <2>5. PassFollowsProtocol'
    BY <2>1, PassUntouched DEF PassFollowsProtocol
  <2> QED BY <2>2, <2>3, <2>4, <2>5 DEF PassFollowsProtocol
<1> QED BY <1>1, <1>2

LEMMA EngineInvariant == Spec => []EngineInv
BY EngineStarts, EngineStays, PTL DEF Spec

(* The coordinator's, the client's and the workers' state keep their types,  *)
(* and no pipe ever holds more than one frame.                               *)
THEOREM EngineIsTyped == Spec => []TypeOK
<1>1. EngineInv => TypeOK
  <2> SUFFICES ASSUME EngineInv
               PROVE  TypeOK
    OBVIOUS
  <2>1. \A t \in Threads : /\ thread[t].at \in ThreadPlaces /\ thread[t].error \in Codes
                           /\ thread[t].proc \in Workers \cup {NoWorker}
                           /\ thread[t].verification \in Verifications
    BY ThreadTyped DEF EngineInv
  <2>2. ASSUME NEW p \in Workers
        PROVE  /\ proc[p].life \in {"none", "alive", "crashed", "killed"}
               /\ Len(proc[p].inbox) + Len(proc[p].outbox) <= 1
    <3>1. CASE proc[p].inbox # <<>>
      <4>1. proc[p].inbox = <<request>> /\ proc[p].outbox = <<>>
        BY <3>1 DEF EngineInv, PipesAreTheRequest
      <4>2. Len(proc[p].inbox) = 1 /\ Len(proc[p].outbox) = 0
        BY <4>1
      <4> QED BY <4>2, ProcessTyped DEF EngineInv
    <3>2. CASE proc[p].inbox = <<>> /\ proc[p].outbox = <<>>
      BY <3>2, ProcessTyped DEF EngineInv
    <3>3. CASE proc[p].inbox = <<>> /\ proc[p].outbox # <<>>
      <4>1. Len(proc[p].inbox) = 0 /\ Len(proc[p].outbox) = 1
        BY <3>3 DEF EngineInv, PipesAreTheRequest
      <4> QED BY <4>1, ProcessTyped DEF EngineInv
    <3> QED BY <3>1, <3>2, <3>3
  <2>3. passes \in 0 .. MaxCommands /\ commands \in 0 .. MaxCommands
    BY EngineAssumption DEF EngineInv, EngineTyped
  <2>4. ui.at \in {"idle", "take", "cold", "warm"}
    BY DEF EngineInv, LabelsTyped
  <2> QED BY <2>1, <2>2, <2>3, <2>4 DEF EngineInv, EngineTyped, LabelsTyped, TypeOK
<1> QED BY <1>1, EngineInvariant, PTL

(* "ready" means a resident worker, the device and the verdict on show are   *)
(* that worker's, and "verified" is said of the pinned bytes only, whichever *)
(* threads warmed, retested, restarted or switched the engine meanwhile.     *)
THEOREM EngineTellsTheTruth == Spec => []StatusIsTrue
<1>1. EngineInv => StatusIsTrue
  BY DEF EngineInv
<1> QED BY <1>1, EngineInvariant, PTL

(* A pass reads no reply but its own, and a transcript is of every chunk of  *)
(* its utterance, once and in order, whatever earlier passes left behind.    *)
THEOREM PassesAreWhole == Spec => []PassIsWhole
<1>1. EngineInv => PassIsWhole
  <2> SUFFICES ASSUME EngineInv, Running(Pass, "stream"),
                      NEW i \in DOMAIN proc[Held].outbox
               PROVE  request.sent /\ proc[Held].outbox[i].request = request
    BY DEF EngineInv, PassIsWhole, NoStaleResponse
  <2>1. Held \in Workers
    BY HeldIsAWorker DEF EngineInv
  <2>2. proc[Held].outbox \in Seq(Responses)
    BY <2>1, ProcessTyped DEF EngineInv
  <2>3. proc[Held].outbox # <<>>
    BY <2>2
  <2>4. /\ request.sent /\ Len(proc[Held].outbox) = 1
        /\ proc[Held].outbox[1].request = request
    BY <2>1, <2>3 DEF EngineInv, PipesAreTheRequest
  <2>5. i = 1
    BY <2>2, <2>4
  <2> QED BY <2>4, <2>5
<1> QED BY <1>1, EngineInvariant, PTL
=============================================================================
