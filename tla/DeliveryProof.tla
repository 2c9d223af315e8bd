---------------------------- MODULE DeliveryProof ----------------------------
(* Proofs about Delivery, for any number of dictations, any interference and  *)
(* any length of the queues.  DeliveryInv adds to what the run checks         *)
(*   - that a request names its dictation, once: a dictation has one commit   *)
(*     in the queue or with the worker, and one text with the writer;         *)
(*   - what a late answer may find: nothing of the dictation under way is     *)
(*     anywhere before it is submitted, and nothing is left of it once the    *)
(*     guard has refused it as sensitive;                                     *)
(*   - what the commit worker may rely on at each of its steps.               *)
(* JudgedIsHeard, proved from it, says where the guard's verdict has got to.  *)
EXTENDS Delivery, SequenceTheorems, WellFoundedInduction, TLAPS

Fields == {"plain", "password", "read_only"}
Seens == [window : Windows, field : Fields, secure : BOOLEAN]
Others == {"user", "fallback", "other"}
Copies == [d : Nat, by : {"user", "fallback", "commit"}]
CommitRequests == [d : Nat, seen : Seens]

(* What a queue holds; that it holds something of a dictation; that it holds  *)
(* no two of one; whose is its last.                                          *)
Entries(queue) == {queue[i] : i \in 1 .. Len(queue)}
Has(queue, d) == \E e \in Entries(queue) : e.d = d
Once(queue) == \A i, j \in 1 .. Len(queue) : queue[i].d = queue[j].d => i = j
EndsWith(queue, d) == queue # <<>> /\ queue[Len(queue)].d = d

CallerTyped ==
    /\ focus \in Places /\ secure \in BOOLEAN /\ held \in BOOLEAN /\ moves \in 0 .. Moves
    /\ pc \in {"idle", "inspect", "inspecting", "submit", "committing", "fallback", "copying",
               "persist"}
    /\ job \in 0 .. Dictations /\ (pc # "idle" => job # 0) /\ seen \in Seens

QueuesTyped ==
    /\ inspects \in Seq(Nat) /\ commits \in Seq(CommitRequests)
    /\ copies \in [Writers -> Seq(Copies)] /\ placed \in [Writers -> BOOLEAN]
    /\ \A d \in Entries(inspects) : d \in 1 .. job
    /\ \A e \in Entries(commits) : e.d \in 1 .. job
    /\ \A w \in Writers : \A e \in Entries(copies[w]) : e.d \in 1 .. job
    /\ \A e \in Entries(copies["app"]) : e.by # "commit"
    /\ \A e \in Entries(copies["commit"]) : e.by = "commit"
    /\ \A w \in Writers : placed[w] => copies[w] # <<>>
    /\ Len(inspects) <= InspectQueue /\ Len(commits) <= CommitQueue
    /\ \A w \in Writers : Len(copies[w]) <= ClipboardQueue

CommitSteps == {"idle", "preflight", "modifiers", "recheck", "writing", "send"}
WorkersTyped ==
    /\ inspector \in [d : 0 .. job, window : Windows]
    /\ committer \in [step : CommitSteps, d : 0 .. job, seen : Seens, moved : BOOLEAN,
                      receipt : {"none", "ok", "ClipboardBusy"}]
    /\ committer.step = "idle" <=> committer.d = 0
    /\ expired \subseteq 1 .. job

RecordTyped ==
    /\ clipboard.d \in 0 .. job
    /\ outcome \in [1 .. Dictations -> {"none", "held", "inserted", "copied", "refused"}]
    /\ \A p \in pastes : p.d \in 1 .. job
    /\ \A c \in written : c.d \in 1 .. job

(* An answer waits only for who asked. *)
ReplyIsAwaited == reply # "none" => pc \in {"inspecting", "committing", "copying"}

(* A target that was seen: an inspection went through, and it is one whose    *)
(* dictation may be stored.                                                   *)
Storable(s) ==
    /\ s.window # Isolated /\ s.field # "password" /\ ~s.secure
    /\ s.window = Elevated => s.field = "read_only"

SeenIsAccessible ==
    /\ inspector.d # 0 => inspector.window # Isolated
    /\ pc = "inspecting" /\ reply = "ok" => seen.window # Isolated
    /\ pc \in {"submit", "committing"} => seen.window # Isolated

(* The request of the dictation under way carries what was seen for it.       *)
RequestIsOfSeen ==
    pc = "committing" =>
        /\ \A e \in Entries(commits) : e.d = job => e.seen = seen
        /\ committer.d = job => committer.seen = seen

BeforeWriting == {"preflight", "modifiers", "recheck"}

(* One commit of a dictation, and nothing done for it before its turn.        *)
CommitIsOnce ==
    /\ Once(commits) /\ Once(copies["commit"])
    /\ \A e \in Entries(commits) :
          /\ committer.d # e.d /\ ~Has(copies["commit"], e.d)
          /\ \A p \in pastes : p.d # e.d
    /\ committer.step \in BeforeWriting =>
          /\ ~Has(copies["commit"], committer.d)
          /\ \A p \in pastes : p.d # committer.d

(* What the commit worker has made sure of. *)
GuardedSteps == {"modifiers", "recheck", "writing", "send"}
CommitterKnows ==
    /\ committer.step \in GuardedSteps => classify_guard(snapshot_of(committer.seen)) = "ok"
    /\ committer.step \in BeforeWriting => committer.receipt = "none"
    /\ committer.step = "writing" /\ committer.receipt = "none" =>
          EndsWith(copies["commit"], committer.d)
    /\ committer.step = "send" \/ (committer.step = "writing" /\ committer.receipt # "none") =>
          copies["commit"] = <<>>
    /\ committer.step = "send" \/ (committer.step = "writing" /\ committer.receipt = "ok") =>
          clipboard.d = committer.d \/ clipboard.by \in Others
    /\ committer.step = "send" => committer.moved \/ focus.window = committer.seen.window

(* The writer whose text is set has set it, unless somebody copied since.     *)
PlacedIsSet ==
    /\ placed["commit"] => clipboard = Head(copies["commit"]) \/ clipboard.by \in Others
    /\ placed["app"] => Head(copies["app"]) \in written

(* Nothing was sent, asked or copied for the dictation. *)
Quiet(d) ==
    /\ \A p \in pastes : p.d # d
    /\ ~Has(commits, d) /\ committer.d # d /\ ~Has(copies["commit"], d)

QuietBefore == pc \in {"inspect", "inspecting", "submit"} => Quiet(job)

SensitiveIsQuiet ==
    /\ pc = "committing" /\ refusal_is_sensitive(reply) => Quiet(job)
    /\ target = "Sensitive" => Quiet(job) /\ pc \in {"fallback", "persist"}
    /\ target = "Sensitive" /\ pc = "fallback" => refusal_is_sensitive(refusal)

Fallback(d) == [d |-> d, by |-> "fallback"]
NoFallbackYet ==
    pc \in {"inspect", "inspecting", "submit", "committing", "fallback"} \/ target = "Sensitive" =>
        Fallback(job) \notin written /\ Fallback(job) \notin Entries(copies["app"])

(* What an answer says was done; what a target that is cleared must be.       *)
AnswerIsTrue ==
    /\ pc = "committing" /\ reply = "ok" => \E p \in pastes : p.d = job
    /\ pc = "copying" /\ reply = "ok" => Fallback(job) \in written
    /\ pc = "committing" /\ reply # "none" /\ classify_committed_refusal(reply) = "Cleared"
          => Storable(seen)
    /\ target = "Cleared" => pc \in {"fallback", "copying", "persist"} /\ Storable(seen)

(* The inductive invariant *)
DeliveryInv ==
    /\ CallerTyped /\ QueuesTyped /\ WorkersTyped /\ RecordTyped
    /\ ReplyIsAwaited /\ SeenIsAccessible /\ RequestIsOfSeen /\ CommitIsOnce /\ CommitterKnows
    /\ PlacedIsSet /\ QuietBefore /\ SensitiveIsQuiet /\ NoFallbackYet
    /\ AnswerIsTrue
    /\ ReportedIsDone /\ PasteIsGuarded /\ PasteCarriesTheText /\ StoredWasSeen

-----------------------------------------------------------------------------
(* Queues *)

LEMMA NothingEnters == Entries(<<>>) = {}
  BY DEF Entries

LEMMA EntriesAreTyped ==
  ASSUME NEW S, NEW queue \in Seq(S)
  PROVE  Entries(queue) \subseteq S
  BY ElementOfSeq DEF Entries

(* What a request at the end of a queue changes. *)
LEMMA Appended ==
  ASSUME NEW S, NEW queue \in Seq(S), NEW e \in S
  PROVE  /\ Append(queue, e) \in Seq(S) /\ Append(queue, e) # <<>>
         /\ Len(Append(queue, e)) = Len(queue) + 1
         /\ Entries(Append(queue, e)) = Entries(queue) \cup {e}
         /\ queue # <<>> => Head(Append(queue, e)) = Head(queue)
         /\ EndsWith(Append(queue, e), e.d)
         /\ Once(queue) /\ ~Has(queue, e.d) => Once(Append(queue, e))
<1> DEFINE longer == Append(queue, e)
<1>1. /\ longer \in Seq(S) /\ longer # <<>> /\ Len(longer) = Len(queue) + 1
      /\ \A i \in 1 .. Len(queue) : longer[i] = queue[i]
      /\ longer[Len(queue) + 1] = e
      /\ Len(queue) \in Nat
  BY AppendProperties, LenProperties
<1>2. queue # <<>> => Head(longer) = Head(queue)
  BY HeadTailAppend
<1> HIDE DEF longer
<1>3. Entries(longer) = Entries(queue) \cup {e}
  <2>1. ASSUME NEW i \in 1 .. Len(longer)
        PROVE  longer[i] \in Entries(queue) \cup {e}
    <3>1. CASE i = Len(queue) + 1
      BY <1>1, <3>1
    <3>2. CASE i # Len(queue) + 1
      <4>1. i \in 1 .. Len(queue)
        BY <1>1, <3>2
      <4> QED
        BY <1>1, <4>1 DEF Entries
    <3> QED
      BY <3>1, <3>2
  <2>2. ASSUME NEW i \in 1 .. Len(queue)
        PROVE  queue[i] \in Entries(longer)
    <3>1. i \in 1 .. Len(longer) /\ longer[i] = queue[i]
      BY <1>1
    <3> QED
      BY <3>1 DEF Entries
  <2>3. e \in Entries(longer)
    <3>1. Len(queue) + 1 \in 1 .. Len(longer)
      BY <1>1
    <3> QED
      BY <1>1, <3>1 DEF Entries
  <2> QED
    BY <2>1, <2>2, <2>3 DEF Entries
<1>4. EndsWith(longer, e.d)
  BY <1>1 DEF EndsWith
<1>5. ASSUME Once(queue), ~Has(queue, e.d)
      PROVE  Once(longer)
  <2>1. \A i \in 1 .. Len(queue) : queue[i].d # e.d
    BY <1>5 DEF Has, Entries
  <2>2. ASSUME NEW i \in 1 .. Len(longer), NEW j \in 1 .. Len(longer),
               longer[i].d = longer[j].d
        PROVE  i = j
    BY <1>1, <1>5, <2>1, <2>2 DEF Once
  <2> QED
    BY <2>2 DEF Once
<1> QED
  BY <1>1, <1>2, <1>3, <1>4, <1>5 DEF longer

(* What taking the first request of a queue changes. *)
LEMMA Taken ==
  ASSUME NEW S, NEW queue \in Seq(S), queue # <<>>
  PROVE  /\ Tail(queue) \in Seq(S) /\ Head(queue) \in S
         /\ Len(Tail(queue)) = Len(queue) - 1
         /\ Entries(queue) = {Head(queue)} \cup Entries(Tail(queue))
         /\ Once(queue) => Once(Tail(queue)) /\ ~Has(Tail(queue), Head(queue).d)
<1>1. /\ Head(queue) \in S /\ Tail(queue) \in Seq(S) /\ Len(Tail(queue)) = Len(queue) - 1
      /\ \A i \in 1 .. Len(Tail(queue)) : Tail(queue)[i] = queue[i + 1]
  BY HeadTailProperties
<1>2. Len(queue) \in Nat \ {0} /\ Head(queue) = queue[1]
  BY EmptySeq
<1> DEFINE rest == Tail(queue)
<1> HIDE DEF rest
<1>3. /\ Len(rest) = Len(queue) - 1
      /\ \A i \in 1 .. Len(rest) : rest[i] = queue[i + 1]
  BY <1>1 DEF rest
<1>4. Entries(queue) = {Head(queue)} \cup Entries(rest)
  <2>1. ASSUME NEW i \in 1 .. Len(queue)
        PROVE  queue[i] \in {Head(queue)} \cup Entries(rest)
    <3>1. CASE i = 1
      BY <1>2, <3>1
    <3>2. CASE i # 1
      <4>1. i - 1 \in 1 .. Len(rest) /\ rest[i - 1] = queue[i]
        BY <1>2, <1>3, <3>2
      <4> QED
        BY <4>1 DEF Entries
    <3> QED
      BY <3>1, <3>2
  <2>2. ASSUME NEW i \in 1 .. Len(rest)
        PROVE  rest[i] \in Entries(queue)
    <3>1. i + 1 \in 1 .. Len(queue) /\ rest[i] = queue[i + 1]
      BY <1>2, <1>3
    <3> QED
      BY <3>1 DEF Entries
  <2>3. Head(queue) \in Entries(queue)
    <3>1. 1 \in 1 .. Len(queue)
      BY <1>2
    <3> QED
      BY <1>2, <3>1 DEF Entries
  <2> QED
    BY <2>1, <2>2, <2>3 DEF Entries
<1>5. ASSUME Once(queue)
      PROVE  Once(rest) /\ ~Has(rest, Head(queue).d)
  <2>1. ASSUME NEW i \in 1 .. Len(rest), NEW j \in 1 .. Len(rest), rest[i].d = rest[j].d
        PROVE  i = j
    <3>1. /\ i + 1 \in 1 .. Len(queue) /\ j + 1 \in 1 .. Len(queue)
          /\ queue[i + 1].d = queue[j + 1].d
      BY <1>2, <1>3, <2>1
    <3>2. i + 1 = j + 1
      BY <1>5, <3>1 DEF Once
    <3> QED
      BY <3>2
  <2>2. ASSUME NEW i \in 1 .. Len(rest), rest[i].d = Head(queue).d
        PROVE  FALSE
    <3>1. /\ i + 1 \in 1 .. Len(queue) /\ 1 \in 1 .. Len(queue)
          /\ queue[i + 1].d = queue[1].d
      BY <1>2, <1>3, <2>2
    <3>2. i + 1 = 1
      BY <1>5, <3>1 DEF Once
    <3> QED
      BY <3>2
  <2> QED
    BY <2>1, <2>2 DEF Once, Has, Entries
<1> QED
  BY <1>1, <1>4, <1>5 DEF rest

(* The last request of a queue is last until it is the first, and then it is   *)
(* the only one.                                                              *)
LEMMA LastIsTakenLast ==
  ASSUME NEW S, NEW queue \in Seq(S), NEW d, EndsWith(queue, d), Once(queue)
  PROVE  IF Head(queue).d = d THEN Tail(queue) = <<>> ELSE EndsWith(Tail(queue), d)
<1>1. /\ Tail(queue) \in Seq(S) /\ Len(Tail(queue)) = Len(queue) - 1
      /\ \A i \in 1 .. Len(Tail(queue)) : Tail(queue)[i] = queue[i + 1]
  BY HeadTailProperties DEF EndsWith
<1>2. Len(queue) \in Nat \ {0} /\ Head(queue) = queue[1] /\ queue[Len(queue)].d = d
  BY EmptySeq DEF EndsWith
<1>3. CASE Head(queue).d = d
  <2>1. 1 \in 1 .. Len(queue) /\ Len(queue) \in 1 .. Len(queue)
        /\ queue[1].d = queue[Len(queue)].d
    BY <1>2, <1>3
  <2>2. Len(queue) = 1
    BY <2>1 DEF Once
  <2>3. Len(Tail(queue)) = 0
    BY <1>1, <2>2
  <2> QED
    BY <1>1, <1>3, <2>3, EmptySeq
<1>4. CASE Head(queue).d # d
  <2>1. Len(queue) # 1
    BY <1>2, <1>4
  <2>2. Len(Tail(queue)) \in 1 .. Len(Tail(queue))
    BY <1>1, <1>2, <2>1
  <2>3. Tail(queue)[Len(Tail(queue))] = queue[Len(queue)]
    BY <1>1, <1>2, <2>2
  <2>4. Tail(queue) # <<>>
    BY <2>2
  <2> QED
    BY <1>2, <1>4, <2>3, <2>4 DEF EndsWith
<1> QED
  BY <1>3, <1>4

-----------------------------------------------------------------------------
(* The checks *)

LEMMA LeastOfSome ==
  ASSUME NEW some, some \subseteq Nat, some # {}
  PROVE  \E i \in some : \A j \in some : i <= j
<1>1. PICK i \in some : \A j \in some : <<j, i>> \notin OpToRel(<, Nat)
  BY NatLessThanWellFounded, WFMin
<1>2. ASSUME NEW j \in some
      PROVE  i <= j
  <2>1. i \in Nat /\ j \in Nat
    OBVIOUS
  <2>2. ~(j < i)
    BY <1>1, <2>1 DEF OpToRel
  <2> QED
    BY <2>1, <2>2
<1> QED
  BY <1>2

(* Checks either all pass, or the first that does not names the refusal.      *)
LEMMA Refused ==
  ASSUME NEW checks, DOMAIN checks \subseteq Nat
  PROVE  \/ FirstRefusal(checks) = "ok" /\ \A i \in DOMAIN checks : checks[i][1]
         \/ \E i \in DOMAIN checks :
                /\ ~checks[i][1] /\ FirstRefusal(checks) = checks[i][2]
                /\ \A j \in DOMAIN checks : j < i => checks[j][1]
<1> DEFINE failed == {i \in DOMAIN checks : ~checks[i][1]}
<1>1. CASE failed = {}
  BY <1>1 DEF FirstRefusal
<1>2. CASE failed # {}
  <2> DEFINE least == CHOOSE i \in failed : \A j \in failed : i <= j
  <2>1. \E i \in failed : \A j \in failed : i <= j
    <3>1. failed \subseteq Nat
      OBVIOUS
    <3> QED
      BY <1>2, <3>1, LeastOfSome
  <2>2. least \in failed /\ \A j \in failed : least <= j
    BY <2>1
  <2>3. FirstRefusal(checks) = checks[least][2]
    BY <1>2 DEF FirstRefusal
  <2> HIDE DEF least
  <2>4. least \in DOMAIN checks /\ ~checks[least][1]
    BY <2>2
  <2>5. \A j \in DOMAIN checks : j < least => checks[j][1]
    BY <2>2, <2>4
  <2> QED
    BY <2>3, <2>4, <2>5
<1> QED
  BY <1>1, <1>2

Sensitive == {"SecureDesktop", "Password", "ElevatedTarget", "UnknownSensitive"}

(* The guard lets through, or refuses without calling it sensitive, only what *)
(* is no password field, not the secure desktop and not elevated, unless it   *)
(* is read-only.                                                              *)
LEMMA GuardFacts ==
  ASSUME NEW s \in Seens
  PROVE  /\ classify_guard(snapshot_of(s)) \in {"ok"} \cup Sensitive \cup {"ReadOnly"}
         /\ classify_guard(snapshot_of(s)) \in {"ok", "ReadOnly"} =>
               /\ s.field # "password" /\ ~s.secure
               /\ s.window = Elevated => s.field = "read_only"
<1> DEFINE guard == classify_guard(snapshot_of(s))
           checks == << <<snapshot_of(s).is_secure_desktop # "none", "Unsupported">>,
                        <<snapshot_of(s).is_secure_desktop = "no", "SecureDesktop">>,
                        <<~snapshot_of(s).is_password, "Password">>,
                        <<~snapshot_of(s).is_read_only, "ReadOnly">>,
                        <<snapshot_of(s).integrity \in {"equal", "lower"}, "ElevatedTarget">>,
                        <<snapshot_of(s).target_kind # "unknown_sensitive", "UnknownSensitive">> >>
<1>1. guard = FirstRefusal(checks) /\ DOMAIN checks = 1 .. 6
  BY DEF classify_guard
<1>2. /\ snapshot_of(s).is_secure_desktop # "none" => checks[1][1]
      /\ checks[2][1] => snapshot_of(s).is_secure_desktop = "no"
      /\ checks[3][1] => ~snapshot_of(s).is_password
      /\ ~checks[4][1] => snapshot_of(s).is_read_only
      /\ checks[5][1] => snapshot_of(s).integrity \in {"equal", "lower"}
      /\ checks[1][2] = "Unsupported" /\ checks[2][2] = "SecureDesktop"
      /\ checks[3][2] = "Password" /\ checks[4][2] = "ReadOnly"
      /\ checks[5][2] = "ElevatedTarget" /\ checks[6][2] = "UnknownSensitive"
  OBVIOUS
<1>3. /\ snapshot_of(s).is_secure_desktop = IF s.secure THEN "yes" ELSE "no"
      /\ snapshot_of(s).is_password <=> s.field = "password"
      /\ snapshot_of(s).is_read_only <=> s.field = "read_only"
      /\ snapshot_of(s).integrity = s.window.integrity
      /\ Elevated.integrity = "higher"
  BY DEF snapshot_of, Elevated, Window
<1> HIDE DEF checks
<1>4. \/ guard = "ok" /\ \A i \in 1 .. 6 : checks[i][1]
      \/ \E i \in 1 .. 6 : /\ ~checks[i][1] /\ guard = checks[i][2]
                           /\ \A j \in 1 .. 6 : j < i => checks[j][1]
  <2>1. 1 .. 6 \subseteq Nat
    OBVIOUS
  <2> QED
    BY <1>1, <2>1, Refused
<1>5. CASE guard = "ok" /\ \A i \in 1 .. 6 : checks[i][1]
  <2>1. checks[2][1] /\ checks[3][1] /\ checks[5][1]
    BY <1>5
  <2>2. s.window # Elevated
    BY <1>2, <1>3, <2>1
  <2> QED
    BY <1>2, <1>3, <1>5, <2>1, <2>2
<1>6. CASE \E i \in 1 .. 6 : /\ ~checks[i][1] /\ guard = checks[i][2]
                             /\ \A j \in 1 .. 6 : j < i => checks[j][1]
  <2>1. PICK i \in 1 .. 6 : /\ ~checks[i][1] /\ guard = checks[i][2]
                            /\ \A j \in 1 .. 6 : j < i => checks[j][1]
    BY <1>6
  <2>2. i # 1
    BY <1>2, <1>3, <2>1
  <2>3. guard \in Sensitive \cup {"ReadOnly"}
    BY <1>2, <2>1, <2>2 DEF Sensitive
  <2>4. guard = "ReadOnly" => i = 4
    <3>1. i \in {1, 2, 3, 4, 5, 6}
      BY <2>1
    <3> QED
      BY <1>2, <2>1, <3>1
  <2>5. ASSUME i = 4
        PROVE  s.field # "password" /\ ~s.secure /\ s.field = "read_only"
    <3>1. checks[2][1] /\ checks[3][1] /\ ~checks[4][1]
      BY <2>1, <2>5
    <3> QED
      BY <1>2, <1>3, <3>1
  <2>6. guard # "ok"
    BY <2>3 DEF Sensitive
  <2> QED
    BY <2>3, <2>4, <2>5, <2>6
<1> QED
  BY <1>4, <1>5, <1>6

(* What the commit worker's preflight answers. *)
LEMMA PreflightFacts ==
  ASSUME NEW s \in Seens
  PROVE  LET r == validate_focused_preflight(snapshot_of(s))
         IN  /\ r = "ok" => classify_guard(snapshot_of(s)) = "ok"
             /\ r # "ok" => \/ r = "Unsupported"
                            \/ r = classify_guard(snapshot_of(s)) /\ r \in Sensitive \cup {"ReadOnly"}
  BY GuardFacts DEF validate_focused_preflight, Sensitive

LEMMA WindowsAreDistinct ==
  ASSUME NEW a \in Windows, NEW b \in Windows,
         a.handle = b.handle, a.process = b.process, a.start = b.start
  PROVE  a = b
<1>1. /\ Editor.handle = 1 /\ Editor.start = 1 /\ Reused.handle = 1 /\ Reused.start = 2
      /\ Elevated.handle = 2 /\ Isolated.handle = 3
  BY DEF Editor, Reused, Elevated, Isolated, Window
<1> QED
  BY <1>1 DEF Windows

(* The identity of a window is compared number by number.                     *)
LEMMA IdentityFacts ==
  ASSUME NEW snapshot, NEW identity
  PROVE  LET r == validate_foreground_identity(snapshot, identity)
         IN  \/ r \in {"FocusChanged", "ProcessChanged", "WindowReused"}
             \/ /\ r = "ok" /\ identity.handle = snapshot.handle
                /\ identity.process = snapshot.process /\ identity.start = snapshot.start
<1> DEFINE checks == << <<identity.foreground, "FocusChanged">>,
                        <<identity.handle = snapshot.handle, "FocusChanged">>,
                        <<identity.process = snapshot.process, "ProcessChanged">>,
                        <<identity.start = snapshot.start, "WindowReused">> >>
<1>1. validate_foreground_identity(snapshot, identity) = FirstRefusal(checks)
  BY DEF validate_foreground_identity
<1>2. /\ DOMAIN checks = 1 .. 4
      /\ checks[1][2] = "FocusChanged" /\ checks[2][2] = "FocusChanged"
      /\ checks[3][2] = "ProcessChanged" /\ checks[4][2] = "WindowReused"
  OBVIOUS
<1>3. /\ checks[2][1] => identity.handle = snapshot.handle
      /\ checks[3][1] => identity.process = snapshot.process
      /\ checks[4][1] => identity.start = snapshot.start
  OBVIOUS
<1> HIDE DEF checks
<1>4. \/ FirstRefusal(checks) = "ok" /\ \A i \in 1 .. 4 : checks[i][1]
      \/ \E i \in 1 .. 4 : FirstRefusal(checks) = checks[i][2]
  <2>1. 1 .. 4 \subseteq Nat
    OBVIOUS
  <2> QED
    BY <1>2, <2>1, Refused
<1>5. CASE FirstRefusal(checks) = "ok" /\ \A i \in 1 .. 4 : checks[i][1]
  <2>1. checks[2][1] /\ checks[3][1] /\ checks[4][1]
    BY <1>5
  <2> QED
    BY <1>1, <1>3, <1>5, <2>1
<1>6. CASE \E i \in 1 .. 4 : FirstRefusal(checks) = checks[i][2]
  BY <1>1, <1>2, <1>6
<1> QED
  BY <1>4, <1>5, <1>6

(* What the look at the window answers. *)
LEMMA IdentifiedFacts ==
  ASSUME focus \in Places, committer.seen \in Seens
  PROVE  /\ Identified \in {"ok", "TargetInaccessible", "FocusChanged", "ProcessChanged",
                            "WindowReused"}
         /\ Identified = "ok" => focus.window = committer.seen.window
<1> DEFINE snapshot == snapshot_of(committer.seen)
           identity == [foreground |-> TRUE, handle |-> focus.window.handle,
                        process |-> focus.window.process, start |-> focus.window.start]
           answer == validate_foreground_identity(snapshot, identity)
<1>1. Identified = IF ~focus.window.accessible THEN "TargetInaccessible" ELSE answer
  BY DEF Identified
<1>2. /\ snapshot.handle = committer.seen.window.handle
      /\ snapshot.process = committer.seen.window.process
      /\ snapshot.start = committer.seen.window.start
  BY DEF snapshot_of
<1>3. \/ answer \in {"FocusChanged", "ProcessChanged", "WindowReused"}
      \/ /\ answer = "ok" /\ identity.handle = snapshot.handle
         /\ identity.process = snapshot.process /\ identity.start = snapshot.start
  BY IdentityFacts
<1>4. focus.window \in Windows /\ committer.seen.window \in Windows
  BY DEF Places, Seens, Windows
<1>5. answer = "ok" => focus.window = committer.seen.window
  <2> HIDE DEF answer, snapshot
  <2> QED
    BY <1>2, <1>3, <1>4, WindowsAreDistinct
<1> HIDE DEF answer
<1> QED
  BY <1>1, <1>3, <1>5

-----------------------------------------------------------------------------
(* The initial states *)

LEMMA InitialInv ==
  ASSUME Init
  PROVE  DeliveryInv
<1>1. /\ <<>> \in Seq(Nat) /\ <<>> \in Seq(CommitRequests) /\ <<>> \in Seq(Copies)
      /\ Len(<<>>) = 0
  BY EmptySeq
<1>2. Dictations \in Nat \ {0} /\ Moves \in Nat /\ InspectQueue \in Nat /\ CommitQueue \in Nat
      /\ ClipboardQueue \in Nat
  BY DeliveryAssumption
<1>3. Unseen \in Seens /\ Unseen.window = Isolated /\ Editor \in Windows
  BY DEF Unseen, Seens, Windows, Fields
<1>4. CallerTyped
  <2>1. [window |-> Editor, field |-> "plain"] \in Places
    BY DEF Places
  <2>2. focus \in Places /\ secure \in BOOLEAN /\ held \in BOOLEAN
    BY <2>1 DEF Init
  <2>3. moves \in 0 .. Moves /\ job \in 0 .. Dictations
    BY <1>2 DEF Init
  <2>4. pc = "idle" /\ seen \in Seens
    BY <1>3 DEF Init
  <2> QED
    BY <2>2, <2>3, <2>4 DEF CallerTyped
<1>5. QueuesTyped
  BY <1>1, <1>2, NothingEnters DEF Init, QueuesTyped, Writers
<1>6. WorkersTyped /\ RecordTyped
  BY <1>2, <1>3 DEF Init, WorkersTyped, RecordTyped, Idle, CommitSteps
<1>7. Once(<<>>)
  BY <1>1 DEF Once
<1>8. ReplyIsAwaited /\ SeenIsAccessible /\ RequestIsOfSeen
  BY DEF Init, ReplyIsAwaited, SeenIsAccessible, RequestIsOfSeen
<1>9. CommitIsOnce /\ CommitterKnows /\ PlacedIsSet
  BY <1>7, NothingEnters
     DEF Init, CommitIsOnce, CommitterKnows, PlacedIsSet, GuardedSteps, BeforeWriting, Idle,
         Writers
<1>10. QuietBefore /\ SensitiveIsQuiet /\ NoFallbackYet /\ AnswerIsTrue
  BY DEF Init, QuietBefore, SensitiveIsQuiet, NoFallbackYet, AnswerIsTrue
<1>11. ReportedIsDone /\ PasteIsGuarded /\ PasteCarriesTheText /\ StoredWasSeen
  BY <1>2 DEF Init, ReportedIsDone, PasteIsGuarded, PasteCarriesTheText, StoredWasSeen
<1> QED
  BY <1>4, <1>5, <1>6, <1>8, <1>9, <1>10, <1>11 DEF DeliveryInv

-----------------------------------------------------------------------------
(* The user and other programs *)

UserSteps ==
    MoveFocus \/ SecureDesktop \/ ReleaseModifiers \/ OtherProgramCopies \/ UserCopies

LEMMA UserEffect ==
  ASSUME UserSteps, CallerTyped, QueuesTyped
  PROVE  /\ UNCHANGED <<caller, inspection, commits, expired, judged, placed, written, record,
                        pastes>>
         /\ focus' \in Places /\ secure' \in BOOLEAN /\ held' \in BOOLEAN /\ moves' \in 0 .. Moves
         /\ \/ UNCHANGED <<focus, committer>>
            \/ committer' = [committer EXCEPT !.moved = TRUE]
         /\ UNCHANGED clipboard \/ clipboard' = [d |-> 0, by |-> "other"]
         /\ \/ UNCHANGED copies
            \/ /\ job > 0 /\ Len(copies["app"]) < ClipboardQueue
               /\ copies' = [copies EXCEPT !["app"] = Append(@, [d |-> job, by |-> "user"])]
<1> USE DEF caller, inspection, committing, clipboards, record
<1>6. Interfere => moves' \in 0 .. Moves
  BY DeliveryAssumption DEF Interfere, CallerTyped
<1>1. CASE MoveFocus
  BY <1>1, <1>6 DEF MoveFocus, CallerTyped
<1>2. CASE SecureDesktop
  BY <1>2, <1>6 DEF SecureDesktop, CallerTyped
<1>3. CASE ReleaseModifiers
  BY <1>3 DEF ReleaseModifiers, CallerTyped
<1>4. CASE OtherProgramCopies
  BY <1>4, <1>6 DEF OtherProgramCopies, CallerTyped
<1>5. CASE UserCopies
  BY <1>5, <1>6 DEF UserCopies, CallerTyped
<1> QED
  BY <1>1, <1>2, <1>3, <1>4, <1>5 DEF UserSteps

(* A text given to a writer. *)
LEMMA CopyAsked ==
  ASSUME QueuesTyped, CallerTyped, NEW w \in Writers, NEW c \in Copies, c.d \in 1 .. job,
         w = "commit" <=> c.by = "commit", Len(copies[w]) < ClipboardQueue,
         copies' = [copies EXCEPT ![w] = Append(@, c)]
  PROVE  /\ copies' \in [Writers -> Seq(Copies)]
         /\ \A v \in Writers \ {w} : copies'[v] = copies[v]
         /\ copies'[w] = Append(copies[w], c) /\ copies'[w] # <<>>
         /\ Entries(copies'[w]) = Entries(copies[w]) \cup {c}
         /\ Len(copies'[w]) <= ClipboardQueue
         /\ copies[w] # <<>> => Head(copies'[w]) = Head(copies[w])
         /\ EndsWith(copies'[w], c.d)
         /\ Once(copies[w]) /\ ~Has(copies[w], c.d) => Once(copies'[w])
<1>1. copies[w] \in Seq(Copies)
  BY DEF QueuesTyped
<1>2. /\ Append(copies[w], c) \in Seq(Copies) /\ Append(copies[w], c) # <<>>
      /\ Len(Append(copies[w], c)) = Len(copies[w]) + 1
      /\ Entries(Append(copies[w], c)) = Entries(copies[w]) \cup {c}
      /\ copies[w] # <<>> => Head(Append(copies[w], c)) = Head(copies[w])
      /\ EndsWith(Append(copies[w], c), c.d)
      /\ Once(copies[w]) /\ ~Has(copies[w], c.d) => Once(Append(copies[w], c))
  BY <1>1, Appended
<1>3. copies'[w] = Append(copies[w], c) /\ \A v \in Writers \ {w} : copies'[v] = copies[v]
  BY DEF QueuesTyped
<1>4. copies' \in [Writers -> Seq(Copies)]
  BY <1>2 DEF QueuesTyped
<1>5. Len(copies[w]) \in Nat /\ ClipboardQueue \in Nat
  BY <1>1, LenProperties, DeliveryAssumption
<1>6. Len(copies'[w]) <= ClipboardQueue
  BY <1>2, <1>3, <1>5
<1> QED
  BY <1>2, <1>3, <1>4, <1>6

(* A text a writer is done with. *)
LEMMA CopyTaken ==
  ASSUME QueuesTyped, NEW w \in Writers, copies[w] # <<>>,
         copies' = [copies EXCEPT ![w] = Tail(@)]
  PROVE  /\ copies' \in [Writers -> Seq(Copies)] /\ Head(copies[w]) \in Copies
         /\ \A v \in Writers \ {w} : copies'[v] = copies[v]
         /\ copies'[w] = Tail(copies[w])
         /\ Entries(copies[w]) = {Head(copies[w])} \cup Entries(copies'[w])
         /\ Len(copies'[w]) <= ClipboardQueue
         /\ Once(copies[w]) => Once(copies'[w])
<1>1. copies[w] \in Seq(Copies)
  BY DEF QueuesTyped
<1>2. /\ Tail(copies[w]) \in Seq(Copies) /\ Head(copies[w]) \in Copies
      /\ Len(Tail(copies[w])) = Len(copies[w]) - 1
      /\ Entries(copies[w]) = {Head(copies[w])} \cup Entries(Tail(copies[w]))
      /\ Once(copies[w]) => Once(Tail(copies[w]))
  BY <1>1, Taken
<1>3. copies'[w] = Tail(copies[w]) /\ \A v \in Writers \ {w} : copies'[v] = copies[v]
  BY DEF QueuesTyped
<1>4. copies' \in [Writers -> Seq(Copies)]
  BY <1>2 DEF QueuesTyped
<1>5. Len(copies[w]) \in Nat /\ ClipboardQueue \in Nat /\ Len(copies[w]) <= ClipboardQueue
  BY <1>1, LenProperties, DeliveryAssumption DEF QueuesTyped
<1>6. Len(copies'[w]) <= ClipboardQueue
  BY <1>2, <1>3, <1>5
<1> QED
  BY <1>2, <1>3, <1>4, <1>6

LEMMA UserKeeps ==
  ASSUME DeliveryInv, UserSteps
  PROVE  DeliveryInv'
<1> USE DEF caller, inspection, clipboards, record
<1>1. CallerTyped /\ QueuesTyped /\ WorkersTyped /\ RecordTyped
  BY DEF DeliveryInv
<1>2. /\ UNCHANGED <<caller, inspection, commits, expired, placed, written, record, pastes>>
      /\ focus' \in Places /\ secure' \in BOOLEAN /\ held' \in BOOLEAN /\ moves' \in 0 .. Moves
      /\ UNCHANGED clipboard \/ clipboard' = [d |-> 0, by |-> "other"]
  BY <1>1, UserEffect
<1>3. /\ committer'.step = committer.step /\ committer'.d = committer.d
      /\ committer'.seen = committer.seen /\ committer'.receipt = committer.receipt
      /\ committer'.moved \/ (committer' = committer /\ focus' = focus)
      /\ committer'.moved \in BOOLEAN
      /\ committer' \in [step : CommitSteps, d : 0 .. job, seen : Seens, moved : BOOLEAN,
                         receipt : {"none", "ok", "ClipboardBusy"}]
  BY <1>1, UserEffect DEF WorkersTyped
<1>4. /\ copies' \in [Writers -> Seq(Copies)] /\ copies'["commit"] = copies["commit"]
      /\ \E more \in SUBSET {[d |-> job, by |-> "user"]} :
            /\ Entries(copies'["app"]) = Entries(copies["app"]) \cup more
            /\ more # {} => job \in 1 .. job
      /\ copies["app"] # <<>> =>
            copies'["app"] # <<>> /\ Head(copies'["app"]) = Head(copies["app"])
      /\ \A w \in Writers : Len(copies'[w]) <= ClipboardQueue
  <2>1. CASE copies' = copies
    <3>1. Entries(copies'["app"]) = Entries(copies["app"]) \cup {}
      BY <2>1
    <3> QED
      BY <1>1, <2>1, <3>1 DEF QueuesTyped
  <2>2. CASE copies' # copies
    <3> DEFINE c == [d |-> job, by |-> "user"]
    <3>1. /\ job > 0 /\ Len(copies["app"]) < ClipboardQueue
          /\ copies' = [copies EXCEPT !["app"] = Append(@, c)]
      BY <1>1, <2>2, UserEffect
    <3>2. job \in 1 .. job /\ c \in Copies /\ c.d = job /\ c.by = "user"
      BY <1>1, <3>1, DeliveryAssumption DEF CallerTyped, Copies
    <3> HIDE DEF c
    <3>3. /\ copies' \in [Writers -> Seq(Copies)]
          /\ \A v \in Writers \ {"app"} : copies'[v] = copies[v]
          /\ copies'["app"] # <<>>
          /\ Entries(copies'["app"]) = Entries(copies["app"]) \cup {c}
          /\ Len(copies'["app"]) <= ClipboardQueue
          /\ copies["app"] # <<>> => Head(copies'["app"]) = Head(copies["app"])
      BY <1>1, <3>1, <3>2, CopyAsked DEF Writers
    <3>4. copies'["commit"] = copies["commit"] /\ Len(copies'["commit"]) <= ClipboardQueue
      BY <1>1, <3>3 DEF Writers, QueuesTyped
    <3>5. {c} \in SUBSET {[d |-> job, by |-> "user"]}
      BY DEF c
    <3>6. \A w \in Writers : Len(copies'[w]) <= ClipboardQueue
      BY <3>3, <3>4 DEF Writers
    <3> QED
      BY <3>2, <3>3, <3>4, <3>5, <3>6
  <2> QED
    BY <2>1, <2>2
<1>5. PICK more \in SUBSET {[d |-> job, by |-> "user"]} :
         /\ Entries(copies'["app"]) = Entries(copies["app"]) \cup more
         /\ more # {} => job \in 1 .. job
  BY <1>4
<1>6. CallerTyped'
  BY <1>1, <1>2 DEF CallerTyped
<1>7. QueuesTyped'
  <2>1. \A e \in more : e.d \in 1 .. job /\ e.by # "commit"
    BY <1>5
  <2>2. \A w \in Writers : \A e \in Entries(copies'[w]) : e.d \in 1 .. job
    BY <1>1, <1>4, <1>5, <2>1 DEF Writers, QueuesTyped
  <2>3. \A w \in Writers : placed[w] => copies'[w] # <<>>
    BY <1>1, <1>4 DEF Writers, QueuesTyped
  <2>4. \A e \in Entries(copies'["app"]) : e.by # "commit"
    BY <1>1, <1>5, <2>1 DEF QueuesTyped
  <2> QED
    BY <1>1, <1>2, <1>4, <2>2, <2>3, <2>4 DEF QueuesTyped
<1>8. WorkersTyped'
  BY <1>1, <1>2, <1>3 DEF WorkersTyped
<1>9. RecordTyped'
  BY <1>1, <1>2, DeliveryAssumption DEF RecordTyped, CallerTyped
<1>10. ReplyIsAwaited' /\ SeenIsAccessible'
  BY <1>2 DEF DeliveryInv, ReplyIsAwaited, SeenIsAccessible
<1>11. RequestIsOfSeen' /\ CommitIsOnce'
  BY <1>2, <1>3, <1>4 DEF DeliveryInv, RequestIsOfSeen, CommitIsOnce
<1>12. CommitterKnows'
  BY <1>2, <1>3, <1>4 DEF DeliveryInv, CommitterKnows, GuardedSteps, BeforeWriting, Others
<1>13. PlacedIsSet'
  BY <1>1, <1>2, <1>4 DEF DeliveryInv, PlacedIsSet, Others, QueuesTyped, Writers
<1>14. Quiet(job) => Quiet(job)'
  BY <1>2, <1>3, <1>4 DEF Quiet
<1>15. QuietBefore' /\ SensitiveIsQuiet'
  BY <1>2, <1>14 DEF DeliveryInv, QuietBefore, SensitiveIsQuiet
<1>16. NoFallbackYet'
  BY <1>2, <1>5 DEF DeliveryInv, NoFallbackYet, Fallback
<1>17. AnswerIsTrue' /\ ReportedIsDone' /\ StoredWasSeen'
  BY <1>2 DEF DeliveryInv, AnswerIsTrue, ReportedIsDone, StoredWasSeen
<1>18. PasteIsGuarded' /\ PasteCarriesTheText'
  BY <1>2 DEF DeliveryInv, PasteIsGuarded, PasteCarriesTheText
<1> QED
  BY <1>6, <1>7, <1>8, <1>9, <1>10, <1>11, <1>12, <1>13, <1>15, <1>16, <1>17, <1>18 DEF DeliveryInv

-----------------------------------------------------------------------------
(* The UI Automation worker *)

InspectorSteps == inspect_current \/ inspect_element
InspectAnswers == {"ok", "TargetInaccessible", "Unsupported", "ElementChanged"}

(* An answer is taken only while it is waited for, and one that is "ok" is of  *)
(* a window that can be opened.                                               *)
LEMMA InspectorEffect ==
  ASSUME InspectorSteps, CallerTyped, QueuesTyped, WorkersTyped, SeenIsAccessible
  PROVE  /\ UNCHANGED <<desktop, job, pc, refusal, target, committing, clipboards, record, pastes>>
         /\ inspects' \in Seq(Nat) /\ Entries(inspects') \subseteq Entries(inspects)
         /\ Len(inspects') <= InspectQueue
         /\ inspector' \in [d : 0 .. job, window : Windows]
         /\ inspector'.d # 0 => inspector'.window # Isolated
         /\ \/ UNCHANGED <<reply, seen>>
            \/ /\ pc = "inspecting" /\ seen' \in Seens /\ reply' \in InspectAnswers
               /\ reply' = "ok" => seen'.window # Isolated
<1>1. focus.window \in Windows /\ focus.field \in Fields
  BY DEF CallerTyped, Places, Windows, Fields
<1>2. Unseen \in Seens /\ Editor \in Windows
  BY DEF Unseen, Seens, Windows, Fields
<1>3. CASE inspect_current
  <2>1. /\ inspects # <<>> /\ inspects' = Tail(inspects) /\ inspector.d = 0
        /\ UNCHANGED <<desktop, job, pc, refusal, target, committing, clipboards, record, pastes>>
    BY <1>3 DEF inspect_current
  <2>2. /\ Tail(inspects) \in Seq(Nat) /\ Head(inspects) \in Nat
        /\ Len(Tail(inspects)) = Len(inspects) - 1 /\ Len(inspects) \in Nat
        /\ Entries(inspects) = {Head(inspects)} \cup Entries(Tail(inspects))
    BY <2>1, Taken, LenProperties DEF QueuesTyped
  <2>3. Head(inspects) \in 1 .. job
    BY <2>2 DEF QueuesTyped
  <2>4. Len(inspects') <= InspectQueue
    BY <2>1, <2>2, DeliveryAssumption DEF QueuesTyped
  <2>5. CASE focus.window.accessible
    <3>1. inspector' = [d |-> Head(inspects), window |-> focus.window] /\ UNCHANGED <<reply, seen>>
      BY <1>3, <2>5 DEF inspect_current
    <3>2. focus.window # Isolated
      BY <2>5 DEF Isolated, Window
    <3>3. Head(inspects) \in 0 .. job
      BY <2>3 DEF CallerTyped
    <3> QED
      BY <1>1, <2>1, <2>2, <2>4, <3>1, <3>2, <3>3
  <2>6. CASE ~focus.window.accessible
    <3>1. /\ AnswerInspect(Head(inspects), "TargetInaccessible", Unseen) /\ inspector' = inspector
      BY <1>3, <2>6 DEF inspect_current
    <3>2. \/ UNCHANGED <<reply, seen>>
          \/ pc = "inspecting" /\ seen' = Unseen /\ reply' = "TargetInaccessible"
      BY <3>1 DEF AnswerInspect, Hears
    <3> QED
      BY <1>2, <2>1, <2>2, <2>4, <3>1, <3>2 DEF WorkersTyped, InspectAnswers
  <2> QED
    BY <2>5, <2>6
<1>4. CASE inspect_element
  <2>1. /\ inspector.d # 0 /\ inspector' = [d |-> 0, window |-> Editor] /\ inspects' = inspects
        /\ UNCHANGED <<desktop, job, pc, refusal, target, committing, clipboards, record, pastes>>
    BY <1>4 DEF inspect_element
  <2> DEFINE s == [window |-> inspector.window, field |-> focus.field, secure |-> secure]
  <2>2. s \in Seens /\ s.window # Isolated
    BY <1>1, <2>1 DEF Seens, CallerTyped, WorkersTyped, SeenIsAccessible
  <2>3. \/ AnswerInspect(inspector.d, "Unsupported", Unseen)
        \/ AnswerInspect(inspector.d, "ElementChanged", Unseen)
        \/ AnswerInspect(inspector.d, "ok", s)
    BY <1>4 DEF inspect_element
  <2> HIDE DEF s
  <2>4. \/ UNCHANGED <<reply, seen>>
        \/ /\ pc = "inspecting" /\ seen' = Unseen /\ reply' \in {"Unsupported", "ElementChanged"}
        \/ pc = "inspecting" /\ seen' = s /\ reply' = "ok"
    BY <2>3 DEF AnswerInspect, Hears
  <2>5. 0 \in 0 .. job
    BY DeliveryAssumption DEF CallerTyped
  <2> QED
    BY <1>2, <2>1, <2>2, <2>4, <2>5 DEF InspectAnswers, QueuesTyped
<1> QED
  BY <1>3, <1>4 DEF InspectorSteps

LEMMA InspectorKeeps ==
  ASSUME DeliveryInv, InspectorSteps
  PROVE  DeliveryInv'
<1> USE DEF desktop, committing, clipboards, record
<1>1. CallerTyped /\ QueuesTyped /\ WorkersTyped /\ RecordTyped /\ SeenIsAccessible
  BY DEF DeliveryInv
<1>2. /\ UNCHANGED <<desktop, job, pc, refusal, target, committing, clipboards, record, pastes>>
      /\ inspects' \in Seq(Nat) /\ Entries(inspects') \subseteq Entries(inspects)
      /\ Len(inspects') <= InspectQueue
      /\ inspector' \in [d : 0 .. job, window : Windows]
      /\ inspector'.d # 0 => inspector'.window # Isolated
      /\ \/ UNCHANGED <<reply, seen>>
         \/ /\ pc = "inspecting" /\ seen' \in Seens /\ reply' \in InspectAnswers
            /\ reply' = "ok" => seen'.window # Isolated
  BY <1>1, InspectorEffect
<1>3. CallerTyped' /\ QueuesTyped' /\ WorkersTyped' /\ RecordTyped'
  BY <1>1, <1>2 DEF CallerTyped, QueuesTyped, WorkersTyped, RecordTyped
<1>4. ReplyIsAwaited' /\ SeenIsAccessible' /\ RequestIsOfSeen'
  BY <1>2 DEF DeliveryInv, ReplyIsAwaited, SeenIsAccessible, RequestIsOfSeen
<1>5. CommitIsOnce' /\ CommitterKnows' /\ PlacedIsSet' /\ NoFallbackYet'
  BY <1>2 DEF DeliveryInv, CommitIsOnce, CommitterKnows, PlacedIsSet, NoFallbackYet
<1>6. Quiet(job)' <=> Quiet(job)
  BY <1>2 DEF Quiet
<1>7. QuietBefore' /\ SensitiveIsQuiet'
  BY <1>2, <1>6 DEF DeliveryInv, QuietBefore, SensitiveIsQuiet
<1>8. AnswerIsTrue'
  BY <1>2 DEF DeliveryInv, AnswerIsTrue
<1>9. ReportedIsDone' /\ PasteIsGuarded' /\ PasteCarriesTheText' /\ StoredWasSeen'
  BY <1>2 DEF DeliveryInv, ReportedIsDone, PasteIsGuarded, PasteCarriesTheText, StoredWasSeen
<1> QED
  BY <1>3, <1>4, <1>5, <1>7, <1>8, <1>9 DEF DeliveryInv

-----------------------------------------------------------------------------
(* The commit worker *)

(* What follows for everybody else from what a step of the worker does to the *)
(* requests of the dictation under way, and from the answer it gives.         *)
LEMMA CommitterFrame ==
  ASSUME DeliveryInv, CommitUnchanged, pastes \subseteq pastes', copies'["app"] = copies["app"],
         Quiet(job) => Quiet(job)',
         \/ UNCHANGED reply
         \/ /\ pc = "committing"
            /\ refusal_is_sensitive(reply') => Quiet(job)'
            /\ reply' = "ok" => \E p \in pastes' : p.d = job
            /\ classify_committed_refusal(reply') = "Cleared" => Storable(seen)
  PROVE  /\ CallerTyped' /\ ReplyIsAwaited' /\ SeenIsAccessible' /\ QuietBefore'
         /\ SensitiveIsQuiet' /\ NoFallbackYet' /\ AnswerIsTrue' /\ ReportedIsDone'
         /\ StoredWasSeen'
<1> USE DEF CommitUnchanged, desktop, inspection, record
<1>1. CallerTyped'
  BY DEF DeliveryInv, CallerTyped
<1>2. ReplyIsAwaited' /\ SeenIsAccessible'
  BY DEF DeliveryInv, ReplyIsAwaited, SeenIsAccessible
<1>3. QuietBefore'
  BY DEF DeliveryInv, QuietBefore
<1>4. SensitiveIsQuiet'
  BY DEF DeliveryInv, SensitiveIsQuiet
<1>5. NoFallbackYet'
  BY DEF DeliveryInv, NoFallbackYet
<1>6. AnswerIsTrue'
  BY DEF DeliveryInv, AnswerIsTrue
<1>7. ReportedIsDone' /\ StoredWasSeen'
  BY DEF DeliveryInv, ReportedIsDone, StoredWasSeen
<1> QED
  BY <1>1, <1>2, <1>3, <1>4, <1>5, <1>6, <1>7

LEMMA IdleFacts ==
  ASSUME CallerTyped
  PROVE  /\ Idle \in [step : CommitSteps, d : 0 .. job, seen : Seens, moved : BOOLEAN,
                      receipt : {"none", "ok", "ClipboardBusy"}]
         /\ Idle.step = "idle" /\ Idle.d = 0 /\ Idle.receipt = "none"
<1>1. Unseen \in Seens
  BY DEF Unseen, Seens, Windows, Fields
<1>2. 0 \in 0 .. job
  BY DeliveryAssumption DEF CallerTyped
<1> QED
  BY <1>1, <1>2 DEF Idle, CommitSteps

(* A refusal: only the preflight calls a target sensitive, and before it      *)
(* nothing was done for the dictation.                                        *)
LEMMA RefusalKeeps ==
  ASSUME DeliveryInv, NEW r, committer.step # "idle", CommitRefused(r), UNCHANGED commits,
         CommitUnchanged, r \notin {"none", "ok"},
         refusal_is_sensitive(r) => committer.step = "preflight",
         classify_committed_refusal(r) = "Cleared" =>
            classify_guard(snapshot_of(committer.seen)) \in {"ok", "ReadOnly"}
  PROVE  DeliveryInv'
<1> USE DEF CommitUnchanged, desktop, inspection, record
<1>1. CallerTyped /\ QueuesTyped /\ WorkersTyped /\ RecordTyped
  BY DEF DeliveryInv
<1>2. /\ committer' = Idle /\ UNCHANGED <<copies, pastes>>
      /\ \/ UNCHANGED reply
         \/ pc = "committing" /\ committer.d = job /\ reply' = r
  BY DEF CommitRefused, AnswerCommit, Hears
<1>3. committer'.step = "idle" /\ committer'.d = 0 /\ committer'.receipt = "none"
  BY <1>1, <1>2, IdleFacts
<1>4. committer.d \in 1 .. job /\ job # 0
  BY <1>1, DeliveryAssumption DEF WorkersTyped, CallerTyped
<1>5. committer'.d # job
  BY <1>3, <1>4
<1>6. Quiet(job) => Quiet(job)'
  BY <1>2, <1>5 DEF Quiet
<1>7. committer.step = "preflight" /\ committer.d = job => Quiet(job)'
  BY <1>2, <1>5 DEF DeliveryInv, CommitIsOnce, Quiet, Has, BeforeWriting
<1>8. pc = "committing" /\ committer.d = job /\ classify_committed_refusal(r) = "Cleared" =>
         Storable(seen)
  <2>1. committer.seen \in Seens
    BY <1>1 DEF WorkersTyped
  <2> QED
    BY <2>1, GuardFacts DEF DeliveryInv, RequestIsOfSeen, SeenIsAccessible, Storable
<1>9. /\ CallerTyped' /\ ReplyIsAwaited' /\ SeenIsAccessible' /\ QuietBefore'
      /\ SensitiveIsQuiet' /\ NoFallbackYet' /\ AnswerIsTrue' /\ ReportedIsDone'
      /\ StoredWasSeen'
  <2>1. \/ UNCHANGED reply
        \/ /\ pc = "committing"
           /\ refusal_is_sensitive(reply') => Quiet(job)'
           /\ reply' = "ok" => \E p \in pastes' : p.d = job
           /\ classify_committed_refusal(reply') = "Cleared" => Storable(seen)
    BY <1>2, <1>7, <1>8
  <2> QED
    BY <1>2, <1>6, <2>1, CommitterFrame
<1>10. QueuesTyped' /\ RecordTyped'
  BY <1>1, <1>2 DEF QueuesTyped, RecordTyped
<1>11. WorkersTyped'
  BY <1>1, <1>2, IdleFacts DEF WorkersTyped
<1>12. RequestIsOfSeen'
  BY <1>2, <1>4, <1>5 DEF DeliveryInv, RequestIsOfSeen
<1>13. CommitIsOnce'
  <2>1. \A e \in Entries(commits) : e.d # 0
    BY <1>1 DEF QueuesTyped
  <2> QED
    BY <1>2, <1>3, <2>1 DEF DeliveryInv, CommitIsOnce, BeforeWriting
<1>14. CommitterKnows' /\ PlacedIsSet'
  BY <1>2, <1>3 DEF DeliveryInv, CommitterKnows, GuardedSteps, BeforeWriting, PlacedIsSet
<1>15. PasteIsGuarded' /\ PasteCarriesTheText'
  BY <1>2 DEF DeliveryInv, PasteIsGuarded, PasteCarriesTheText
<1> QED
  BY <1>9, <1>10, <1>11, <1>12, <1>13, <1>14, <1>15 DEF DeliveryInv

(* The worker goes on with the same request. *)
LEMMA AdvanceKeeps ==
  ASSUME DeliveryInv, UNCHANGED <<commits, copies, pastes, reply>>, CommitUnchanged,
         NEW step \in CommitSteps \ {"idle"}, NEW moved \in BOOLEAN, committer.step # "idle",
         committer' = [committer EXCEPT !.step = step, !.moved = moved],
         step \in BeforeWriting => committer.step \in BeforeWriting,
         CommitterKnows'
  PROVE  DeliveryInv'
<1> USE DEF CommitUnchanged, desktop, inspection, record
<1>1. CallerTyped /\ QueuesTyped /\ WorkersTyped /\ RecordTyped
  BY DEF DeliveryInv
<1>2. /\ committer' \in [step : CommitSteps, d : 0 .. job, seen : Seens, moved : BOOLEAN,
                         receipt : {"none", "ok", "ClipboardBusy"}]
      /\ committer'.step = step /\ committer'.d = committer.d /\ committer'.seen = committer.seen
  BY <1>1 DEF WorkersTyped
<1>3. Quiet(job) => Quiet(job)'
  BY <1>2 DEF Quiet
<1>4. /\ CallerTyped' /\ ReplyIsAwaited' /\ SeenIsAccessible' /\ QuietBefore'
      /\ SensitiveIsQuiet' /\ NoFallbackYet' /\ AnswerIsTrue' /\ ReportedIsDone'
      /\ StoredWasSeen'
  BY <1>3, CommitterFrame
<1>5. QueuesTyped' /\ RecordTyped'
  BY <1>1 DEF QueuesTyped, RecordTyped
<1>6. WorkersTyped'
  BY <1>1, <1>2 DEF WorkersTyped
<1>7. RequestIsOfSeen' /\ CommitIsOnce'
  BY <1>2 DEF DeliveryInv, RequestIsOfSeen, CommitIsOnce, BeforeWriting
<1>8. PlacedIsSet' /\ PasteIsGuarded' /\ PasteCarriesTheText'
  BY DEF DeliveryInv, PlacedIsSet, PasteIsGuarded, PasteCarriesTheText
<1> QED
  BY <1>4, <1>5, <1>6, <1>7, <1>8 DEF DeliveryInv

(* Whether its next request is taken, or refused for want of a writer. *)
LEMMA TakeCommitKeeps ==
  ASSUME DeliveryInv, TakeCommit
  PROVE  DeliveryInv'
<1> USE DEF CommitUnchanged, desktop, inspection, record
<1>1. CallerTyped /\ QueuesTyped /\ WorkersTyped /\ RecordTyped
  BY DEF DeliveryInv
<1> DEFINE c == Head(commits)
<1>2. /\ committer.step = "idle" /\ commits # <<>> /\ commits' = Tail(commits) /\ CommitUnchanged
      /\ UNCHANGED <<copies, pastes>>
      /\ \/ /\ committer' = [Idle EXCEPT !.step = "preflight", !.d = c.d, !.seen = c.seen]
            /\ UNCHANGED reply
         \/ AnswerCommit(c.d, "Unsupported") /\ UNCHANGED committer
  BY DEF TakeCommit
<1>3. /\ Tail(commits) \in Seq(CommitRequests) /\ c \in CommitRequests
      /\ Len(Tail(commits)) = Len(commits) - 1 /\ Len(commits) \in Nat
      /\ Entries(commits) = {c} \cup Entries(Tail(commits))
      /\ Once(Tail(commits)) /\ ~Has(Tail(commits), c.d)
  BY <1>1, <1>2, Taken, LenProperties DEF QueuesTyped, DeliveryInv, CommitIsOnce
<1> HIDE DEF c
<1>4. c.d \in 1 .. job /\ c.seen \in Seens /\ c \in Entries(commits)
  BY <1>1, <1>3 DEF QueuesTyped, CommitRequests
<1>5. \/ /\ committer' \in [step : CommitSteps, d : 0 .. job, seen : Seens, moved : BOOLEAN,
                            receipt : {"none", "ok", "ClipboardBusy"}]
         /\ committer'.step = "preflight" /\ committer'.d = c.d /\ committer'.seen = c.seen
         /\ committer'.d # 0 /\ committer'.receipt = "none"
         /\ UNCHANGED reply
      \/ UNCHANGED committer /\ (UNCHANGED reply \/ (pc = "committing" /\ reply' = "Unsupported"))
  <2> DEFINE taken == [Idle EXCEPT !.step = "preflight", !.d = c.d, !.seen = c.seen]
  <2>1. c.d \in 0 .. job /\ c.d # 0
    BY <1>4
  <2>2. /\ taken \in [step : CommitSteps, d : 0 .. job, seen : Seens, moved : BOOLEAN,
                      receipt : {"none", "ok", "ClipboardBusy"}]
        /\ taken.step = "preflight" /\ taken.d = c.d /\ taken.seen = c.seen
        /\ taken.receipt = "none"
    BY <1>1, <1>4, <2>1, IdleFacts DEF CommitSteps
  <2> HIDE DEF taken
  <2>3. CASE committer' = taken /\ UNCHANGED reply
    BY <2>1, <2>2, <2>3
  <2>4. CASE AnswerCommit(c.d, "Unsupported") /\ UNCHANGED committer
    BY <2>4 DEF AnswerCommit, Hears
  <2> QED
    BY <1>2, <2>3, <2>4 DEF taken
<1>6. Quiet(job) => Quiet(job)'
  BY <1>2, <1>3, <1>4, <1>5 DEF Quiet, Has
<1>7. ~refusal_is_sensitive("Unsupported") /\ classify_committed_refusal("Unsupported") = "Unknown"
  BY DEF refusal_is_sensitive, classify_committed_refusal
<1>8. /\ CallerTyped' /\ ReplyIsAwaited' /\ SeenIsAccessible' /\ QuietBefore'
      /\ SensitiveIsQuiet' /\ NoFallbackYet' /\ AnswerIsTrue' /\ ReportedIsDone'
      /\ StoredWasSeen'
  BY <1>2, <1>5, <1>6, <1>7, CommitterFrame
<1>9. QueuesTyped' /\ RecordTyped'
  BY <1>1, <1>2, <1>3, DeliveryAssumption DEF QueuesTyped, RecordTyped
<1>10. WorkersTyped'
  BY <1>1, <1>2, <1>5 DEF WorkersTyped
<1>11. RequestIsOfSeen'
  BY <1>2, <1>3, <1>4, <1>5 DEF DeliveryInv, RequestIsOfSeen
<1>12. CommitIsOnce'
  BY <1>2, <1>3, <1>4, <1>5 DEF DeliveryInv, CommitIsOnce, Has
<1>13. CommitterKnows' /\ PlacedIsSet'
  BY <1>2, <1>5 DEF DeliveryInv, CommitterKnows, GuardedSteps, BeforeWriting, PlacedIsSet
<1>14. PasteIsGuarded' /\ PasteCarriesTheText'
  BY <1>2 DEF DeliveryInv, PasteIsGuarded, PasteCarriesTheText
<1> QED
  BY <1>8, <1>9, <1>10, <1>11, <1>12, <1>13, <1>14 DEF DeliveryInv

(* Which refusals are sensitive, and which clear the target. *)
LEMMA RefusalClasses ==
  /\ \A r \in Sensitive : refusal_is_sensitive(r) /\ classify_committed_refusal(r) = "Sensitive"
  /\ classify_committed_refusal("Unsupported") = "Unknown"
  /\ \A r \in {"ok", "ReadOnly", "Unsupported", "TargetInaccessible", "FocusChanged",
               "ProcessChanged", "WindowReused", "ElementChanged", "ModifierHeld",
               "ClipboardBusy", "AmbiguousInput"} : ~refusal_is_sensitive(r)
  BY DEF Sensitive, refusal_is_sensitive, classify_committed_refusal

LEMMA PreflightKeeps ==
  ASSUME DeliveryInv, Preflight
  PROVE  DeliveryInv'
<1> DEFINE guard == validate_focused_preflight(snapshot_of(committer.seen))
           r == IF guard = "ok" THEN Identified ELSE guard
<1>1. WorkersTyped /\ CallerTyped /\ CommitterKnows
  BY DEF DeliveryInv
<1>2. /\ committer.step = "preflight" /\ UNCHANGED commits /\ CommitUnchanged
      /\ IF r # "ok" THEN CommitRefused(r)
         ELSE /\ committer' = [committer EXCEPT !.step = "modifiers"]
              /\ UNCHANGED <<reply, copies, pastes>>
  BY DEF Preflight
<1>3. focus \in Places /\ committer.seen \in Seens
  BY <1>1 DEF WorkersTyped, CallerTyped
<1>4. /\ guard = "ok" => classify_guard(snapshot_of(committer.seen)) = "ok"
      /\ guard # "ok" => \/ guard = "Unsupported"
                         \/ /\ guard = classify_guard(snapshot_of(committer.seen))
                            /\ guard \in Sensitive \cup {"ReadOnly"}
  BY <1>3, PreflightFacts
<1>5. Identified \in {"ok", "TargetInaccessible", "FocusChanged", "ProcessChanged", "WindowReused"}
  BY <1>3, IdentifiedFacts
<1> HIDE DEF guard
<1>6. CASE r = "ok"
  <2>1. classify_guard(snapshot_of(committer.seen)) = "ok"
    BY <1>4, <1>6
  <2>2. committer' = [committer EXCEPT !.step = "modifiers", !.moved = committer.moved]
    BY <1>1, <1>2, <1>6 DEF WorkersTyped
  <2>3. /\ committer'.step = "modifiers" /\ committer'.seen = committer.seen
        /\ committer'.receipt = committer.receipt /\ committer.moved \in BOOLEAN
    BY <1>1, <2>2 DEF WorkersTyped
  <2>4. CommitterKnows'
    BY <1>1, <1>2, <2>1, <2>3 DEF BeforeWriting, CommitterKnows, GuardedSteps
  <2>5. "modifiers" \in CommitSteps \ {"idle"} /\ committer.step \in BeforeWriting
    BY <1>2 DEF CommitSteps, BeforeWriting
  <2> QED
    BY <1>2, <1>6, <2>2, <2>3, <2>4, <2>5, AdvanceKeeps
<1>7. CASE r # "ok"
  <2>1. r # "none"
    BY <1>4, <1>5, <1>7 DEF Sensitive
  <2>2. classify_committed_refusal(r) = "Cleared" =>
           classify_guard(snapshot_of(committer.seen)) \in {"ok", "ReadOnly"}
    BY <1>4, <1>7, RefusalClasses
  <2> HIDE DEF r
  <2> QED
    BY <1>2, <1>7, <2>1, <2>2, RefusalKeeps
<1> QED
  BY <1>6, <1>7

LEMMA ModifiersKeep ==
  ASSUME DeliveryInv, wait_for_activation_modifiers
  PROVE  DeliveryInv'
<1>1. WorkersTyped /\ CommitterKnows
  BY DEF DeliveryInv
<1>2. committer.step = "modifiers" /\ UNCHANGED commits /\ CommitUnchanged
  BY DEF wait_for_activation_modifiers
<1>3. classify_guard(snapshot_of(committer.seen)) = "ok"
  BY <1>1, <1>2 DEF CommitterKnows, GuardedSteps
<1>4. CASE CommitRefused("ModifierHeld")
  <2>1. ~refusal_is_sensitive("ModifierHeld")
    BY RefusalClasses
  <2> QED
    BY <1>2, <1>3, <1>4, <2>1, RefusalKeeps
<1>5. CASE committer' = [committer EXCEPT !.step = "recheck"] /\ UNCHANGED <<reply, copies, pastes>>
  <2>1. committer' = [committer EXCEPT !.step = "recheck", !.moved = committer.moved]
    BY <1>1, <1>5 DEF WorkersTyped
  <2>2. /\ committer'.step = "recheck" /\ committer'.seen = committer.seen
        /\ committer'.receipt = committer.receipt /\ committer.moved \in BOOLEAN
    BY <1>1, <2>1 DEF WorkersTyped
  <2>3. CommitterKnows'
    BY <1>1, <1>2, <1>3, <2>2 DEF BeforeWriting, CommitterKnows, GuardedSteps
  <2>4. "recheck" \in CommitSteps \ {"idle"} /\ committer.step \in BeforeWriting
    BY <1>2 DEF CommitSteps, BeforeWriting
  <2> QED
    BY <1>2, <1>5, <2>1, <2>2, <2>3, <2>4, AdvanceKeeps
<1> QED
  BY <1>4, <1>5 DEF wait_for_activation_modifiers

LEMMA VerifyKeeps ==
  ASSUME DeliveryInv, Verify
  PROVE  DeliveryInv'
<1> DEFINE receipt == IF committer.receipt = "none" THEN "Unsupported" ELSE committer.receipt
           r == IF receipt = "ok" THEN Identified ELSE receipt
<1>1. WorkersTyped /\ CallerTyped /\ CommitterKnows
  BY DEF DeliveryInv
<1>2. /\ committer.step = "writing" /\ UNCHANGED commits /\ CommitUnchanged
      /\ IF r # "ok" THEN CommitRefused(r)
         ELSE /\ committer' = [committer EXCEPT !.step = "send", !.moved = FALSE]
              /\ UNCHANGED <<reply, copies, pastes>>
  BY DEF Verify
<1>3. focus \in Places /\ committer.seen \in Seens
      /\ committer.receipt \in {"none", "ok", "ClipboardBusy"}
  BY <1>1 DEF WorkersTyped, CallerTyped
<1>4. /\ Identified \in {"ok", "TargetInaccessible", "FocusChanged", "ProcessChanged",
                         "WindowReused"}
      /\ Identified = "ok" => focus.window = committer.seen.window
  BY <1>3, IdentifiedFacts
<1>5. classify_guard(snapshot_of(committer.seen)) = "ok"
  BY <1>1, <1>2 DEF CommitterKnows, GuardedSteps
<1>6. CASE r = "ok"
  <2>1. committer.receipt = "ok" /\ focus.window = committer.seen.window
    BY <1>3, <1>4, <1>6
  <2>2. committer'.step = "send" /\ committer'.seen = committer.seen /\ committer'.d = committer.d
    BY <1>1, <1>2, <1>6 DEF WorkersTyped
  <2>3. /\ copies["commit"] = <<>>
        /\ clipboard.d = committer.d \/ clipboard.by \in Others
    BY <1>1, <1>2, <2>1 DEF CommitterKnows
  <2>4. UNCHANGED <<copies, clipboard, focus>>
    BY <1>2, <1>6 DEF CommitUnchanged, desktop
  <2>5. CommitterKnows'
    BY <1>5, <2>1, <2>2, <2>3, <2>4 DEF CommitterKnows, BeforeWriting
  <2>6. "send" \in CommitSteps \ {"idle"} /\ "send" \notin BeforeWriting
    BY DEF CommitSteps, BeforeWriting
  <2> QED
    BY <1>2, <1>6, <2>5, <2>6, AdvanceKeeps
<1>7. CASE r # "ok"
  <2>1. r \in {"Unsupported", "TargetInaccessible", "FocusChanged", "ProcessChanged",
               "WindowReused", "ClipboardBusy"}
    BY <1>3, <1>4, <1>7
  <2> HIDE DEF r
  <2>2. ~refusal_is_sensitive(r)
    BY <2>1, RefusalClasses
  <2> QED
    BY <1>2, <1>5, <1>7, <2>1, <2>2, RefusalKeeps
<1> QED
  BY <1>6, <1>7

(* The text is handed to the worker's own writer, last in its queue. *)
LEMMA WriteAskedKeeps ==
  ASSUME DeliveryInv, committer.step = "recheck", Len(copies["commit"]) < ClipboardQueue,
         copies' = [copies EXCEPT !["commit"] = Append(@, [d |-> committer.d, by |-> "commit"])],
         committer' = [committer EXCEPT !.step = "writing"],
         UNCHANGED <<reply, pastes, commits>>, CommitUnchanged
  PROVE  DeliveryInv'
<1> USE DEF CommitUnchanged, desktop, inspection, record
<1>1. CallerTyped /\ QueuesTyped /\ WorkersTyped /\ RecordTyped
  BY DEF DeliveryInv
<1> DEFINE c == [d |-> committer.d, by |-> "commit"]
<1>2. committer.d \in 1 .. job /\ c \in Copies /\ c.d = committer.d /\ c.by = "commit"
  BY <1>1, DeliveryAssumption DEF WorkersTyped, CallerTyped, Copies
<1> HIDE DEF c
<1>3. copies' = [copies EXCEPT !["commit"] = Append(@, c)]
  BY DEF c
<1>4. /\ copies' \in [Writers -> Seq(Copies)]
      /\ \A v \in Writers \ {"commit"} : copies'[v] = copies[v]
      /\ copies'["commit"] # <<>> /\ Entries(copies'["commit"]) = Entries(copies["commit"]) \cup {c}
      /\ Len(copies'["commit"]) <= ClipboardQueue
      /\ copies["commit"] # <<>> => Head(copies'["commit"]) = Head(copies["commit"])
      /\ EndsWith(copies'["commit"], committer.d)
      /\ Once(copies["commit"]) /\ ~Has(copies["commit"], committer.d) => Once(copies'["commit"])
  <2>1. "commit" \in Writers
    BY DEF Writers
  <2> QED
    BY <1>1, <1>2, <1>3, <2>1, CopyAsked
<1>5. copies'["app"] = copies["app"]
  BY <1>4 DEF Writers
<1>6. /\ committer' \in [step : CommitSteps, d : 0 .. job, seen : Seens, moved : BOOLEAN,
                         receipt : {"none", "ok", "ClipboardBusy"}]
      /\ committer'.step = "writing" /\ committer'.d = committer.d
      /\ committer'.seen = committer.seen /\ committer'.receipt = committer.receipt
  BY <1>1 DEF WorkersTyped, CommitSteps
<1>7. Quiet(job) => Quiet(job)'
  BY <1>2, <1>4, <1>6 DEF Quiet, Has
<1>8. /\ CallerTyped' /\ ReplyIsAwaited' /\ SeenIsAccessible' /\ QuietBefore'
      /\ SensitiveIsQuiet' /\ NoFallbackYet' /\ AnswerIsTrue' /\ ReportedIsDone'
      /\ StoredWasSeen'
  BY <1>5, <1>7, CommitterFrame
<1>9. QueuesTyped'
  <2>1. \A w \in Writers : \A e \in Entries(copies'[w]) : e.d \in 1 .. job
    BY <1>1, <1>2, <1>4, <1>5 DEF QueuesTyped, Writers
  <2>2. \A e \in Entries(copies'["commit"]) : e.by = "commit"
    BY <1>1, <1>2, <1>4 DEF QueuesTyped
  <2>3. \A w \in Writers : /\ placed[w] => copies'[w] # <<>>
                           /\ Len(copies'[w]) <= ClipboardQueue
    BY <1>1, <1>4, <1>5 DEF QueuesTyped, Writers
  <2> QED
    BY <1>1, <1>4, <1>5, <2>1, <2>2, <2>3 DEF QueuesTyped
<1>10. WorkersTyped' /\ RecordTyped'
  BY <1>1, <1>6 DEF WorkersTyped, RecordTyped
<1>11. RequestIsOfSeen'
  BY <1>6 DEF DeliveryInv, RequestIsOfSeen
<1>12. CommitIsOnce'
  BY <1>2, <1>4, <1>6 DEF DeliveryInv, CommitIsOnce, Has, BeforeWriting
<1>13. CommitterKnows'
  <2>1. classify_guard(snapshot_of(committer.seen)) = "ok"
    BY DEF DeliveryInv, CommitterKnows, GuardedSteps
  <2>2. committer.receipt = "none"
    BY DEF DeliveryInv, CommitterKnows, BeforeWriting
  <2> QED
    BY <1>4, <1>6, <2>1, <2>2 DEF CommitterKnows, BeforeWriting
<1>14. PlacedIsSet'
  BY <1>1, <1>4, <1>5 DEF DeliveryInv, PlacedIsSet, QueuesTyped, Writers
<1>15. PasteIsGuarded' /\ PasteCarriesTheText'
  BY DEF DeliveryInv, PasteIsGuarded, PasteCarriesTheText
<1> QED
  BY <1>8, <1>9, <1>10, <1>11, <1>12, <1>13, <1>14, <1>15 DEF DeliveryInv

LEMMA RecheckKeeps ==
  ASSUME DeliveryInv, Recheck
  PROVE  DeliveryInv'
<1>1. WorkersTyped /\ CallerTyped /\ CommitterKnows /\ QueuesTyped
  BY DEF DeliveryInv
<1>2. committer.step = "recheck" /\ UNCHANGED commits /\ CommitUnchanged
  BY DEF Recheck
<1>3. Identified \in {"ok", "TargetInaccessible", "FocusChanged", "ProcessChanged", "WindowReused"}
  BY <1>1, IdentifiedFacts DEF WorkersTyped, CallerTyped
<1>4. classify_guard(snapshot_of(committer.seen)) = "ok"
  BY <1>1, <1>2 DEF CommitterKnows, GuardedSteps
<1>5. ASSUME NEW r, CommitRefused(r),
             r \in {"TargetInaccessible", "FocusChanged", "ProcessChanged", "WindowReused",
                    "ClipboardBusy"}
      PROVE  DeliveryInv'
  <2>1. ~refusal_is_sensitive(r)
    BY <1>5, RefusalClasses
  <2> QED
    BY <1>2, <1>4, <1>5, <2>1, RefusalKeeps
<1>6. CASE Identified # "ok"
  BY <1>3, <1>5, <1>6 DEF Recheck
<1>7. CASE Identified = "ok" /\ Len(copies["commit"]) = ClipboardQueue
  BY <1>5, <1>7 DEF Recheck
<1>8. CASE Identified = "ok" /\ Len(copies["commit"]) # ClipboardQueue
  <2>1. Len(copies["commit"]) < ClipboardQueue
    <3>1. copies["commit"] \in Seq(Copies) /\ Len(copies["commit"]) <= ClipboardQueue
      BY <1>1 DEF QueuesTyped, Writers
    <3>2. Len(copies["commit"]) \in Nat /\ ClipboardQueue \in Nat
      BY <3>1, LenProperties, DeliveryAssumption
    <3> QED
      BY <1>8, <3>1, <3>2
  <2>2. /\ copies' = [copies EXCEPT !["commit"] = Append(@, [d |-> committer.d, by |-> "commit"])]
        /\ committer' = [committer EXCEPT !.step = "writing"]
        /\ UNCHANGED <<reply, pastes>>
    BY <1>8 DEF Recheck
  <2> QED
    BY <1>2, <2>1, <2>2, WriteAskedKeeps
<1> QED
  BY <1>6, <1>7, <1>8

LEMMA PasteKeeps ==
  ASSUME DeliveryInv, send_paste_shortcut
  PROVE  DeliveryInv'
<1> USE DEF CommitUnchanged, desktop, inspection, record
<1>1. CallerTyped /\ QueuesTyped /\ WorkersTyped /\ RecordTyped /\ CommitterKnows
  BY DEF DeliveryInv
<1> DEFINE paste == [d |-> committer.d, text |-> clipboard, place |-> focus,
                     seen |-> committer.seen, moved |-> committer.moved]
<1>2. PICK accepted \in 0 .. 4 :
         /\ AnswerCommit(committer.d, IF accepted = 4 THEN "ok" ELSE "AmbiguousInput")
         /\ pastes' = pastes \cup (IF accepted < 2 THEN {} ELSE {paste})
  BY DEF send_paste_shortcut
<1>3. /\ committer.step = "send" /\ committer' = Idle /\ UNCHANGED <<commits, copies>>
      /\ CommitUnchanged
  BY DEF send_paste_shortcut
<1>4. committer'.step = "idle" /\ committer'.d = 0 /\ committer'.receipt = "none"
  BY <1>1, <1>3, IdleFacts
<1>5. committer.d \in 1 .. job /\ job # 0
  BY <1>1, <1>3, DeliveryAssumption DEF WorkersTyped, CallerTyped
<1>6. /\ classify_guard(snapshot_of(paste.seen)) = "ok"
      /\ paste.moved \/ paste.place.window = paste.seen.window
      /\ paste.text.d = paste.d \/ paste.text.by \in Others
      /\ paste.d = committer.d
  BY <1>1, <1>3 DEF CommitterKnows, GuardedSteps
<1> HIDE DEF paste
<1>7. pastes \subseteq pastes' /\ pastes' \subseteq pastes \cup {paste}
  BY <1>2
<1>8. Quiet(job) => Quiet(job)'
  BY <1>3, <1>4, <1>5, <1>6, <1>7 DEF Quiet
<1>9. \/ UNCHANGED reply
      \/ /\ pc = "committing"
         /\ refusal_is_sensitive(reply') => Quiet(job)'
         /\ reply' = "ok" => \E p \in pastes' : p.d = job
         /\ classify_committed_refusal(reply') = "Cleared" => Storable(seen)
  <2>1. ASSUME pc = "committing", committer.d = job
        PROVE  Storable(seen)
    <3>1. committer.seen = seen /\ seen.window # Isolated
      BY <2>1 DEF DeliveryInv, RequestIsOfSeen, SeenIsAccessible
    <3>2. seen \in Seens /\ classify_guard(snapshot_of(seen)) = "ok"
      BY <1>1, <1>3, <3>1 DEF CommitterKnows, GuardedSteps, CallerTyped
    <3> QED
      BY <3>1, <3>2, GuardFacts DEF Storable
  <2>2. CASE accepted = 4
    <3>1. paste \in pastes'
      BY <1>2, <2>2
    <3>2. UNCHANGED reply \/ (pc = "committing" /\ committer.d = job /\ reply' = "ok")
      BY <1>2, <2>2 DEF AnswerCommit, Hears
    <3> QED
      BY <1>6, <2>1, <3>1, <3>2, RefusalClasses
  <2>3. CASE accepted # 4
    <3>1. \/ UNCHANGED reply
          \/ pc = "committing" /\ committer.d = job /\ reply' = "AmbiguousInput"
      BY <1>2, <2>3 DEF AnswerCommit, Hears
    <3> QED
      BY <2>1, <3>1, RefusalClasses
  <2> QED
    BY <2>2, <2>3
<1>10. /\ CallerTyped' /\ ReplyIsAwaited' /\ SeenIsAccessible' /\ QuietBefore'
       /\ SensitiveIsQuiet' /\ NoFallbackYet' /\ AnswerIsTrue' /\ ReportedIsDone'
       /\ StoredWasSeen'
  BY <1>3, <1>7, <1>8, <1>9, CommitterFrame
<1>11. QueuesTyped'
  BY <1>1, <1>3 DEF QueuesTyped
<1>12. WorkersTyped'
  BY <1>1, <1>3, IdleFacts DEF WorkersTyped
<1>13. RecordTyped'
  BY <1>1, <1>3, <1>5, <1>6, <1>7 DEF RecordTyped
<1>14. RequestIsOfSeen'
  BY <1>3, <1>4, <1>5 DEF DeliveryInv, RequestIsOfSeen
<1>15. CommitIsOnce'
  <2>1. \A e \in Entries(commits) : e.d # 0 /\ e.d # committer.d
    BY <1>1 DEF QueuesTyped, DeliveryInv, CommitIsOnce
  <2> QED
    BY <1>3, <1>4, <1>6, <1>7, <2>1 DEF DeliveryInv, CommitIsOnce, BeforeWriting
<1>16. CommitterKnows' /\ PlacedIsSet'
  BY <1>3, <1>4 DEF DeliveryInv, CommitterKnows, GuardedSteps, BeforeWriting, PlacedIsSet
<1>17. PasteIsGuarded' /\ PasteCarriesTheText'
  BY <1>6, <1>7 DEF DeliveryInv, PasteIsGuarded, PasteCarriesTheText, Others
<1> QED
  BY <1>10, <1>11, <1>12, <1>13, <1>14, <1>15, <1>16, <1>17 DEF DeliveryInv

CommitterWorks ==
    TakeCommit \/ Preflight \/ wait_for_activation_modifiers \/ Recheck \/ Verify
    \/ send_paste_shortcut

LEMMA CommitterKeeps ==
  ASSUME DeliveryInv, CommitterWorks
  PROVE  DeliveryInv'
  BY TakeCommitKeeps, PreflightKeeps, ModifiersKeep, RecheckKeeps, VerifyKeeps, PasteKeeps
     DEF CommitterWorks

-----------------------------------------------------------------------------
(* The clipboard writers *)

LEMMA HeadIsQueued ==
  ASSUME QueuesTyped, NEW w \in Writers, copies[w] # <<>>
  PROVE  /\ Head(copies[w]) \in Copies /\ Head(copies[w]) \in Entries(copies[w])
         /\ Head(copies[w]).d \in 1 .. job
         /\ w = "app" => Head(copies[w]).by \in {"user", "fallback"}
         /\ w = "commit" => Head(copies[w]).by = "commit"
<1>1. copies[w] \in Seq(Copies)
  BY DEF QueuesTyped
<1>2. Head(copies[w]) \in Copies /\ Head(copies[w]) \in Entries(copies[w])
  BY <1>1, Taken
<1> QED
  BY <1>2 DEF QueuesTyped, Copies

(* The text is set: the application's own writer is recorded to have set it. *)
LEMMA SetTextKeeps ==
  ASSUME DeliveryInv, NEW w \in Writers, SetText(w)
  PROVE  DeliveryInv'
<1> USE DEF desktop, caller, inspection, committing, record
<1>1. CallerTyped /\ QueuesTyped /\ WorkersTyped /\ RecordTyped
  BY DEF DeliveryInv
<1> DEFINE c == Head(copies[w])
<1>2. /\ copies[w] # <<>> /\ ~placed[w] /\ placed' = [placed EXCEPT ![w] = TRUE]
      /\ clipboard' = c
      /\ written' = written \cup ({c} \ {[d |-> d, by |-> "commit"] : d \in 1 .. job})
      /\ UNCHANGED <<desktop, caller, inspection, committing, copies, record, pastes>>
  BY DEF SetText
<1>3. /\ c \in Copies /\ c \in Entries(copies[w]) /\ c.d \in 1 .. job
      /\ w = "app" => c.by \in {"user", "fallback"}
      /\ w = "commit" => c.by = "commit"
  BY <1>1, <1>2, HeadIsQueued
<1> HIDE DEF c
<1>4. written \subseteq written' /\ written' \subseteq written \cup {c}
  BY <1>2
<1>5. w = "app" => c \in written'
  <2>1. ASSUME w = "app", NEW d \in 1 .. job, c = [d |-> d, by |-> "commit"]
        PROVE  FALSE
    BY <1>3, <2>1
  <2> QED
    BY <1>2, <2>1
<1>6. w = "commit" => written' = written
  <2>1. ASSUME w = "commit"
        PROVE  c = [d |-> c.d, by |-> "commit"]
    BY <1>3, <2>1 DEF Copies
  <2> QED
    BY <1>2, <1>3, <2>1
<1>7. /\ placed' \in [Writers -> BOOLEAN] /\ placed'[w]
      /\ \A v \in Writers \ {w} : placed'[v] = placed[v]
  BY <1>1, <1>2 DEF QueuesTyped
<1>8. CallerTyped' /\ WorkersTyped'
  BY <1>1, <1>2 DEF CallerTyped, WorkersTyped
<1>9. QueuesTyped'
  <2>1. \A v \in Writers : placed'[v] => copies[v] # <<>>
    BY <1>1, <1>2, <1>7 DEF QueuesTyped
  <2> QED
    BY <1>1, <1>2, <1>7, <2>1 DEF QueuesTyped
<1>10. RecordTyped'
  BY <1>1, <1>2, <1>3, <1>4 DEF RecordTyped, CallerTyped
<1>11. ReplyIsAwaited' /\ SeenIsAccessible' /\ RequestIsOfSeen' /\ CommitIsOnce'
  BY <1>2 DEF DeliveryInv, ReplyIsAwaited, SeenIsAccessible, RequestIsOfSeen, CommitIsOnce
<1>12. CommitterKnows'
  <2>1. w = "commit" => copies["commit"] # <<>>
    BY <1>2
  <2>2. w = "app" => clipboard'.by \in Others
    BY <1>2, <1>3 DEF Others
  <2>3. \/ clipboard'.by \in Others
        \/ copies["commit"] # <<>>
    BY <2>1, <2>2 DEF Writers
  <2> QED
    BY <1>2, <2>3 DEF DeliveryInv, CommitterKnows
<1>13. PlacedIsSet'
  <2>1. CASE w = "app"
    <3>1. clipboard'.by \in Others /\ Head(copies["app"]) \in written'
      BY <1>2, <1>3, <1>5, <2>1 DEF Others, c
    <3> QED
      BY <1>2, <3>1 DEF PlacedIsSet
  <2>2. CASE w = "commit"
    <3>1. clipboard' = Head(copies["commit"]) /\ placed'["app"] = placed["app"]
      BY <1>2, <1>7, <2>2 DEF Writers, c
    <3> QED
      BY <1>2, <1>4, <3>1 DEF DeliveryInv, PlacedIsSet
  <2> QED
    BY <2>1, <2>2 DEF Writers
<1>14. Quiet(job)' <=> Quiet(job)
  BY <1>2 DEF Quiet
<1>15. QuietBefore' /\ SensitiveIsQuiet'
  BY <1>2, <1>14 DEF DeliveryInv, QuietBefore, SensitiveIsQuiet
<1>16. NoFallbackYet'
  <2>1. CASE w = "app"
    <3>1. c \in Entries(copies["app"])
      BY <1>3, <2>1
    <3> QED
      BY <1>2, <1>4, <3>1 DEF DeliveryInv, NoFallbackYet
  <2>2. CASE w = "commit"
    BY <1>2, <1>6, <2>2 DEF DeliveryInv, NoFallbackYet
  <2> QED
    BY <2>1, <2>2 DEF Writers
<1>17. AnswerIsTrue' /\ ReportedIsDone' /\ StoredWasSeen'
  BY <1>2, <1>4 DEF DeliveryInv, AnswerIsTrue, ReportedIsDone, StoredWasSeen
<1>18. PasteIsGuarded' /\ PasteCarriesTheText'
  BY <1>2 DEF DeliveryInv, PasteIsGuarded, PasteCarriesTheText
<1> QED
  BY <1>8, <1>9, <1>10, <1>11, <1>12, <1>13, <1>15, <1>16, <1>17, <1>18 DEF DeliveryInv

(* What an answer of a writer changes: only the text it was about is gone, and *)
(* "ok" is said only of a text that was set.                                  *)
LEMMA WriterEffect ==
  ASSUME DeliveryInv, NEW w \in Writers, write_clipboard(w)
  PROVE  LET c == Head(copies[w])
         IN  /\ copies[w] # <<>> /\ copies' = [copies EXCEPT ![w] = Tail(@)]
             /\ placed' = [placed EXCEPT ![w] = FALSE]
             /\ UNCHANGED <<desktop, job, pc, seen, refusal, target, inspection, commits, expired,
                            judged, clipboard, written, record, pastes>>
             /\ \/ UNCHANGED reply
                \/ /\ w = "app" /\ c.by = "fallback" /\ pc = "copying" /\ job = c.d
                   /\ reply' # "none" /\ (reply' = "ok" => placed["app"])
             /\ \/ /\ UNCHANGED committer
                   /\ w = "commit" => ~(committer.step = "writing" /\ committer.d = c.d)
                \/ /\ w = "commit" /\ committer.step = "writing" /\ committer.d = c.d
                   /\ \/ /\ committer' = [committer EXCEPT !.receipt = "ok"]
                         /\ placed["commit"]
                      \/ committer' = [committer EXCEPT !.receipt = "ClipboardBusy"]
<1>1. CASE placed[w] /\ AnswerCopy(w, "ok")
  BY <1>1 DEF write_clipboard, AnswerCopy, Hears
<1>2. CASE AnswerCopy(w, "ClipboardBusy")
  BY <1>2 DEF write_clipboard, AnswerCopy, Hears
<1> QED
  BY <1>1, <1>2 DEF write_clipboard

LEMMA WriterKeeps ==
  ASSUME DeliveryInv, NEW w \in Writers, write_clipboard(w)
  PROVE  DeliveryInv'
<1> USE DEF desktop, inspection, record
<1>1. CallerTyped /\ QueuesTyped /\ WorkersTyped /\ RecordTyped
  BY DEF DeliveryInv
<1> DEFINE c == Head(copies[w])
<1>2. /\ copies[w] # <<>> /\ copies' = [copies EXCEPT ![w] = Tail(@)]
      /\ placed' = [placed EXCEPT ![w] = FALSE]
      /\ UNCHANGED <<desktop, job, pc, seen, refusal, target, inspection, commits, expired,
                     clipboard, written, record, pastes>>
      /\ \/ UNCHANGED reply
         \/ /\ w = "app" /\ c.by = "fallback" /\ pc = "copying" /\ job = c.d
            /\ reply' # "none" /\ (reply' = "ok" => placed["app"])
      /\ \/ /\ UNCHANGED committer
            /\ w = "commit" => ~(committer.step = "writing" /\ committer.d = c.d)
         \/ /\ w = "commit" /\ committer.step = "writing" /\ committer.d = c.d
            /\ \/ /\ committer' = [committer EXCEPT !.receipt = "ok"]
                  /\ placed["commit"]
               \/ committer' = [committer EXCEPT !.receipt = "ClipboardBusy"]
  BY WriterEffect
<1>3. /\ copies' \in [Writers -> Seq(Copies)] /\ c \in Copies
      /\ \A v \in Writers \ {w} : copies'[v] = copies[v]
      /\ copies'[w] = Tail(copies[w])
      /\ Entries(copies[w]) = {c} \cup Entries(copies'[w])
      /\ Len(copies'[w]) <= ClipboardQueue
      /\ Once(copies[w]) => Once(copies'[w])
  BY <1>1, <1>2, CopyTaken
<1>4. \A v \in Writers : Entries(copies'[v]) \subseteq Entries(copies[v])
  BY <1>3
<1>5. /\ placed' \in [Writers -> BOOLEAN] /\ ~placed'[w]
      /\ \A v \in Writers \ {w} : placed'[v] = placed[v]
  BY <1>1, <1>2 DEF QueuesTyped
<1>6. /\ committer' \in [step : CommitSteps, d : 0 .. job, seen : Seens, moved : BOOLEAN,
                         receipt : {"none", "ok", "ClipboardBusy"}]
      /\ committer'.step = committer.step /\ committer'.d = committer.d
      /\ committer'.seen = committer.seen /\ committer'.moved = committer.moved
  BY <1>1, <1>2 DEF WorkersTyped
<1>7. "app" \in Writers /\ "commit" \in Writers
  BY DEF Writers
<1>8. CallerTyped' /\ WorkersTyped' /\ RecordTyped'
  BY <1>1, <1>2, <1>6 DEF CallerTyped, WorkersTyped, RecordTyped
<1>9. QueuesTyped'
  <2>1. \A v \in Writers : /\ \A e \in Entries(copies'[v]) : e.d \in 1 .. job
                           /\ Len(copies'[v]) <= ClipboardQueue
    BY <1>1, <1>3, <1>4 DEF QueuesTyped
  <2>2. /\ \A e \in Entries(copies'["app"]) : e.by # "commit"
        /\ \A e \in Entries(copies'["commit"]) : e.by = "commit"
    BY <1>1, <1>4, <1>7 DEF QueuesTyped
  <2>3. \A v \in Writers : placed'[v] => copies'[v] # <<>>
    BY <1>1, <1>3, <1>5 DEF QueuesTyped
  <2> QED
    BY <1>1, <1>2, <1>3, <1>5, <2>1, <2>2, <2>3 DEF QueuesTyped
<1>10. ReplyIsAwaited' /\ SeenIsAccessible'
  BY <1>2 DEF DeliveryInv, ReplyIsAwaited, SeenIsAccessible
<1>11. RequestIsOfSeen'
  BY <1>2, <1>6 DEF DeliveryInv, RequestIsOfSeen
<1>12. CommitIsOnce'
  <2>1. Once(copies'["commit"])
    BY <1>3, <1>7 DEF DeliveryInv, CommitIsOnce
  <2>2. \A d : Has(copies'["commit"], d) => Has(copies["commit"], d)
    BY <1>4, <1>7 DEF Has
  <2> QED
    BY <1>2, <1>6, <2>1, <2>2 DEF DeliveryInv, CommitIsOnce
<1>13. CommitterKnows'
  <2>1. committer.step \in GuardedSteps => classify_guard(snapshot_of(committer.seen)) = "ok"
    BY DEF DeliveryInv, CommitterKnows
  <2>2. committer.step \in BeforeWriting => committer'.receipt = "none"
    BY <1>2 DEF DeliveryInv, CommitterKnows, BeforeWriting
  <2>3. committer.step = "send" => committer.moved \/ focus.window = committer.seen.window
    BY DEF DeliveryInv, CommitterKnows
  <2>4. CASE w = "app"
    <3>1. UNCHANGED committer /\ copies'["commit"] = copies["commit"]
      BY <1>2, <1>3, <1>7, <2>4
    <3> QED
      BY <1>2, <3>1 DEF DeliveryInv, CommitterKnows
  <2>5. CASE w = "commit"
    <3>1. ~(committer.step = "send" \/ (committer.step = "writing" /\ committer.receipt # "none"))
      BY <1>2, <2>5 DEF DeliveryInv, CommitterKnows
    <3>2. ASSUME committer.step = "writing", committer.receipt = "none"
          PROVE  /\ EndsWith(copies["commit"], committer.d) /\ Once(copies["commit"])
                 /\ copies["commit"] \in Seq(Copies)
      BY <1>1, <1>7, <3>2 DEF DeliveryInv, CommitterKnows, CommitIsOnce, QueuesTyped
    <3>3. CASE UNCHANGED committer /\ ~(committer.step = "writing" /\ committer.d = c.d)
      <4>1. ASSUME committer.step = "writing", committer.receipt = "none"
            PROVE  EndsWith(copies'["commit"], committer.d)
        <5>1. Head(copies["commit"]).d # committer.d
          BY <2>5, <3>3, <4>1
        <5>2. copies["commit"] \in Seq(Copies) /\ EndsWith(copies["commit"], committer.d)
              /\ Once(copies["commit"])
          BY <3>2, <4>1
        <5>3. EndsWith(Tail(copies["commit"]), committer.d)
          BY <5>1, <5>2, LastIsTakenLast
        <5> QED
          BY <1>3, <2>5, <5>3
      <4> QED
        BY <1>2, <2>1, <2>2, <3>1, <3>3, <4>1 DEF CommitterKnows
    <3>4. ASSUME committer.step = "writing", committer.d = c.d
          PROVE  copies'["commit"] = <<>>
      BY <1>3, <2>5, <3>1, <3>2, <3>4, LastIsTakenLast
    <3>5. CASE /\ committer' = [committer EXCEPT !.receipt = "ClipboardBusy"]
               /\ committer.step = "writing" /\ committer.d = c.d
      <4>1. committer'.receipt = "ClipboardBusy"
        BY <1>1, <3>5 DEF WorkersTyped
      <4> QED
        BY <1>2, <1>6, <2>1, <2>2, <2>3, <3>5, <3>4, <4>1 DEF CommitterKnows
    <3>6. CASE /\ committer' = [committer EXCEPT !.receipt = "ok"] /\ committer.step = "writing"
               /\ placed["commit"] /\ committer.d = c.d
      <4>1. committer'.receipt = "ok"
        BY <1>1, <3>6 DEF WorkersTyped
      <4>2. clipboard = c \/ clipboard.by \in Others
        BY <2>5, <3>6 DEF DeliveryInv, PlacedIsSet
      <4>3. copies'["commit"] = <<>>
        BY <3>6, <3>4
      <4> QED
        BY <1>2, <1>6, <2>1, <2>2, <2>3, <3>6, <4>1, <4>2, <4>3 DEF CommitterKnows
    <3> QED
      BY <1>2, <2>5, <3>3, <3>5, <3>6
  <2> QED
    BY <2>4, <2>5 DEF Writers
<1>14. PlacedIsSet'
  <2>1. CASE w = "app"
    BY <1>2, <1>3, <1>5, <1>7, <2>1 DEF DeliveryInv, PlacedIsSet
  <2>2. CASE w = "commit"
    BY <1>2, <1>3, <1>5, <1>7, <2>2 DEF DeliveryInv, PlacedIsSet
  <2> QED
    BY <2>1, <2>2 DEF Writers
<1>15. Quiet(job) => Quiet(job)'
  BY <1>2, <1>4, <1>6, <1>7 DEF Quiet, Has
<1>16. QuietBefore' /\ SensitiveIsQuiet'
  BY <1>2, <1>15 DEF DeliveryInv, QuietBefore, SensitiveIsQuiet
<1>17. NoFallbackYet'
  BY <1>2, <1>4, <1>7 DEF DeliveryInv, NoFallbackYet
<1>18. AnswerIsTrue'
  <2>1. ASSUME w = "app", c.by = "fallback", job = c.d, placed["app"]
        PROVE  Fallback(job) \in written
    <3>1. c = Fallback(job)
      BY <1>3, <2>1 DEF Fallback, Copies
    <3> QED
      BY <2>1, <3>1 DEF DeliveryInv, PlacedIsSet
  <2> QED
    BY <1>2, <2>1 DEF DeliveryInv, AnswerIsTrue
<1>19. ReportedIsDone' /\ StoredWasSeen' /\ PasteIsGuarded' /\ PasteCarriesTheText'
  BY <1>2 DEF DeliveryInv, ReportedIsDone, StoredWasSeen, PasteIsGuarded, PasteCarriesTheText
<1> QED
  BY <1>8, <1>9, <1>10, <1>11, <1>12, <1>13, <1>14, <1>16, <1>17, <1>18, <1>19 DEF DeliveryInv

-----------------------------------------------------------------------------
(* The finalization thread *)

(* What it leaves to the workers when it puts nothing in a queue. *)
LEMMA NothingAsked ==
  ASSUME DeliveryInv,
         UNCHANGED <<desktop, job, inspection, commits, committer, expired, clipboards, pastes>>
  PROVE  /\ QueuesTyped' /\ WorkersTyped' /\ CommitIsOnce' /\ CommitterKnows' /\ PlacedIsSet'
         /\ PasteIsGuarded' /\ PasteCarriesTheText' /\ (Quiet(job)' <=> Quiet(job))
<1> USE DEF desktop, inspection, clipboards
<1>1. QueuesTyped' /\ WorkersTyped'
  BY DEF DeliveryInv, QueuesTyped, WorkersTyped
<1>2. CommitIsOnce' /\ CommitterKnows' /\ PlacedIsSet'
  BY DEF DeliveryInv, CommitIsOnce, CommitterKnows, PlacedIsSet
<1>3. PasteIsGuarded' /\ PasteCarriesTheText'
  BY DEF DeliveryInv, PasteIsGuarded, PasteCarriesTheText
<1>4. Quiet(job)' <=> Quiet(job)
  BY DEF Quiet
<1> QED
  BY <1>1, <1>2, <1>3, <1>4

LEMMA UnseenFacts == Unseen \in Seens /\ Unseen.window = Isolated
  BY DEF Unseen, Seens, Windows, Fields

(* The next dictation's turn: nothing anywhere is about it. *)
LEMMA TranscribedKeeps ==
  ASSUME DeliveryInv, Transcribed
  PROVE  DeliveryInv'
<1> USE DEF desktop, inspection, committing, clipboards
<1>1. CallerTyped /\ QueuesTyped /\ WorkersTyped /\ RecordTyped
  BY DEF DeliveryInv
<1>2. /\ pc = "idle" /\ job < Dictations /\ job' = job + 1
      /\ UNCHANGED <<desktop, seen, reply, refusal, inspection, committing, clipboards, stored,
                     pastes>>
      /\ \/ /\ outcome' = [outcome EXCEPT ![job'] = "held"]
            /\ \/ pc' = "idle" /\ target' = target
               \/ pc' = "persist" /\ target' = "NotAttempted"
         \/ UNCHANGED <<outcome, target>> /\ pc' = "inspect"
  BY DEF Transcribed
<1>3. job \in Nat /\ job' \in 1 .. Dictations /\ \A d \in 1 .. job : d \in 1 .. job' /\ d # job'
  BY <1>1, <1>2, DeliveryAssumption DEF CallerTyped
<1>4. reply = "none" /\ target # "Sensitive" /\ target # "Cleared"
  BY <1>2 DEF DeliveryInv, ReplyIsAwaited, SensitiveIsQuiet, AnswerIsTrue
<1>5. CallerTyped'
  BY <1>1, <1>2, <1>3, DeliveryAssumption DEF CallerTyped
<1>6. QueuesTyped'
  BY <1>1, <1>2, <1>3 DEF QueuesTyped
<1>7. WorkersTyped'
  <2>1. \A d \in 0 .. job : d \in 0 .. job'
    BY <1>2, <1>3
  <2>2. inspector.d \in 0 .. job' /\ committer.d \in 0 .. job' /\ expired \subseteq 1 .. job'
    BY <1>1, <1>3, <2>1 DEF WorkersTyped
  <2>3. inspector \in [d : 0 .. job', window : Windows]
    BY <1>1, <2>2 DEF WorkersTyped
  <2>4. committer \in [step : CommitSteps, d : 0 .. job', seen : Seens, moved : BOOLEAN,
                       receipt : {"none", "ok", "ClipboardBusy"}]
    BY <1>1, <2>2 DEF WorkersTyped
  <2> QED
    BY <1>1, <1>2, <2>2, <2>3, <2>4 DEF WorkersTyped
<1>8. RecordTyped'
  BY <1>1, <1>2, <1>3 DEF RecordTyped
<1>9. ReplyIsAwaited' /\ SeenIsAccessible' /\ RequestIsOfSeen'
  BY <1>2, <1>4 DEF DeliveryInv, ReplyIsAwaited, SeenIsAccessible, RequestIsOfSeen
<1>10. CommitIsOnce' /\ CommitterKnows' /\ PlacedIsSet'
  BY <1>2 DEF DeliveryInv, CommitIsOnce, CommitterKnows, PlacedIsSet
<1>11. Quiet(job)'
  <2>1. committer.d # job'
    BY <1>1, <1>2, <1>3 DEF WorkersTyped
  <2>2. (\A p \in pastes : p.d # job') /\ (\A e \in Entries(commits) : e.d # job')
    BY <1>1, <1>3 DEF RecordTyped, QueuesTyped
  <2>3. \A e \in Entries(copies["commit"]) : e.d # job'
    BY <1>1, <1>3 DEF QueuesTyped, Writers
  <2> QED
    BY <1>2, <2>1, <2>2, <2>3 DEF Quiet, Has
<1>12. QuietBefore' /\ SensitiveIsQuiet'
  BY <1>2, <1>4, <1>11 DEF QuietBefore, SensitiveIsQuiet
<1>13. NoFallbackYet'
  <2>1. Fallback(job').d = job'
    BY DEF Fallback
  <2>2. \A e \in Entries(copies["app"]) : e.d # job'
    BY <1>1, <1>3 DEF QueuesTyped, Writers
  <2>3. \A e \in written : e.d # job'
    BY <1>1, <1>3 DEF RecordTyped
  <2> QED
    BY <1>2, <2>1, <2>2, <2>3 DEF NoFallbackYet, Fallback
<1>14. AnswerIsTrue'
  BY <1>2, <1>4 DEF AnswerIsTrue
<1>15. ReportedIsDone'
  <2>1. \A d \in 1 .. Dictations : outcome'[d] = outcome[d] \/ outcome'[d] = "held"
    BY <1>1, <1>2, <1>3 DEF RecordTyped
  <2> QED
    BY <1>2, <2>1 DEF DeliveryInv, ReportedIsDone
<1>16. StoredWasSeen' /\ PasteIsGuarded' /\ PasteCarriesTheText'
  BY <1>2 DEF DeliveryInv, StoredWasSeen, PasteIsGuarded, PasteCarriesTheText
<1> QED
  BY <1>5, <1>6, <1>7, <1>8, <1>9, <1>10, <1>11, <1>12, <1>13, <1>14, <1>15, <1>16
     DEF DeliveryInv

(* The delivery to the target is given up, for whatever reason. *)
LEMMA GivesUpKeeps ==
  ASSUME DeliveryInv, pc \in {"inspect", "inspecting", "submit", "committing"},
         pc' = "fallback", reply' = "none", target' \in {"Sensitive", "Unknown", "Cleared"},
         target' = "Sensitive" => Quiet(job) /\ refusal_is_sensitive(refusal'),
         target' = "Cleared" => Storable(seen),
         UNCHANGED <<desktop, job, seen, inspection, committing, clipboards, record, pastes>>
  PROVE  DeliveryInv'
<1> USE DEF desktop, inspection, committing, clipboards, record
<1>1. CallerTyped' /\ RecordTyped'
  BY DEF DeliveryInv, CallerTyped, RecordTyped
<1>2. /\ QueuesTyped' /\ WorkersTyped' /\ CommitIsOnce' /\ CommitterKnows' /\ PlacedIsSet'
      /\ PasteIsGuarded' /\ PasteCarriesTheText' /\ (Quiet(job)' <=> Quiet(job))
  BY NothingAsked
<1>3. ReplyIsAwaited' /\ SeenIsAccessible' /\ RequestIsOfSeen'
  BY DEF DeliveryInv, ReplyIsAwaited, SeenIsAccessible, RequestIsOfSeen
<1>4. QuietBefore' /\ SensitiveIsQuiet'
  BY <1>2 DEF QuietBefore, SensitiveIsQuiet
<1>5. NoFallbackYet'
  BY DEF DeliveryInv, NoFallbackYet
<1>6. AnswerIsTrue' /\ ReportedIsDone' /\ StoredWasSeen'
  BY DEF DeliveryInv, AnswerIsTrue, ReportedIsDone, StoredWasSeen
<1> QED
  BY <1>1, <1>2, <1>3, <1>4, <1>5, <1>6 DEF DeliveryInv

LEMMA AskInspectorKeeps ==
  ASSUME DeliveryInv, AskInspector
  PROVE  DeliveryInv'
<1>1. CallerTyped /\ QueuesTyped /\ WorkersTyped /\ RecordTyped
  BY DEF DeliveryInv
<1>2. pc = "inspect" /\ UNCHANGED <<desktop, job, seen, reply, inspector, committing, clipboards,
                                    record, pastes>>
  BY DEF AskInspector
<1>3. reply = "none"
  BY <1>2 DEF DeliveryInv, ReplyIsAwaited
<1>4. CASE Len(inspects) < InspectQueue
  <2> USE DEF desktop, committing, clipboards, record
  <2>1. inspects' = Append(inspects, job) /\ pc' = "inspecting" /\ UNCHANGED <<refusal, target>>
    BY <1>4 DEF AskInspector
  <2>2. job \in Nat /\ job \in 1 .. job
    BY <1>1, <1>2, DeliveryAssumption DEF CallerTyped
  <2>3. /\ inspects' \in Seq(Nat) /\ Len(inspects') = Len(inspects) + 1 /\ Len(inspects) \in Nat
        /\ Entries(inspects') = Entries(inspects) \cup {job}
    BY <1>1, <2>1, <2>2, Appended, LenProperties DEF QueuesTyped
  <2>4. Len(inspects') <= InspectQueue
    BY <1>4, <2>3, DeliveryAssumption
  <2>5. QueuesTyped'
    BY <1>1, <1>2, <2>2, <2>3, <2>4 DEF QueuesTyped
  <2>6. CallerTyped' /\ WorkersTyped' /\ RecordTyped'
    BY <1>1, <1>2, <2>1 DEF CallerTyped, WorkersTyped, RecordTyped
  <2>7. ReplyIsAwaited' /\ SeenIsAccessible' /\ RequestIsOfSeen'
    BY <1>2, <1>3, <2>1 DEF DeliveryInv, ReplyIsAwaited, SeenIsAccessible, RequestIsOfSeen
  <2>8. CommitIsOnce' /\ CommitterKnows' /\ PlacedIsSet'
    BY <1>2 DEF DeliveryInv, CommitIsOnce, CommitterKnows, PlacedIsSet
  <2>9. Quiet(job)' <=> Quiet(job)
    BY <1>2 DEF Quiet
  <2>10. QuietBefore' /\ SensitiveIsQuiet'
    BY <1>2, <2>1, <2>9 DEF DeliveryInv, QuietBefore, SensitiveIsQuiet
  <2>11. NoFallbackYet' /\ AnswerIsTrue'
    BY <1>2, <2>1 DEF DeliveryInv, NoFallbackYet, AnswerIsTrue
  <2>12. ReportedIsDone' /\ StoredWasSeen' /\ PasteIsGuarded' /\ PasteCarriesTheText'
    BY <1>2 DEF DeliveryInv, ReportedIsDone, StoredWasSeen, PasteIsGuarded, PasteCarriesTheText
  <2> QED
    BY <2>5, <2>6, <2>7, <2>8, <2>10, <2>11, <2>12 DEF DeliveryInv
<1>5. CASE ~(Len(inspects) < InspectQueue)
  <2>1. refusal' = "Unsupported" /\ target' = "Unknown" /\ pc' = "fallback" /\ inspects' = inspects
    BY <1>5 DEF AskInspector
  <2>2. UNCHANGED inspection
    BY <1>2, <2>1 DEF inspection
  <2> QED
    BY <1>2, <1>3, <2>1, <2>2, GivesUpKeeps
<1> QED
  BY <1>4, <1>5

LEMMA InspectorRefusedKeeps ==
  ASSUME DeliveryInv, pc = "inspecting", NEW r, InspectorRefused(r)
  PROVE  DeliveryInv'
<1>1. Quiet(job)
  BY DEF DeliveryInv, QuietBefore
<1>2. /\ refusal' = r /\ pc' = "fallback" /\ reply' = "none"
      /\ target' = (IF refusal_is_sensitive(r) THEN "Sensitive" ELSE "Unknown")
      /\ UNCHANGED <<desktop, job, seen, inspection, committing, clipboards, record, pastes>>
  BY DEF InspectorRefused
<1>3. /\ target' \in {"Sensitive", "Unknown", "Cleared"} /\ target' # "Cleared"
      /\ target' = "Sensitive" => refusal_is_sensitive(refusal')
  BY <1>2
<1> QED
  BY <1>1, <1>2, <1>3, GivesUpKeeps

LEMMA InspectAnsweredKeeps ==
  ASSUME DeliveryInv, InspectAnswered
  PROVE  DeliveryInv'
<1>1. pc = "inspecting"
  BY DEF InspectAnswered
<1>2. CASE InspectorRefused(reply)
  BY <1>1, <1>2, InspectorRefusedKeeps
<1>3. CASE /\ reply = "ok" /\ pc' = "submit" /\ reply' = "none"
           /\ UNCHANGED <<desktop, job, seen, refusal, target, inspection, committing, clipboards,
                          record, pastes>>
  <2> USE DEF desktop, inspection, committing, clipboards, record
  <2>1. CallerTyped' /\ RecordTyped'
    BY <1>1, <1>3 DEF DeliveryInv, CallerTyped, RecordTyped
  <2>2. /\ QueuesTyped' /\ WorkersTyped' /\ CommitIsOnce' /\ CommitterKnows' /\ PlacedIsSet'
        /\ PasteIsGuarded' /\ PasteCarriesTheText' /\ (Quiet(job)' <=> Quiet(job))
    BY <1>3, NothingAsked
  <2>3. ReplyIsAwaited' /\ SeenIsAccessible' /\ RequestIsOfSeen'
    BY <1>1, <1>3 DEF DeliveryInv, ReplyIsAwaited, SeenIsAccessible, RequestIsOfSeen
  <2>4. QuietBefore' /\ SensitiveIsQuiet'
    BY <1>1, <1>3, <2>2 DEF DeliveryInv, QuietBefore, SensitiveIsQuiet
  <2>5. NoFallbackYet' /\ AnswerIsTrue' /\ ReportedIsDone' /\ StoredWasSeen'
    BY <1>1, <1>3 DEF DeliveryInv, NoFallbackYet, AnswerIsTrue, ReportedIsDone, StoredWasSeen
  <2> QED
    BY <2>1, <2>2, <2>3, <2>4, <2>5 DEF DeliveryInv
<1> QED
  BY <1>2, <1>3 DEF InspectAnswered

LEMMA InspectTimesOutKeeps ==
  ASSUME DeliveryInv, InspectTimesOut
  PROVE  DeliveryInv'
  BY InspectorRefusedKeeps DEF InspectTimesOut

(* The commit of the dictation under way is asked for: the only one of it. *)
LEMMA write_focusedKeeps ==
  ASSUME DeliveryInv, write_focused
  PROVE  DeliveryInv'
<1>1. CallerTyped /\ QueuesTyped /\ WorkersTyped /\ RecordTyped
  BY DEF DeliveryInv
<1>2. /\ pc = "submit"
      /\ UNCHANGED <<desktop, job, seen, reply, inspection, committer, expired, judged, clipboards,
                     record, pastes>>
  BY DEF write_focused
<1>3. reply = "none" /\ Quiet(job) /\ seen.window # Isolated
  BY <1>2 DEF DeliveryInv, ReplyIsAwaited, QuietBefore, SeenIsAccessible
<1>4. CASE Len(commits) < CommitQueue
  <2> USE DEF desktop, inspection, clipboards, record
  <2> DEFINE c == [d |-> job, seen |-> seen]
  <2>1. commits' = Append(commits, c) /\ pc' = "committing" /\ UNCHANGED <<refusal, target>>
    BY <1>4 DEF write_focused
  <2>2. c \in CommitRequests /\ c.d = job /\ c.seen = seen /\ job \in 1 .. job
    BY <1>1, <1>2, DeliveryAssumption DEF CallerTyped, CommitRequests
  <2> HIDE DEF c
  <2>3. /\ commits' \in Seq(CommitRequests) /\ Len(commits') = Len(commits) + 1
        /\ Entries(commits') = Entries(commits) \cup {c} /\ Len(commits) \in Nat
        /\ Once(commits) /\ ~Has(commits, job) => Once(commits')
    BY <1>1, <2>1, <2>2, Appended, LenProperties DEF QueuesTyped
  <2>4. Len(commits') <= CommitQueue
    BY <1>4, <2>3, DeliveryAssumption
  <2>5. QueuesTyped'
    BY <1>1, <1>2, <2>2, <2>3, <2>4 DEF QueuesTyped
  <2>6. CallerTyped' /\ WorkersTyped' /\ RecordTyped'
    BY <1>1, <1>2, <2>1 DEF CallerTyped, WorkersTyped, RecordTyped
  <2>7. ReplyIsAwaited' /\ SeenIsAccessible'
    BY <1>2, <1>3, <2>1 DEF DeliveryInv, ReplyIsAwaited, SeenIsAccessible
  <2>8. RequestIsOfSeen'
    BY <1>2, <1>3, <2>2, <2>3 DEF Quiet, Has, RequestIsOfSeen
  <2>9. CommitIsOnce'
    BY <1>2, <1>3, <2>2, <2>3 DEF DeliveryInv, CommitIsOnce, Quiet
  <2>10. CommitterKnows' /\ PlacedIsSet'
    BY <1>2 DEF DeliveryInv, CommitterKnows, PlacedIsSet
  <2>11. target # "Sensitive" /\ target # "Cleared"
    BY <1>2 DEF DeliveryInv, SensitiveIsQuiet, AnswerIsTrue
  <2>12. ~refusal_is_sensitive("none")
    BY DEF refusal_is_sensitive
  <2>13. QuietBefore' /\ SensitiveIsQuiet'
    BY <1>2, <1>3, <2>1, <2>11, <2>12 DEF QuietBefore, SensitiveIsQuiet
  <2>14. NoFallbackYet' /\ AnswerIsTrue'
    BY <1>2, <1>3, <2>1, <2>11 DEF DeliveryInv, NoFallbackYet, AnswerIsTrue
  <2>15. ReportedIsDone' /\ StoredWasSeen' /\ PasteIsGuarded' /\ PasteCarriesTheText'
    BY <1>2 DEF DeliveryInv, ReportedIsDone, StoredWasSeen, PasteIsGuarded, PasteCarriesTheText
  <2> QED
    BY <2>5, <2>6, <2>7, <2>8, <2>9, <2>10, <2>13, <2>14, <2>15 DEF DeliveryInv
<1>5. CASE ~(Len(commits) < CommitQueue)
  <2>1. target' = "Unknown" /\ pc' = "fallback" /\ commits' = commits
    BY <1>5, RefusalClasses DEF write_focused
  <2>2. UNCHANGED committing
    BY <1>2, <2>1 DEF committing
  <2> QED
    BY <1>2, <1>3, <2>1, <2>2, GivesUpKeeps
<1> QED
  BY <1>4, <1>5

LEMMA CommitDeadlineKeeps ==
  ASSUME DeliveryInv, CommitDeadline
  PROVE  DeliveryInv'
<1> USE DEF desktop, caller, inspection, clipboards, record
<1>1. CallerTyped /\ QueuesTyped /\ WorkersTyped /\ RecordTyped
  BY DEF DeliveryInv
<1>2. /\ pc = "committing" /\ expired' = expired \cup {job}
      /\ UNCHANGED <<desktop, caller, inspection, commits, committer, clipboards, record, pastes>>
  BY DEF CommitDeadline
<1>3. job \in 1 .. job
  BY <1>1, <1>2, DeliveryAssumption DEF CallerTyped
<1>4. CallerTyped' /\ QueuesTyped' /\ WorkersTyped' /\ RecordTyped'
  BY <1>1, <1>2, <1>3 DEF CallerTyped, QueuesTyped, WorkersTyped, RecordTyped
<1>5. ReplyIsAwaited' /\ SeenIsAccessible' /\ RequestIsOfSeen' /\ CommitIsOnce'
  BY <1>2 DEF DeliveryInv, ReplyIsAwaited, SeenIsAccessible, RequestIsOfSeen, CommitIsOnce
<1>6. CommitterKnows' /\ PlacedIsSet' /\ NoFallbackYet' /\ AnswerIsTrue'
  BY <1>2 DEF DeliveryInv, CommitterKnows, PlacedIsSet, NoFallbackYet, AnswerIsTrue
<1>7. Quiet(job)' <=> Quiet(job)
  BY <1>2 DEF Quiet
<1>8. QuietBefore' /\ SensitiveIsQuiet'
  BY <1>2, <1>7 DEF DeliveryInv, QuietBefore, SensitiveIsQuiet
<1>9. ReportedIsDone' /\ StoredWasSeen' /\ PasteIsGuarded' /\ PasteCarriesTheText'
  BY <1>2 DEF DeliveryInv, ReportedIsDone, StoredWasSeen, PasteIsGuarded, PasteCarriesTheText
<1> QED
  BY <1>4, <1>5, <1>6, <1>8, <1>9 DEF DeliveryInv

(* The text was inserted, copied or refused: the HUD is told.                 *)
LEMMA ReportKeeps ==
  ASSUME DeliveryInv, pc # "idle", pc' = "persist", reply' = "none",
         NEW result \in {"inserted", "copied", "refused"},
         outcome' = [outcome EXCEPT ![job] = result],
         result = "inserted" => \E p \in pastes : p.d = job,
         result = "copied" => Fallback(job) \in written,
         target' = "Cleared" => Storable(seen),
         target' = "Sensitive" => target = "Sensitive",
         UNCHANGED <<desktop, job, seen, inspection, committing, clipboards, stored, pastes>>
  PROVE  DeliveryInv'
<1>1. CallerTyped /\ RecordTyped
  BY DEF DeliveryInv
<1>2. job \in 1 .. Dictations
  BY <1>1, DeliveryAssumption DEF CallerTyped
<1>3. /\ QueuesTyped' /\ WorkersTyped' /\ CommitIsOnce' /\ CommitterKnows' /\ PlacedIsSet'
      /\ PasteIsGuarded' /\ PasteCarriesTheText' /\ (Quiet(job)' <=> Quiet(job))
  BY NothingAsked DEF committing
<1> USE DEF desktop, inspection, committing, clipboards
<1>4. CallerTyped' /\ RecordTyped'
  BY <1>1 DEF CallerTyped, RecordTyped
<1>5. ReplyIsAwaited' /\ SeenIsAccessible' /\ RequestIsOfSeen'
  BY DEF DeliveryInv, ReplyIsAwaited, SeenIsAccessible, RequestIsOfSeen
<1>6. QuietBefore' /\ SensitiveIsQuiet'
  BY <1>3 DEF DeliveryInv, QuietBefore, SensitiveIsQuiet
<1>7. NoFallbackYet' /\ AnswerIsTrue' /\ StoredWasSeen'
  BY DEF DeliveryInv, NoFallbackYet, AnswerIsTrue, StoredWasSeen
<1>8. ReportedIsDone'
  <2>1. /\ outcome'[job] = result
        /\ \A d \in 1 .. Dictations : d # job => outcome'[d] = outcome[d]
    BY <1>1, <1>2 DEF RecordTyped
  <2> QED
    BY <1>2, <2>1 DEF DeliveryInv, ReportedIsDone, Fallback
<1> QED
  BY <1>3, <1>4, <1>5, <1>6, <1>7, <1>8 DEF DeliveryInv

LEMMA CommitAnsweredKeeps ==
  ASSUME DeliveryInv, CommitAnswered
  PROVE  DeliveryInv'
<1> DEFINE r == IF reply = "none" THEN "Unsupported" ELSE reply
<1>1. /\ pc = "committing" /\ reply' = "none"
      /\ UNCHANGED <<desktop, job, seen, inspection, committing, clipboards, stored, pastes>>
      /\ IF r = "ok"
         THEN /\ outcome' = [outcome EXCEPT ![job] = "inserted"]
              /\ target' = "Cleared" /\ pc' = "persist" /\ UNCHANGED refusal
         ELSE /\ refusal' = r /\ target' = classify_committed_refusal(r)
              /\ pc' = "fallback" /\ UNCHANGED outcome
  BY DEF CommitAnswered
<1>2. refusal_is_sensitive(r) => Quiet(job)
  BY <1>1, RefusalClasses DEF DeliveryInv, SensitiveIsQuiet
<1>3. classify_committed_refusal(r) = "Cleared" => Storable(seen)
  BY <1>1, RefusalClasses DEF DeliveryInv, AnswerIsTrue
<1>4. CASE r = "ok"
  <2>1. reply = "ok" /\ \E p \in pastes : p.d = job
    BY <1>1, <1>4 DEF DeliveryInv, AnswerIsTrue
  <2>2. classify_committed_refusal("ok") = "Cleared"
    BY DEF classify_committed_refusal, refusal_is_sensitive
  <2> QED
    BY <1>1, <1>3, <1>4, <2>1, <2>2, ReportKeeps
<1>5. CASE r # "ok"
  <2>1. target' \in {"Sensitive", "Unknown", "Cleared"}
    BY <1>1, <1>5 DEF classify_committed_refusal
  <2>2. target' = "Sensitive" => refusal_is_sensitive(refusal') /\ Quiet(job)
    BY <1>1, <1>2, <1>5 DEF classify_committed_refusal
  <2>3. target' = "Cleared" => Storable(seen)
    BY <1>1, <1>3, <1>5
  <2>4. UNCHANGED record
    BY <1>1, <1>5 DEF record
  <2> QED
    BY <1>1, <1>5, <2>1, <2>2, <2>3, <2>4, GivesUpKeeps
<1> QED
  BY <1>4, <1>5

(* The text goes to the application's writer, unless the target is sensitive. *)
LEMMA FallbackKeeps ==
  ASSUME DeliveryInv, deliver_via_clipboard_fallback
  PROVE  DeliveryInv'
<1>1. CallerTyped /\ QueuesTyped /\ WorkersTyped /\ RecordTyped
  BY DEF DeliveryInv
<1>2. /\ pc = "fallback"
      /\ UNCHANGED <<desktop, job, seen, reply, target, inspection, committing, clipboard, placed,
                     written, stored, pastes>>
  BY DEF deliver_via_clipboard_fallback
<1>3. reply = "none"
  BY <1>2 DEF DeliveryInv, ReplyIsAwaited
<1>4. CASE refusal_is_sensitive(refusal) \/ Len(copies["app"]) = ClipboardQueue
  <2>1. outcome' = [outcome EXCEPT ![job] = "refused"] /\ pc' = "persist" /\ copies' = copies
    BY <1>4 DEF deliver_via_clipboard_fallback
  <2>2. target = "Cleared" => Storable(seen)
    BY DEF DeliveryInv, AnswerIsTrue
  <2>3. UNCHANGED clipboards
    BY <1>2, <2>1 DEF clipboards
  <2> QED
    BY <1>2, <1>3, <2>1, <2>2, <2>3, ReportKeeps
<1>5. CASE ~(refusal_is_sensitive(refusal) \/ Len(copies["app"]) = ClipboardQueue)
  <2> USE DEF desktop, inspection, committing
  <2>1. /\ copies' = [copies EXCEPT !["app"] = Append(@, [d |-> job, by |-> "fallback"])]
        /\ pc' = "copying" /\ UNCHANGED outcome
    BY <1>5 DEF deliver_via_clipboard_fallback
  <2>2. target # "Sensitive"
    BY <1>2, <1>5 DEF DeliveryInv, SensitiveIsQuiet
  <2> DEFINE c == [d |-> job, by |-> "fallback"]
  <2>3. c \in Copies /\ c.d \in 1 .. job /\ c.by = "fallback"
    BY <1>1, <1>2, DeliveryAssumption DEF CallerTyped, Copies
  <2> HIDE DEF c
  <2>4. copies' = [copies EXCEPT !["app"] = Append(@, c)]
    BY <2>1 DEF c
  <2>5. "app" \in Writers /\ "commit" \in Writers
    BY DEF Writers
  <2>6. Len(copies["app"]) < ClipboardQueue
    <3>1. copies["app"] \in Seq(Copies) /\ Len(copies["app"]) <= ClipboardQueue
      BY <1>1, <2>5 DEF QueuesTyped
    <3>2. Len(copies["app"]) \in Nat /\ ClipboardQueue \in Nat
      BY <3>1, LenProperties, DeliveryAssumption
    <3> QED
      BY <1>5, <3>1, <3>2
  <2>7. /\ copies' \in [Writers -> Seq(Copies)]
        /\ \A v \in Writers \ {"app"} : copies'[v] = copies[v]
        /\ copies'["app"] # <<>> /\ Entries(copies'["app"]) = Entries(copies["app"]) \cup {c}
        /\ Len(copies'["app"]) <= ClipboardQueue
        /\ copies["app"] # <<>> => Head(copies'["app"]) = Head(copies["app"])
    BY <1>1, <2>3, <2>4, <2>5, <2>6, CopyAsked
  <2>8. copies'["commit"] = copies["commit"]
    BY <2>5, <2>7
  <2>9. CallerTyped' /\ WorkersTyped' /\ RecordTyped'
    BY <1>1, <1>2, <2>1 DEF CallerTyped, WorkersTyped, RecordTyped
  <2>10. QueuesTyped'
    <3>1. \A w \in Writers : /\ \A e \in Entries(copies'[w]) : e.d \in 1 .. job
                             /\ Len(copies'[w]) <= ClipboardQueue
                             /\ placed[w] => copies'[w] # <<>>
      BY <1>1, <2>3, <2>7, <2>8 DEF QueuesTyped, Writers
    <3>2. /\ \A e \in Entries(copies'["app"]) : e.by # "commit"
          /\ \A e \in Entries(copies'["commit"]) : e.by = "commit"
      BY <1>1, <2>3, <2>7, <2>8 DEF QueuesTyped
    <3> QED
      BY <1>1, <1>2, <2>7, <3>1, <3>2 DEF QueuesTyped
  <2>11. ReplyIsAwaited' /\ SeenIsAccessible' /\ RequestIsOfSeen'
    BY <1>2, <1>3, <2>1 DEF DeliveryInv, ReplyIsAwaited, SeenIsAccessible, RequestIsOfSeen
  <2>12. CommitIsOnce' /\ CommitterKnows'
    BY <1>2, <2>8 DEF DeliveryInv, CommitIsOnce, CommitterKnows
  <2>13. PlacedIsSet'
    BY <1>1, <1>2, <2>5, <2>7, <2>8 DEF DeliveryInv, PlacedIsSet, QueuesTyped
  <2>14. QuietBefore' /\ SensitiveIsQuiet' /\ NoFallbackYet'
    BY <1>2, <2>1, <2>2 DEF QuietBefore, SensitiveIsQuiet, NoFallbackYet
  <2>15. AnswerIsTrue' /\ ReportedIsDone' /\ StoredWasSeen'
    BY <1>2, <1>3, <2>1 DEF DeliveryInv, AnswerIsTrue, ReportedIsDone, StoredWasSeen
  <2>16. PasteIsGuarded' /\ PasteCarriesTheText'
    BY <1>2 DEF DeliveryInv, PasteIsGuarded, PasteCarriesTheText
  <2> QED
    BY <2>9, <2>10, <2>11, <2>12, <2>13, <2>14, <2>15, <2>16 DEF DeliveryInv
<1> QED
  BY <1>4, <1>5

LEMMA CopyAnsweredKeeps ==
  ASSUME DeliveryInv, CopyAnswered
  PROVE  DeliveryInv'
<1> DEFINE result == IF reply = "ok" THEN "copied" ELSE "refused"
<1>1. /\ pc = "copying" /\ pc' = "persist" /\ reply' = "none" /\ target' = target
      /\ outcome' = [outcome EXCEPT ![job] = result]
      /\ UNCHANGED <<desktop, job, seen, inspection, committing, clipboards, stored, pastes>>
  BY DEF CopyAnswered
<1>2. reply = "ok" => Fallback(job) \in written
  BY <1>1 DEF DeliveryInv, AnswerIsTrue
<1>3. target = "Cleared" => Storable(seen)
  BY DEF DeliveryInv, AnswerIsTrue
<1>4. result \in {"inserted", "copied", "refused"} /\ result # "inserted"
  OBVIOUS
<1>5. result = "copied" => Fallback(job) \in written
  BY <1>2
<1> HIDE DEF result
<1> QED
  BY <1>1, <1>3, <1>4, <1>5, ReportKeeps

(* The dictation is over, and stored if its target may be known. *)
LEMMA PersistKeeps ==
  ASSUME DeliveryInv, persist_delivered_history
  PROVE  DeliveryInv'
<1>1. CallerTyped /\ RecordTyped
  BY DEF DeliveryInv
<1>2. /\ pc = "persist" /\ pc' = "idle" /\ seen' = Unseen /\ target' = "none"
      /\ stored' = stored \cup (IF permits_history(target)
                                THEN {[d |-> job, target |-> target, seen |-> seen]} ELSE {})
      /\ UNCHANGED <<desktop, job, reply, refusal, inspection, commits, committer, expired,
                     clipboards, outcome, pastes>>
  BY DEF persist_delivered_history
<1>3. /\ QueuesTyped' /\ WorkersTyped' /\ CommitIsOnce' /\ CommitterKnows' /\ PlacedIsSet'
      /\ PasteIsGuarded' /\ PasteCarriesTheText'
  BY <1>2, NothingAsked
<1> USE DEF desktop, inspection, committing, clipboards
<1>4. CallerTyped' /\ RecordTyped'
  BY <1>1, <1>2, UnseenFacts DEF CallerTyped, RecordTyped
<1>5. ReplyIsAwaited' /\ SeenIsAccessible' /\ RequestIsOfSeen'
  BY <1>2 DEF DeliveryInv, ReplyIsAwaited, SeenIsAccessible, RequestIsOfSeen
<1>6. QuietBefore' /\ SensitiveIsQuiet' /\ NoFallbackYet' /\ AnswerIsTrue'
  BY <1>2 DEF QuietBefore, SensitiveIsQuiet, NoFallbackYet, AnswerIsTrue
<1>7. ReportedIsDone'
  BY <1>2 DEF DeliveryInv, ReportedIsDone
<1>8. StoredWasSeen'
  <2>1. target = "Cleared" =>
           /\ seen # Unseen /\ seen.field # "password" /\ ~seen.secure
           /\ seen.window = Elevated => seen.field = "read_only"
    BY UnseenFacts DEF DeliveryInv, AnswerIsTrue, Storable
  <2> QED
    BY <1>2, <2>1 DEF DeliveryInv, StoredWasSeen
<1> QED
  BY <1>3, <1>4, <1>5, <1>6, <1>7, <1>8 DEF DeliveryInv

-----------------------------------------------------------------------------
(* The specification *)

LEMMA StepKeeps ==
  ASSUME DeliveryInv, [Next]_vars
  PROVE  DeliveryInv'
<1>1. CASE UserSteps
  BY <1>1, UserKeeps
<1>2. CASE InspectorSteps
  BY <1>2, InspectorKeeps
<1>3. CASE CommitterWorks
  BY <1>3, CommitterKeeps
<1>4. CASE \E w \in Writers : SetText(w) \/ write_clipboard(w)
  BY <1>4, SetTextKeeps, WriterKeeps
<1>5. CASE Transcribed
  BY <1>5, TranscribedKeeps
<1>6. CASE Caller
  BY <1>6, AskInspectorKeeps, InspectAnsweredKeeps, InspectTimesOutKeeps, write_focusedKeeps,
     CommitDeadlineKeeps, CommitAnsweredKeeps, FallbackKeeps, CopyAnsweredKeeps, PersistKeeps
     DEF Caller
<1>7. CASE UNCHANGED vars
  <2> USE <1>7 DEF vars, desktop, caller, inspection, committing, clipboards, record
  <2>1. CallerTyped' /\ RecordTyped'
    BY DEF DeliveryInv, CallerTyped, RecordTyped
  <2>2. /\ QueuesTyped' /\ WorkersTyped' /\ CommitIsOnce' /\ CommitterKnows' /\ PlacedIsSet'
        /\ PasteIsGuarded' /\ PasteCarriesTheText' /\ (Quiet(job)' <=> Quiet(job))
    BY NothingAsked
  <2>3. ReplyIsAwaited' /\ SeenIsAccessible' /\ RequestIsOfSeen'
    BY DEF DeliveryInv, ReplyIsAwaited, SeenIsAccessible, RequestIsOfSeen
  <2>4. QuietBefore' /\ SensitiveIsQuiet'
    BY <2>2 DEF DeliveryInv, QuietBefore, SensitiveIsQuiet
  <2>5. NoFallbackYet' /\ AnswerIsTrue' /\ ReportedIsDone' /\ StoredWasSeen'
    BY DEF DeliveryInv, NoFallbackYet, AnswerIsTrue, ReportedIsDone, StoredWasSeen
  <2> QED
    BY <2>1, <2>2, <2>3, <2>4, <2>5 DEF DeliveryInv
<1> QED
  BY <1>1, <1>2, <1>3, <1>4, <1>5, <1>6, <1>7
     DEF Next, UserSteps, InspectorSteps, CommitterWorks

LEMMA DeliveryInvHolds == Spec => []DeliveryInv
<1>1. Init => DeliveryInv
  BY InitialInv
<1>2. DeliveryInv /\ [Next]_vars => DeliveryInv'
  BY StepKeeps
<1> QED
  BY <1>1, <1>2, PTL DEF Spec

-----------------------------------------------------------------------------
(* The verdict of the guard *)

(* A verdict that came while the caller waited is the answer, and then the    *)
(* target, of the dictation under way.                                        *)
JudgedIsHeard ==
    /\ judged => pc \in {"committing", "fallback", "copying", "persist"}
    /\ judged /\ Untouchable(seen) /\ pc = "committing" => refusal_is_sensitive(reply)
    /\ judged /\ Untouchable(seen) /\ pc # "committing" => target = "Sensitive"

(* The worker has nothing more to say of a dictation it refused as sensitive. *)
LEMMA NothingMoreIsSaid ==
  ASSUME DeliveryInv, JudgedIsHeard, judged, Untouchable(seen), NEW r,
         \/ AnswerCommit(committer.d, r)
         \/ commits # <<>> /\ AnswerCommit(Head(commits).d, r)
  PROVE  UNCHANGED reply
<1>1. CASE pc = "committing"
  <2>1. committer.d # job /\ ~Has(commits, job)
    BY <1>1 DEF DeliveryInv, JudgedIsHeard, SensitiveIsQuiet, Quiet
  <2>2. commits # <<>> => Head(commits) \in Entries(commits)
    <3>1. commits \in Seq(CommitRequests)
      BY DEF DeliveryInv, QueuesTyped
    <3> QED
      BY <3>1, Taken
  <2>3. commits # <<>> => Head(commits).d # job
    BY <2>1, <2>2 DEF Has
  <2> QED
    BY <2>1, <2>3 DEF AnswerCommit, Hears
<1>2. CASE pc # "committing"
  BY <1>2 DEF AnswerCommit, Hears
<1> QED
  BY <1>1, <1>2

(* The preflight passes on the verdict of the guard, if anybody listens.      *)
LEMMA PreflightIsHeard ==
  ASSUME DeliveryInv, JudgedIsHeard, Preflight
  PROVE  JudgedIsHeard'
<1> DEFINE guard == validate_focused_preflight(snapshot_of(committer.seen))
           r == IF guard = "ok" THEN Identified ELSE guard
<1>1. /\ committer.step = "preflight" /\ CommitUnchanged
      /\ judged' = (judged \/ Hears(committer.d, "committing"))
      /\ IF r # "ok" THEN CommitRefused(r) ELSE UNCHANGED reply
  BY DEF Preflight
<1>2. UNCHANGED <<job, pc, seen, target>>
  BY <1>1 DEF CommitUnchanged
<1>3. CASE Hears(committer.d, "committing")
  <2>1. pc = "committing" /\ committer.d = job /\ committer.seen = seen
    BY <1>3 DEF Hears, DeliveryInv, RequestIsOfSeen
  <2>2. Untouchable(seen) => guard \in Sensitive
    BY <2>1 DEF Untouchable, validate_focused_preflight, Sensitive
  <2> HIDE DEF guard
  <2>3. Untouchable(seen) => reply' \in Sensitive
    BY <1>1, <1>3, <2>2 DEF CommitRefused, AnswerCommit, Sensitive
  <2> QED
    BY <1>2, <2>1, <2>3, RefusalClasses DEF JudgedIsHeard, Untouchable
<1>4. CASE ~Hears(committer.d, "committing")
  <2> HIDE DEF r
  <2>1. judged' <=> judged
    BY <1>1, <1>4
  <2>2. UNCHANGED reply
    BY <1>1, <1>4 DEF CommitRefused, AnswerCommit
  <2> QED
    BY <1>2, <2>1, <2>2 DEF JudgedIsHeard, Untouchable
<1> QED
  BY <1>3, <1>4

LEMMA JudgedStep ==
  ASSUME DeliveryInv, JudgedIsHeard, [Next]_vars
  PROVE  JudgedIsHeard'
<1>1. ASSUME UNCHANGED <<judged, seen, pc, target, reply>>
      PROVE  JudgedIsHeard'
  BY <1>1 DEF JudgedIsHeard, Untouchable
<1>2. ASSUME ~judged', judged' = judged \/ pc = "persist"
      PROVE  JudgedIsHeard'
  BY <1>2 DEF JudgedIsHeard
<1>3. CASE UserSteps
  BY <1>1, <1>3, UserEffect DEF DeliveryInv, caller
<1>4. CASE InspectorSteps
  <2>1. /\ UNCHANGED <<pc, target, judged>>
        /\ UNCHANGED <<reply, seen>> \/ pc = "inspecting"
    BY <1>4, InspectorEffect DEF DeliveryInv, committing
  <2> QED
    BY <2>1 DEF JudgedIsHeard, Untouchable
<1>5. ASSUME CommitUnchanged, UNCHANGED judged, NEW r,
             \/ UNCHANGED reply
             \/ AnswerCommit(committer.d, r)
             \/ commits # <<>> /\ AnswerCommit(Head(commits).d, r)
      PROVE  JudgedIsHeard'
  <2>1. UNCHANGED <<seen, pc, target>>
    BY <1>5 DEF CommitUnchanged
  <2>2. judged /\ Untouchable(seen) => UNCHANGED reply
    BY <1>5, NothingMoreIsSaid
  <2> QED
    BY <1>5, <2>1, <2>2 DEF JudgedIsHeard, Untouchable
<1>6. CASE TakeCommit
  BY <1>5, <1>6 DEF TakeCommit
<1>7. CASE wait_for_activation_modifiers \/ Recheck \/ Verify
  <2>1. CommitUnchanged /\ UNCHANGED judged
    BY <1>7 DEF wait_for_activation_modifiers, Recheck, Verify
  <2>2. UNCHANGED reply \/ \E r : CommitRefused(r)
    BY <1>7 DEF wait_for_activation_modifiers, Recheck, Verify
  <2> QED
    BY <1>5, <2>1, <2>2 DEF CommitRefused
<1>8. CASE send_paste_shortcut
  <2>1. /\ CommitUnchanged /\ UNCHANGED judged
        /\ \E r : AnswerCommit(committer.d, r)
    BY <1>8 DEF send_paste_shortcut
  <2> QED
    BY <1>5, <2>1
<1>9. CASE Preflight
  BY <1>9, PreflightIsHeard
<1>10. CASE \E w \in Writers : SetText(w)
  BY <1>1, <1>10 DEF SetText, caller, committing
<1>11. CASE \E w \in Writers : write_clipboard(w)
  <2>1. /\ UNCHANGED <<pc, seen, target, judged>>
        /\ UNCHANGED reply \/ pc = "copying"
    BY <1>11, WriterEffect
  <2> QED
    BY <2>1 DEF JudgedIsHeard, Untouchable
<1>12. CASE Transcribed
  <2>1. pc = "idle" /\ UNCHANGED judged
    BY <1>12 DEF Transcribed, committing
  <2> QED
    BY <1>2, <2>1 DEF JudgedIsHeard
<1>13. CASE AskInspector \/ InspectAnswered \/ InspectTimesOut \/ write_focused
  <2>1. pc \in {"inspect", "inspecting", "submit"} /\ UNCHANGED judged
    BY <1>13 DEF AskInspector, InspectAnswered, InspectTimesOut, InspectorRefused, write_focused,
       committing
  <2> QED
    BY <1>2, <2>1 DEF JudgedIsHeard
<1>14. CASE CommitDeadline
  BY <1>1, <1>14 DEF CommitDeadline, caller
<1>15. CASE CommitAnswered
  <2>1. /\ pc = "committing" /\ UNCHANGED <<judged, seen>> /\ pc' \in {"persist", "fallback"}
        /\ LET r == IF reply = "none" THEN "Unsupported" ELSE reply
           IN  r # "ok" => target' = classify_committed_refusal(r)
    BY <1>15 DEF CommitAnswered, committing
  <2>2. refusal_is_sensitive(reply) => reply # "none" /\ reply # "ok"
    BY DEF refusal_is_sensitive
  <2>3. refusal_is_sensitive(reply) => target' = "Sensitive"
    BY <2>1, <2>2 DEF classify_committed_refusal
  <2> QED
    BY <2>1, <2>3 DEF JudgedIsHeard, Untouchable
<1>16. CASE deliver_via_clipboard_fallback \/ CopyAnswered
  <2>1. /\ pc \in {"fallback", "copying"} /\ pc' \in {"copying", "persist"}
        /\ UNCHANGED <<judged, seen, target>>
    BY <1>16 DEF deliver_via_clipboard_fallback, CopyAnswered, committing
  <2> QED
    BY <2>1 DEF JudgedIsHeard, Untouchable
<1>17. CASE persist_delivered_history
  BY <1>2, <1>17 DEF persist_delivered_history
<1>18. CASE UNCHANGED vars
  BY <1>1, <1>18 DEF vars, caller, committing
<1> QED
  BY <1>3, <1>4, <1>6, <1>7, <1>8, <1>9, <1>10, <1>11, <1>12, <1>13, <1>14, <1>15, <1>16, <1>17,
     <1>18 DEF Next, UserSteps, InspectorSteps, Caller

LEMMA JudgedHolds == Spec => []JudgedIsHeard
<1>1. Init => JudgedIsHeard
  BY DEF Init, JudgedIsHeard
<1>2. DeliveryInv /\ JudgedIsHeard /\ [Next]_vars => JudgedIsHeard'
  BY JudgedStep
<1> QED
  BY <1>1, <1>2, DeliveryInvHolds, PTL DEF Spec

(* The queues never hold more than their channels, and every variable stays   *)
(* in its domain.                                                             *)
THEOREM DeliveryIsTyped == Spec => []TypeOK
<1>1. DeliveryInv => TypeOK
  <2> SUFFICES ASSUME DeliveryInv PROVE TypeOK
    OBVIOUS
  <2>1. CallerTyped /\ QueuesTyped /\ WorkersTyped /\ RecordTyped
    BY DEF DeliveryInv
  <2>2. {secure, held} \subseteq BOOLEAN
    BY <2>1 DEF CallerTyped
  <2>3. committer.d \in 0 .. job
    BY <2>1 DEF WorkersTyped
  <2> QED
    BY <2>1, <2>2, <2>3 DEF TypeOK, CallerTyped, QueuesTyped, WorkersTyped, RecordTyped
<1> QED
  BY <1>1, DeliveryInvHolds, PTL

(* An answer is believed only by who asked for it: however late the answers    *)
(* come, a dictation is said to be inserted or copied only if it was          *)
(* (CommitWorker and clipboard writer reply on a channel per request).        *)
THEOREM WhatIsReportedWasDone == Spec => []ReportedIsDone
<1>1. DeliveryInv => ReportedIsDone
  BY DEF DeliveryInv
<1> QED
  BY <1>1, DeliveryInvHolds, PTL

(* Whatever moves the focus, the keys of a paste are sent only for a target    *)
(* the guard passed, into the window that was inspected unless the focus      *)
(* moved after the third look at it, and with the dictation's own text unless *)
(* somebody else copied (commit_worker.rs, write_focused).                    *)
THEOREM PastesAreGuarded == Spec => []CommitIsGuarded
<1>1. DeliveryInv => CommitIsGuarded
  BY DEF DeliveryInv, CommitIsGuarded
<1> QED
  BY <1>1, DeliveryInvHolds, PTL

(* Whatever the workers' delays and the user's moves: of a dictation whose     *)
(* target the commit worker's guard judged sensitive while the caller waited  *)
(* nothing is pasted, copied by the application, or left in a queue on its    *)
(* way there, and no delivery that was attempted is stored of a target that   *)
(* was not seen, or was a password field, the secure desktop or an elevated   *)
(* window's element that can be written (views.rs, refusal_is_sensitive and   *)
(* classify_committed_refusal).                                               *)
THEOREM SensitiveTargetsGetNothing == Spec => []SensitiveStaysOut
<1>1. DeliveryInv /\ JudgedIsHeard => SensitiveStaysOut
  <2> SUFFICES ASSUME DeliveryInv, JudgedIsHeard PROVE SensitiveGetsNothing
    BY DEF DeliveryInv, SensitiveStaysOut
  <2> SUFFICES ASSUME judged, Untouchable(seen)
               PROVE  /\ \A p \in pastes : p.d # job
                      /\ Fallback(job) \notin written
                      /\ \A w \in Writers, i \in 1 .. ClipboardQueue :
                            i <= Len(copies[w]) /\ copies[w][i].d = job => copies[w][i].by = "user"
                      /\ outcome[job] \notin {"inserted", "copied"}
    BY DEF SensitiveGetsNothing, Fallback
  <2>1. Quiet(job) /\ Fallback(job) \notin written /\ Fallback(job) \notin Entries(copies["app"])
    <3>1. CASE pc = "committing"
      BY <3>1 DEF DeliveryInv, JudgedIsHeard, SensitiveIsQuiet, NoFallbackYet
    <3>2. CASE pc # "committing"
      BY <3>2 DEF DeliveryInv, JudgedIsHeard, SensitiveIsQuiet, NoFallbackYet
    <3> QED
      BY <3>1, <3>2
  <2>2. ASSUME NEW w \in Writers, NEW i \in 1 .. ClipboardQueue, i <= Len(copies[w]),
               copies[w][i].d = job
        PROVE  copies[w][i].by = "user"
    <3>1. copies[w] \in Seq(Copies)
      BY DEF DeliveryInv, QueuesTyped
    <3>2. i \in 1 .. Len(copies[w])
      BY <2>2, <3>1, LenProperties, DeliveryAssumption
    <3>3. copies[w][i] \in Copies /\ copies[w][i] \in Entries(copies[w])
      BY <3>1, <3>2, ElementOfSeq DEF Entries
    <3>4. w # "commit"
      BY <2>1, <2>2, <3>3 DEF Quiet, Has
    <3>5. copies[w][i].by # "commit"
      BY <3>3, <3>4 DEF DeliveryInv, QueuesTyped, Writers
    <3>6. ASSUME copies[w][i].by = "fallback"
          PROVE  FALSE
      <4>1. copies[w][i] = Fallback(job)
        BY <2>2, <3>3, <3>6 DEF Copies, Fallback
      <4> QED
        BY <2>1, <3>3, <3>4, <4>1 DEF Writers
    <3> QED
      BY <3>3, <3>5, <3>6 DEF Copies
  <2>3. outcome[job] \notin {"inserted", "copied"}
    <3>1. job \in 1 .. Dictations
      BY DeliveryAssumption DEF DeliveryInv, JudgedIsHeard, CallerTyped
    <3> QED
      BY <2>1, <3>1 DEF DeliveryInv, ReportedIsDone, Quiet, Fallback
  <2> QED
    BY <2>1, <2>2, <2>3 DEF Quiet
<1> QED
  BY <1>1, DeliveryInvHolds, JudgedHolds, PTL
=============================================================================
