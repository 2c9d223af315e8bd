------------------------- MODULE ProfileStorageProof -------------------------
(* What ProfileStorage promises, for every bound: between commands the owners *)
(* of a setting agree, a launch never silently loses the profile, and nothing *)
(* is stored without consent.                                                 *)
(*                                                                            *)
(* The commands run one at a time, so the invariant says, for the command     *)
(* that runs and for each step it has reached, how far memory, files and the  *)
(* operating system have moved away from each other.  What makes that         *)
(* possible is JobTyped: what is left of a command is always a path through   *)
(* the steps of its kind.                                                     *)
EXTENDS ProfileStorage, FiniteSetTheorems, SequenceTheorems, TLAPS

-----------------------------------------------------------------------------
(* Commands as paths of steps. *)

SaveNames == {"write_tmp", "copy_backup", "replace"}
WordNames == {"words_tmp", "drop_backup", "retire", "place", "sync",
              "words_commit"}

StepsOf(kind) ==
    IF kind \in {"edit", "hotkey"} THEN SaveNames \cup {"commit"}
    ELSE IF kind = "history"
         THEN SaveNames \cup {"policy", "retain", "unlock", "commit"}
    ELSE IF kind \in {"words", "import"} THEN WordNames
    ELSE IF kind = "delete" THEN {"delete", "reopen", "unseed"}
    ELSE IF kind = "reset"
         THEN WordNames \cup SaveNames
              \cup {"drop_slot", "remove_settings", "remove_backup",
                    "remove_database", "defaults", "reopen_default"}
    ELSE WordNames \cup SaveNames
         \cup {"load", "seeds", "adopt", "open_history", "seed_log",
               "open_words", "register"}

(* The step b may come right after the step a. *)
Follows(kind, a, b) ==
    /\ a = "write_tmp" => b = "copy_backup"
    /\ a = "copy_backup" => b = "replace"
    /\ a = "replace" => b = IF kind = "history" THEN "unlock"
                            ELSE IF kind = "reset" THEN "defaults"
                            ELSE IF kind = "start" THEN "adopt" ELSE "commit"
    /\ a = "policy" => b = "retain"
    /\ a = "retain" => b = "write_tmp"
    /\ a = "unlock" => b = "commit"
    /\ a = "words_tmp" => b = "drop_backup"
    /\ a = "drop_backup" => b = "retire"
    /\ a = "retire" => b = "place"
    /\ a = "place" => b = "sync"
    /\ a = "sync" => b = "words_commit"
    /\ a = "words_commit" => /\ kind \in {"reset", "start"}
                             /\ b = IF kind = "reset" THEN "drop_slot"
                                                      ELSE "register"
    /\ a = "delete" => b = "reopen"
    /\ a = "reopen" => b = "unseed"
    /\ a = "drop_slot" => b = "remove_settings"
    /\ a = "remove_settings" => b = "remove_backup"
    /\ a = "remove_backup" => b = "remove_database"
    /\ a = "remove_database" => b = "write_tmp"
    /\ a = "defaults" => b = "reopen_default"
    /\ a = "load" => b = "seeds"
    /\ a = "adopt" => b = "open_history"
    /\ a = "open_history" => b = "seed_log"
    /\ a = "seed_log" => b = "open_words"
    /\ a = "open_words" => b \in {"words_tmp", "register"}
    /\ a \notin {"commit", "unseed", "reopen_default", "seeds", "register"}

(* A command may end with the step a. *)
MayEnd(kind, a) ==
    \/ a \in {"commit", "unseed", "reopen", "reopen_default", "seeds",
              "register"}
    \/ a = "words_commit" /\ kind \in {"words", "import"}

(* Steps that follow each other from a to b. *)
Chain(kind, s, a, b) ==
    /\ s \in Seq(StepsOf(kind)) /\ s # <<>>
    /\ \A i \in 1 .. Len(s) - 1 : Follows(kind, s[i], s[i + 1])
    /\ a = s[1] /\ b = s[Len(s)]

Path(kind, s) ==
    \E b \in StepsOf(kind) : MayEnd(kind, b) /\ Chain(kind, s, s[1], b)

Slots == HistoryModes \cup {NoSlot}

AllSteps == UNION {StepsOf(k) : k \in Kinds}

Command ==
    [kind : Kinds, todo : Seq(AllSteps),
     cand : Settings \cup {NoSettings}, terms : SUBSET Terms,
     undo : [slot : Slots, binding : Bindings]]

(* The step the command is at. *)
Step == IF job.todo = <<>> THEN "none" ELSE Head(job.todo)

-----------------------------------------------------------------------------
(* The inductive invariant. *)

(* A transcript list: bounded, the entries of earlier runs before this run's. *)
LogTyped(s) ==
    /\ s \in Seq({s[i] : i \in DOMAIN s})
    /\ Len(s) <= LogLimit
    /\ \A i, j \in DOMAIN s : i < j /\ s[j].seeded => s[i].seeded

(* What the type invariant leaves out. *)
StorageTyped ==
    /\ TypeOK
    /\ LogTyped(log)
    /\ taken \subseteq Bindings
    /\ dictations \in 0 .. MaxDictations
    /\ storing \in Seq(1 .. MaxDictations)
    /\ {jobs, launches, faults, kills, damage} \subseteq Nat

(* The command that runs is whole: what is left of it is a path of its kind. *)
JobTyped ==
    job = Idle \/ (job \in Command /\ Path(job.kind, job.todo))

(* The startup is the command of a starting application, and an application *)
(* that is down holds nothing.                                              *)
AppMatchesJob ==
    /\ app = "starting" <=> job.kind = "start"
    /\ app = "down" => job = Idle /\ slot = NoSlot

(* A save writes the settings last asked for. *)
CandidateIsAsked ==
    /\ \/ job.kind \in {"edit", "hotkey", "history", "reset"}
       \/ job.kind = "start" /\ Step \notin {"load", "seeds"}
       => job.cand \in Settings /\ job.cand = asked
    /\ job.kind = "reset" => job.cand = DefaultSettings

(* The policy of the open repository: while a change is under way it is the *)
(* new one from the second step on, and every failure knows the old one.    *)
PolicyFollows ==
    /\ job.kind \in {"edit", "hotkey"} => job.cand.history = mem.history
    /\ app = "up" /\ job.kind \notin {"history", "reset"} /\ slot # NoSlot
           => slot = mem.history
    /\ job.kind = "history" =>
           \/ /\ slot = NoSlot /\ job.undo.slot = NoSlot
              /\ Step \notin {"policy", "retain"}
           \/ /\ job.undo.slot = mem.history
              /\ slot = IF Step = "policy" THEN mem.history ELSE job.cand.history
    /\ job.kind = "reset" =>
           /\ slot # NoSlot =>
                  slot = mem.history /\ Step \in WordNames \cup {"drop_slot"}
           /\ Step = "reopen_default" => mem = DefaultSettings
    /\ app = "starting" /\ slot # NoSlot =>
           /\ slot = mem.history
           /\ Step \in WordNames \cup {"seed_log", "open_words", "register"}

LiveBinding == IF coordinator \in taken THEN NoBinding ELSE coordinator

(* The shortcut: a change puts the coordinator first, and every failure knows *)
(* the binding the profile still names.                                       *)
ShortcutFollows ==
    /\ app = "up" => registered = LiveBinding
    /\ app = "up" /\ job.kind # "hotkey" /\ mem.hotkey # DefaultSettings.hotkey
           => coordinator = mem.hotkey
    /\ job.kind = "hotkey" =>
           /\ job.cand.hotkey = coordinator
           /\ mem.hotkey # DefaultSettings.hotkey =>
                  job.undo.binding = mem.hotkey
    /\ job.kind \in {"edit", "history"} => job.cand.hotkey = mem.hotkey
    /\ app = "starting" /\ Step \in WordNames \cup
           {"open_history", "seed_log", "open_words", "register"}
           => coordinator = mem.hotkey

WordsSaved == words # {} => Good(words) \in {pfile, pbak}
WordsAreThePrimary == words = IF pfile = Absent THEN {} ELSE pfile.value
BackupHasTheWords == words # {} => pbak = Good(words)

(* From the startup's reading of them on, the words belong to the memory.   *)
WordsInUse ==
    \/ app = "up"
    \/ app = "starting" /\ Step \in WordNames \cup {"register"}

(* The words, step by step through write_atomic, until the second failure.  *)
WordsFollow ==
    kills = 0 /\ faults <= 1 /\ WordsInUse =>
       /\ Step \notin {"retire", "place", "sync", "words_commit"} => WordsSaved
       /\ Step \in {"sync", "words_commit"} => pfile = Good(job.terms)
       /\ faults = 0 =>
              /\ Step \notin {"place", "sync", "words_commit"} =>
                     WordsAreThePrimary
              /\ Step \in {"place", "sync"} => BackupHasTheWords

(* The settings file holds what was acknowledged, and what is being saved    *)
(* only from the rename to the acknowledgement, or until the next launch has *)
(* loaded it; the backup holds something acknowledged; and there is no file  *)
(* at all only as long as the defaults are what is expected there.           *)
FilesFollow ==
    /\ sfile.is = "good" =>
           \/ sfile.value = acked
           \/ /\ sfile.value = asked
              /\ app = "down" \/ Step \in {"load", "unlock", "commit", "adopt"}
    /\ Step \in {"unlock", "commit"} => sfile = Good(job.cand)
    /\ job.kind = "reset" /\ Step \in SaveNames \cup {"remove_database"} =>
           acked = DefaultSettings
    /\ Step \in {"remove_backup", "remove_database"} => sfile = Absent
    /\ sbak.is = "good" => sbak.value \in before \cup {acked}
    /\ sfile = Absent /\ sbak = Absent =>
           \/ acked = DefaultSettings
           \/ /\ asked = DefaultSettings
              /\ app = "down" \/ Step \in {"load", "remove_backup"}

StorageInv ==
    /\ StorageTyped /\ JobTyped /\ AppMatchesJob /\ CandidateIsAsked
    /\ PolicyFollows /\ ShortcutFollows /\ WordsFollow /\ FilesFollow

-----------------------------------------------------------------------------
(* The programs of the commands are paths. *)

LEMMA SaveIsAChain ==
    ASSUME NEW kind \in {"edit", "hotkey", "history", "reset", "start"}
    PROVE  Chain(kind, SaveSteps, "write_tmp", "replace")
<1>1. SaveSteps \in Seq(SaveNames) /\ Len(SaveSteps) = 3
  BY DEF SaveSteps, SaveNames
<1>2. SaveNames \subseteq StepsOf(kind)
  BY DEF SaveNames, StepsOf
<1>3. ASSUME NEW i \in 1 .. 2
      PROVE  Follows(kind, SaveSteps[i], SaveSteps[i + 1])
  <2>1. i = 1 \/ i = 2
    OBVIOUS
  <2> QED BY <2>1 DEF Follows, SaveSteps
<1>4. SaveSteps \in Seq(StepsOf(kind)) /\ SaveSteps # <<>>
  BY <1>1, <1>2
<1>5. SaveSteps[1] = "write_tmp" /\ SaveSteps[3] = "replace"
  BY DEF SaveSteps
<1> QED BY <1>1, <1>3, <1>4, <1>5 DEF Chain

LEMMA WordsAreAChain ==
    ASSUME NEW kind \in {"words", "import", "reset", "start"}
    PROVE  Chain(kind, WordSteps, "words_tmp", "words_commit")
<1>1. WordSteps \in Seq(WordNames) /\ Len(WordSteps) = 6
  BY DEF WordSteps, WordNames
<1>2. WordNames \subseteq StepsOf(kind)
  BY DEF WordNames, StepsOf
<1>3. ASSUME NEW i \in 1 .. 5
      PROVE  Follows(kind, WordSteps[i], WordSteps[i + 1])
  <2>1. i = 1 \/ i = 2 \/ i = 3 \/ i = 4 \/ i = 5
    OBVIOUS
  <2> QED BY <2>1 DEF Follows, WordSteps
<1>4. WordSteps \in Seq(StepsOf(kind)) /\ WordSteps # <<>>
  BY <1>1, <1>2
<1>5. WordSteps[1] = "words_tmp" /\ WordSteps[6] = "words_commit"
  BY DEF WordSteps
<1> QED BY <1>1, <1>3, <1>4, <1>5 DEF Chain

LEMMA OneStepIsAChain ==
    ASSUME NEW kind, NEW step \in StepsOf(kind)
    PROVE  Chain(kind, <<step>>, step, step)
BY DEF Chain

LEMMA TwoStepsAreAChain ==
    ASSUME NEW kind, NEW a \in StepsOf(kind), NEW b \in StepsOf(kind),
           Follows(kind, a, b)
    PROVE  Chain(kind, <<a, b>>, a, b)
<1>1. <<a, b>> \in Seq(StepsOf(kind)) /\ <<a, b>> # <<>> /\ Len(<<a, b>>) = 2
  OBVIOUS
<1>2. ASSUME NEW i \in 1 .. 1
      PROVE  Follows(kind, <<a, b>>[i], <<a, b>>[i + 1])
  <2>1. i = 1 /\ i + 1 = 2
    OBVIOUS
  <2> QED BY <2>1
<1> QED BY <1>1, <1>2 DEF Chain

(* A chain goes on where another stops. *)
LEMMA ChainGoesOn ==
    ASSUME NEW kind, NEW s, NEW t, NEW a, NEW b, NEW c, NEW d,
           Chain(kind, s, a, b), Chain(kind, t, c, d), Follows(kind, b, c)
    PROVE  Chain(kind, s \o t, a, d)
<1> DEFINE u == s \o t
<1>1. /\ s \in Seq(StepsOf(kind)) /\ t \in Seq(StepsOf(kind))
      /\ Len(s) \in Nat \ {0} /\ Len(t) \in Nat \ {0}
      /\ s[Len(s)] = b /\ t[1] = c /\ s[1] = a /\ t[Len(t)] = d
  BY EmptySeq DEF Chain
<1>2. /\ u \in Seq(StepsOf(kind)) /\ Len(u) = Len(s) + Len(t)
      /\ \A i \in 1 .. Len(s) : u[i] = s[i]
      /\ \A i \in 1 .. Len(t) : u[Len(s) + i] = t[i]
  BY <1>1
<1>3. ASSUME NEW i \in 1 .. Len(u) - 1
      PROVE  Follows(kind, u[i], u[i + 1])
  <2>1. CASE i < Len(s)
    BY <1>1, <1>2, <2>1 DEF Chain
  <2>2. CASE i = Len(s)
    BY <1>1, <1>2, <2>2
  <2>3. CASE i > Len(s)
    <3> DEFINE j == i - Len(s)
    <3>1. j \in 1 .. Len(t) - 1 /\ j \in 1 .. Len(t) /\ j + 1 \in 1 .. Len(t)
      BY <1>1, <1>2, <2>3
    <3>2. Len(s) + j = i /\ Len(s) + (j + 1) = i + 1
      BY <1>1, <1>2, <2>3
    <3> HIDE DEF j
    <3>3. u[Len(s) + j] = t[j] /\ u[Len(s) + (j + 1)] = t[j + 1]
      BY <1>2, <3>1, Zenon
    <3> QED BY <3>1, <3>2, <3>3 DEF Chain
  <2> QED BY <1>1, <1>2, <2>1, <2>2, <2>3
<1>4. u # <<>> /\ a = u[1] /\ d = u[Len(u)]
  BY <1>1, <1>2
<1> QED BY <1>2, <1>3, <1>4 DEF Chain

LEMMA ChainIsAPath ==
    ASSUME NEW kind, NEW s, NEW a, NEW b, Chain(kind, s, a, b), MayEnd(kind, b)
    PROVE  Path(kind, s) /\ s[1] = a
<1>1. s \in Seq(StepsOf(kind)) /\ Len(s) \in Nat \ {0} /\ b = s[Len(s)]
  BY EmptySeq DEF Chain
<1>2. b \in StepsOf(kind)
  BY <1>1
<1> QED BY <1>2 DEF Path, Chain

LEMMA PathParts ==
    ASSUME NEW kind, NEW s, Path(kind, s)
    PROVE  /\ s \in Seq(StepsOf(kind)) /\ s # <<>> /\ Len(s) \in Nat \ {0}
           /\ \A i \in 1 .. Len(s) - 1 : Follows(kind, s[i], s[i + 1])
           /\ MayEnd(kind, s[Len(s)])
BY EmptySeq DEF Path, Chain

LEMMA TailIsAPath ==
    ASSUME NEW kind, NEW s, Path(kind, s), Len(s) # 1
    PROVE  /\ Path(kind, Tail(s))
           /\ Head(s) = s[1] /\ Head(Tail(s)) = s[2]
           /\ Follows(kind, Head(s), Head(Tail(s)))
<1> DEFINE r == Tail(s)
<1>1. s \in Seq(StepsOf(kind)) /\ Len(s) \in Nat /\ Len(s) >= 2
  <2>1. \A n \in Nat \ {0} : n # 1 => n >= 2
    OBVIOUS
  <2> QED BY <2>1, PathParts, Zenon
<1>2. r \in Seq(StepsOf(kind)) /\ Len(r) = Len(s) - 1
  BY <1>1
<1>3. r # <<>>
  <2>1. Len(s) - 1 # 0
    BY <1>1
  <2> QED BY <1>2, <2>1, EmptySeq, Zenon
<1>4. /\ \A i \in 1 .. Len(s) - 1 : r[i] = s[i + 1]
      /\ Head(s) = s[1] /\ Head(r) = r[1]
  BY <1>1, <1>2, <1>3
<1> HIDE DEF r
<1>5. Head(r) = s[2]
  BY <1>1, <1>4
<1>6. Follows(kind, s[1], s[2])
  BY <1>1, PathParts
<1>7. ASSUME NEW i \in 1 .. Len(r) - 1
      PROVE  Follows(kind, r[i], r[i + 1])
  <2>1. i + 1 \in 1 .. Len(s) - 1 /\ i \in 1 .. Len(s) - 1
    BY <1>1, <1>2
  <2>2. r[i] = s[i + 1] /\ r[i + 1] = s[i + 1 + 1]
    BY <1>4, <2>1
  <2> QED BY <2>1, <2>2, PathParts
<1>8. r[Len(r)] = s[Len(s)]
  BY <1>1, <1>2, <1>4
<1>9. Chain(kind, r, r[1], r[Len(r)]) /\ MayEnd(kind, r[Len(r)])
  BY <1>2, <1>3, <1>7, <1>8, PathParts DEF Chain
<1>10. Path(kind, r)
  BY <1>9, ChainIsAPath
<1> QED BY <1>4, <1>5, <1>6, <1>10 DEF r

(* The programs of the commands. *)

LEMMA EditProgram ==
    ASSUME NEW kind \in {"edit", "hotkey"}
    PROVE  LET todo == SaveSteps \o <<"commit">>
           IN  Path(kind, todo) /\ todo[1] = "write_tmp"
<1>1. Chain(kind, SaveSteps, "write_tmp", "replace")
  BY SaveIsAChain
<1>2. Chain(kind, <<"commit">>, "commit", "commit")
  BY OneStepIsAChain DEF StepsOf
<1>3. Follows(kind, "replace", "commit") /\ MayEnd(kind, "commit")
  BY DEF Follows, MayEnd
<1>4. Chain(kind, SaveSteps \o <<"commit">>, "write_tmp", "commit")
  BY <1>1, <1>2, <1>3, ChainGoesOn
<1> QED BY <1>3, <1>4, ChainIsAPath

LEMMA HistoryProgram ==
    LET end == <<"unlock", "commit">>
        short == <<>> \o SaveSteps \o end
        long == <<"policy", "retain">> \o SaveSteps \o end
    IN  /\ Path("history", short) /\ short[1] = "write_tmp"
        /\ Path("history", long) /\ long[1] = "policy"
<1> DEFINE end == <<"unlock", "commit">>
           first == <<"policy", "retain">>
<1>1. Chain("history", SaveSteps, "write_tmp", "replace")
  BY SaveIsAChain
<1>2. /\ Follows("history", "retain", "write_tmp")
      /\ Follows("history", "replace", "unlock")
      /\ Follows("history", "policy", "retain")
      /\ Follows("history", "unlock", "commit")
      /\ MayEnd("history", "commit")
  BY DEF Follows, MayEnd
<1>3. /\ Chain("history", end, "unlock", "commit")
      /\ Chain("history", first, "policy", "retain")
  BY <1>2, TwoStepsAreAChain DEF StepsOf
<1>4. <<>> \o SaveSteps = SaveSteps
  BY <1>1, ConcatEmptySeq DEF Chain
<1> HIDE DEF end, first
<1>5. Chain("history", SaveSteps \o end, "write_tmp", "commit")
  BY <1>1, <1>2, <1>3, ChainGoesOn
<1>6. Chain("history", first \o SaveSteps, "policy", "replace")
  BY <1>1, <1>2, <1>3, ChainGoesOn
<1>7. Chain("history", first \o SaveSteps \o end, "policy", "commit")
  BY <1>2, <1>3, <1>6, ChainGoesOn
<1>8. /\ Path("history", SaveSteps \o end)
      /\ (SaveSteps \o end)[1] = "write_tmp"
  BY <1>2, <1>5, ChainIsAPath
<1>9. /\ Path("history", first \o SaveSteps \o end)
      /\ (first \o SaveSteps \o end)[1] = "policy"
  BY <1>2, <1>7, ChainIsAPath
<1> QED BY <1>4, <1>8, <1>9 DEF end, first

LEMMA WordProgram ==
    ASSUME NEW kind \in {"words", "import"}
    PROVE  Path(kind, WordSteps) /\ WordSteps[1] = "words_tmp"
<1>1. Chain(kind, WordSteps, "words_tmp", "words_commit")
  BY WordsAreAChain
<1>2. MayEnd(kind, "words_commit")
  BY DEF MayEnd
<1> QED BY <1>1, <1>2, ChainIsAPath

LEMMA DeleteProgram ==
    LET todo == <<"delete", "reopen", "unseed">>
    IN  /\ Path("delete", todo) /\ todo[1] = "delete"
        /\ Path("delete", <<"reopen">>)
<1> DEFINE s == <<"delete", "reopen", "unseed">>
<1>1. s \in Seq(StepsOf("delete")) /\ s # <<>> /\ Len(s) = 3
  BY DEF StepsOf
<1>2. ASSUME NEW i \in 1 .. 2
      PROVE  Follows("delete", s[i], s[i + 1])
  <2>1. i = 1 \/ i = 2
    OBVIOUS
  <2> QED BY <2>1 DEF Follows
<1>3. Chain("delete", s, "delete", "unseed")
  BY <1>1, <1>2 DEF Chain
<1>4. Chain("delete", <<"reopen">>, "reopen", "reopen")
  BY OneStepIsAChain DEF StepsOf
<1>5. MayEnd("delete", "unseed") /\ MayEnd("delete", "reopen")
  BY DEF MayEnd
<1> QED BY <1>3, <1>4, <1>5, ChainIsAPath

LEMMA ResetProgram ==
    LET todo == WordSteps \o <<"drop_slot", "remove_settings", "remove_backup",
                               "remove_database">> \o SaveSteps
                \o <<"defaults", "reopen_default">>
    IN  Path("reset", todo) /\ todo[1] = "words_tmp"
<1> DEFINE middle == <<"drop_slot", "remove_settings", "remove_backup",
                       "remove_database">>
           end == <<"defaults", "reopen_default">>
<1>1. /\ Chain("reset", WordSteps, "words_tmp", "words_commit")
      /\ Chain("reset", SaveSteps, "write_tmp", "replace")
  BY SaveIsAChain, WordsAreAChain
<1>2. Chain("reset", middle, "drop_slot", "remove_database")
  <2>1. middle \in Seq(StepsOf("reset")) /\ middle # <<>> /\ Len(middle) = 4
    BY DEF StepsOf
  <2>2. ASSUME NEW i \in 1 .. 3
        PROVE  Follows("reset", middle[i], middle[i + 1])
    <3>1. i = 1 \/ i = 2 \/ i = 3
      OBVIOUS
    <3> QED BY <3>1 DEF Follows
  <2> QED BY <2>1, <2>2 DEF Chain
<1>3. /\ Follows("reset", "words_commit", "drop_slot")
      /\ Follows("reset", "remove_database", "write_tmp")
      /\ Follows("reset", "replace", "defaults")
      /\ Follows("reset", "defaults", "reopen_default")
      /\ MayEnd("reset", "reopen_default")
  BY DEF Follows, MayEnd
<1>4. Chain("reset", end, "defaults", "reopen_default")
  BY <1>3, TwoStepsAreAChain DEF StepsOf
<1> HIDE DEF middle, end
<1>5. Chain("reset", WordSteps \o middle, "words_tmp", "remove_database")
  BY <1>1, <1>2, <1>3, ChainGoesOn
<1>6. Chain("reset", WordSteps \o middle \o SaveSteps, "words_tmp", "replace")
  BY <1>1, <1>3, <1>5, ChainGoesOn
<1>7. Chain("reset", WordSteps \o middle \o SaveSteps \o end, "words_tmp",
            "reopen_default")
  BY <1>3, <1>4, <1>6, ChainGoesOn
<1>8. /\ Path("reset", WordSteps \o middle \o SaveSteps \o end)
      /\ (WordSteps \o middle \o SaveSteps \o end)[1] = "words_tmp"
  BY <1>3, <1>7, ChainIsAPath
<1> QED BY <1>8 DEF middle, end

LEMMA StartProgram ==
    /\ Path("start", <<"load", "seeds">>)
    /\ Path("start", <<"register">>)
    /\ \A settings, vocabulary \in BOOLEAN :
          LET todo == (IF settings THEN SaveSteps ELSE <<>>)
                      \o <<"adopt", "open_history", "seed_log", "open_words">>
                      \o (IF vocabulary THEN WordSteps ELSE <<>>)
                      \o <<"register">>
          IN  /\ Path("start", todo)
              /\ todo[1] = IF settings THEN "write_tmp" ELSE "adopt"
<1> DEFINE middle == <<"adopt", "open_history", "seed_log", "open_words">>
           end == <<"register">>
<1>1. /\ Chain("start", WordSteps, "words_tmp", "words_commit")
      /\ Chain("start", SaveSteps, "write_tmp", "replace")
  BY SaveIsAChain, WordsAreAChain
<1>2. Chain("start", middle, "adopt", "open_words")
  <2>1. middle \in Seq(StepsOf("start")) /\ middle # <<>> /\ Len(middle) = 4
    BY DEF StepsOf
  <2>2. ASSUME NEW i \in 1 .. 3
        PROVE  Follows("start", middle[i], middle[i + 1])
    <3>1. i = 1 \/ i = 2 \/ i = 3
      OBVIOUS
    <3> QED BY <3>1 DEF Follows
  <2> QED BY <2>1, <2>2 DEF Chain
<1>3. /\ Follows("start", "replace", "adopt")
      /\ Follows("start", "open_words", "words_tmp")
      /\ Follows("start", "open_words", "register")
      /\ Follows("start", "words_commit", "register")
      /\ Follows("start", "load", "seeds")
      /\ MayEnd("start", "register") /\ MayEnd("start", "seeds")
  BY DEF Follows, MayEnd
<1>4. /\ Chain("start", end, "register", "register")
      /\ Chain("start", <<"load", "seeds">>, "load", "seeds")
  BY <1>3, OneStepIsAChain, TwoStepsAreAChain DEF StepsOf
<1>5. Path("start", <<"load", "seeds">>) /\ Path("start", end)
  BY <1>3, <1>4, ChainIsAPath
<1> HIDE DEF middle, end
<1>6. ASSUME NEW first, NEW a, Chain("start", first, a, "open_words")
      PROVE  /\ Path("start", first \o WordSteps \o end)
             /\ (first \o WordSteps \o end)[1] = a
             /\ Path("start", first \o <<>> \o end)
             /\ (first \o <<>> \o end)[1] = a
  <2>1. Chain("start", first \o WordSteps, a, "words_commit")
    BY <1>1, <1>3, <1>6, ChainGoesOn
  <2>2. Chain("start", first \o WordSteps \o end, a, "register")
    BY <1>3, <1>4, <2>1, ChainGoesOn
  <2>3. first \o <<>> = first
    BY <1>6, ConcatEmptySeq DEF Chain
  <2>4. Chain("start", first \o end, a, "register")
    BY <1>3, <1>4, <1>6, ChainGoesOn
  <2> QED BY <1>3, <2>2, <2>3, <2>4, ChainIsAPath
<1>7. Chain("start", SaveSteps \o middle, "write_tmp", "open_words")
  BY <1>1, <1>2, <1>3, ChainGoesOn
<1>8. Chain("start", <<>> \o middle, "adopt", "open_words")
  <2>1. <<>> \o middle = middle
    BY <1>2, ConcatEmptySeq DEF Chain
  <2> QED BY <1>2, <2>1
<1>9. ASSUME NEW settings \in BOOLEAN, NEW vocabulary \in BOOLEAN
      PROVE  LET todo == (IF settings THEN SaveSteps ELSE <<>>) \o middle
                         \o (IF vocabulary THEN WordSteps ELSE <<>>) \o end
             IN  /\ Path("start", todo)
                 /\ todo[1] = IF settings THEN "write_tmp" ELSE "adopt"
  BY <1>6, <1>7, <1>8
<1> QED BY <1>5, <1>9 DEF middle, end

-----------------------------------------------------------------------------
(* The command of the main thread. *)

LEMMA WiderSeq ==
    ASSUME NEW S, NEW T, S \subseteq T, NEW s \in Seq(S)
    PROVE  s \in Seq(T)
OBVIOUS

LEMMA IdleIsNoCommand ==
    /\ Idle.kind = "none" /\ Idle.todo = <<>> /\ "none" \notin Kinds
    /\ job = Idle => job.kind = "none" /\ Step = "none"
    /\ job' = Idle => job'.kind = "none" /\ Step' = "none"
BY DEF Idle, Kinds, Step

LEMMA StepIsOfKind ==
    ASSUME JobTyped, NEW step, At(step)
    PROVE  /\ app # "down" /\ Step = step
           /\ job \in Command /\ job # Idle /\ job.kind \in Kinds
           /\ Path(job.kind, job.todo) /\ job.todo[1] = step
           /\ step \in StepsOf(job.kind)
<1>1. app # "down" /\ job.todo # <<>> /\ Head(job.todo) = step
  BY DEF At
<1>2. job # Idle
  BY <1>1, IdleIsNoCommand
<1>3. job \in Command /\ Path(job.kind, job.todo)
  BY <1>2 DEF JobTyped
<1>4. job.kind \in Kinds
  BY <1>3 DEF Command
<1>5. job.todo \in Seq(StepsOf(job.kind))
  BY <1>3 DEF Path, Chain
<1>6. Head(job.todo) \in StepsOf(job.kind) /\ Head(job.todo) = job.todo[1]
  BY <1>1, <1>5
<1>7. Step = step
  BY <1>1 DEF Step
<1> QED BY <1>1, <1>2, <1>3, <1>4, <1>6, <1>7

LEMMA KindIsKnown ==
    ASSUME JobTyped
    PROVE  \/ job = Idle /\ job.kind = "none" /\ Step = "none"
           \/ job # Idle /\ job.kind \in Kinds /\ Step \in StepsOf(job.kind)
<1>1. CASE job = Idle
  BY <1>1, IdleIsNoCommand
<1>2. CASE job # Idle
  <2>1. job \in Command /\ Path(job.kind, job.todo)
    BY <1>2 DEF JobTyped
  <2>2. job.kind \in Kinds
    BY <2>1 DEF Command
  <2>3. job.todo \in Seq(StepsOf(job.kind)) /\ job.todo # <<>>
    BY <2>1 DEF Path, Chain
  <2>4. Head(job.todo) \in StepsOf(job.kind)
    BY <2>3
  <2> QED BY <1>2, <2>2, <2>3, <2>4 DEF Step
<1> QED BY <1>1, <1>2

(* A step that is done is followed by the next of its kind, or was the last. *)
LEMMA CommandGoesOn ==
    ASSUME JobTyped, NEW step, At(step), Advance
    PROVE  /\ JobTyped' /\ (job' = Idle \/ job'.kind \in Kinds)
           /\ \/ job' = Idle /\ MayEnd(job.kind, step)
              \/ /\ job' # Idle
                 /\ job'.kind = job.kind /\ job'.cand = job.cand
                 /\ job'.terms = job.terms /\ job'.undo = job.undo
                 /\ Follows(job.kind, step, Step')
<1>1. /\ job \in Command /\ Path(job.kind, job.todo) /\ job.kind \in Kinds
      /\ job.todo[1] = step
  BY StepIsOfKind
<1>2. CASE Len(job.todo) = 1
  <2>1. job' = Idle
    BY <1>2 DEF Advance
  <2>2. MayEnd(job.kind, step)
    BY <1>1, <1>2, PathParts
  <2> QED BY <2>1, <2>2 DEF JobTyped
<1>3. CASE Len(job.todo) # 1
  <2>1. job' = [job EXCEPT !.todo = Tail(job.todo)]
    BY <1>3 DEF Advance
  <2>2. /\ Path(job.kind, Tail(job.todo))
        /\ Head(job.todo) = job.todo[1]
        /\ Follows(job.kind, Head(job.todo), Head(Tail(job.todo)))
    BY <1>1, <1>3, TailIsAPath
  <2>3. Tail(job.todo) \in Seq(StepsOf(job.kind)) /\ Tail(job.todo) # <<>>
    BY <2>2 DEF Path, Chain
  <2>4. StepsOf(job.kind) \subseteq AllSteps
    BY <1>1 DEF AllSteps
  <2>5. Tail(job.todo) \in Seq(AllSteps)
    BY <2>3, <2>4, WiderSeq
  <2>6. /\ job' \in Command /\ job'.todo = Tail(job.todo)
        /\ job'.kind = job.kind /\ job'.cand = job.cand
        /\ job'.terms = job.terms /\ job'.undo = job.undo
    BY <1>1, <2>1, <2>5 DEF Command
  <2>7. Step' = Head(Tail(job.todo))
    BY <2>3, <2>6 DEF Step
  <2>8. job' # Idle
    BY <2>3, <2>6, IdleIsNoCommand
  <2> QED BY <1>1, <2>2, <2>6, <2>7, <2>8 DEF JobTyped
<1> QED BY <1>2, <1>3

(* A command that begins has its program before it, and remembers the policy *)
(* and the binding to put back.                                              *)
LEMMA CommandBegins ==
    ASSUME StorageTyped, NEW kind \in Kinds, NEW todo, Path(kind, todo),
           NEW cand \in Settings \cup {NoSettings}, NEW terms \in SUBSET Terms,
           Begin(kind, todo, cand, terms)
    PROVE  /\ JobTyped' /\ job' # Idle /\ Step' = todo[1]
           /\ job'.kind = kind /\ job'.cand = cand /\ job'.terms = terms
           /\ job'.undo.slot = slot /\ job'.undo.binding = coordinator
<1> DEFINE undo == [slot |-> slot, binding |-> coordinator]
<1>1. undo \in [slot : Slots, binding : Bindings]
  BY DEF StorageTyped, TypeOK, Slots
<1>2. todo \in Seq(StepsOf(kind)) /\ todo # <<>>
  BY DEF Path, Chain
<1>3. todo \in Seq(AllSteps)
  <2>1. StepsOf(kind) \subseteq AllSteps
    BY DEF AllSteps
  <2> QED BY <1>2, <2>1
<1>4. job' = [kind |-> kind, todo |-> todo, cand |-> cand, terms |-> terms,
              undo |-> undo]
  BY DEF Begin
<1>5. /\ job'.kind = kind /\ job'.cand = cand /\ job'.terms = terms
      /\ job'.undo = undo /\ job'.todo = todo
  BY <1>4
<1>6. undo.slot = slot /\ undo.binding = coordinator
  OBVIOUS
<1> HIDE DEF undo
<1>7. job' \in Command
  BY <1>1, <1>3, <1>4 DEF Command
<1>8. Step' = todo[1]
  BY <1>2, <1>5 DEF Step
<1>9. job' # Idle
  BY <1>5, IdleIsNoCommand
<1> QED BY <1>5, <1>6, <1>7, <1>8, <1>9 DEF JobTyped

-----------------------------------------------------------------------------
(* A save that failed. *)

LEMMA SuffixIsAPath ==
    ASSUME NEW kind, NEW s, Path(kind, s), NEW k \in 1 .. Len(s)
    PROVE  /\ Path(kind, SubSeq(s, k, Len(s)))
           /\ SubSeq(s, k, Len(s))[1] = s[k]
<1> DEFINE r == SubSeq(s, k, Len(s))
<1>1. s \in Seq(StepsOf(kind)) /\ Len(s) \in Nat \ {0}
  BY PathParts
<1>2. /\ r \in Seq(StepsOf(kind)) /\ Len(r) = Len(s) - k + 1
      /\ \A i \in 1 .. Len(s) - k + 1 : r[i] = s[k + i - 1]
  BY <1>1
<1> HIDE DEF r
<1>3. Len(r) \in Nat \ {0} /\ r # <<>>
  <2>1. Len(r) \in Nat \ {0}
    BY <1>1, <1>2
  <2> QED BY <2>1, EmptySeq, Zenon
<1>4. r[1] = s[k] /\ r[Len(r)] = s[Len(s)]
  BY <1>1, <1>2
<1>5. ASSUME NEW i \in 1 .. Len(r) - 1
      PROVE  Follows(kind, r[i], r[i + 1])
  <2> DEFINE j == k + i - 1
  <2>1. /\ j \in 1 .. Len(s) - 1 /\ k + (i + 1) - 1 = j + 1
        /\ i \in 1 .. Len(s) - k + 1 /\ i + 1 \in 1 .. Len(s) - k + 1
    BY <1>1, <1>2
  <2>2. r[i] = s[j] /\ r[i + 1] = s[k + (i + 1) - 1]
    BY <1>2, <2>1
  <2> HIDE DEF j
  <2> QED BY <2>1, <2>2, PathParts
<1>6. Chain(kind, r, r[1], r[Len(r)]) /\ MayEnd(kind, r[Len(r)])
  BY <1>2, <1>3, <1>4, <1>5, PathParts DEF Chain
<1>7. Path(kind, r)
  BY <1>6, ChainIsAPath
<1> QED BY <1>4, <1>7 DEF r

LEMMA AdoptIsAhead ==
    ASSUME NEW s, Path("start", s), s[1] \in SaveNames
    PROVE  LET k == SelectInSeq(s, LAMBDA x : x = "adopt")
           IN  k \in 1 .. Len(s) /\ s[k] = "adopt"
<1> DEFINE I == {i \in 1 .. Len(s) : s[i] = "adopt"}
<1>1. /\ s \in Seq(StepsOf("start")) /\ Len(s) \in Nat \ {0}
      /\ \A i \in 1 .. Len(s) - 1 : Follows("start", s[i], s[i + 1])
      /\ MayEnd("start", s[Len(s)])
  BY PathParts
<1>2. ASSUME NEW i \in 1 .. Len(s), s[i] \in SaveNames
      PROVE  /\ i + 1 \in 1 .. Len(s)
             /\ s[i] = "write_tmp" => s[i + 1] = "copy_backup"
             /\ s[i] = "copy_backup" => s[i + 1] = "replace"
             /\ s[i] = "replace" => s[i + 1] = "adopt"
  <2>1. i # Len(s)
    BY <1>1, <1>2 DEF SaveNames, MayEnd
  <2>2. i \in 1 .. Len(s) - 1
    BY <1>1, <2>1
  <2>3. Follows("start", s[i], s[i + 1])
    BY <1>1, <2>2
  <2> QED BY <1>1, <2>2, <2>3 DEF Follows
<1>3. \E k \in I : \A i \in 1 .. Len(s) : i < k => s[i] # "adopt"
  <2>1. 1 \in 1 .. Len(s)
    BY <1>1
  <2>2. CASE s[1] = "replace"
    <3>1. 2 \in 1 .. Len(s) /\ s[2] = "adopt"
      BY <1>2, <2>1, <2>2
    <3> QED BY <2>2, <3>1
  <2>3. CASE s[1] = "copy_backup"
    <3>1. 2 \in 1 .. Len(s) /\ s[2] = "replace"
      BY <1>2, <2>1, <2>3
    <3>2. 3 \in 1 .. Len(s) /\ s[3] = "adopt"
      BY <1>2, <3>1 DEF SaveNames
    <3> QED BY <2>3, <3>1, <3>2
  <2>4. CASE s[1] = "write_tmp"
    <3>1. 2 \in 1 .. Len(s) /\ s[2] = "copy_backup"
      BY <1>2, <2>1, <2>4
    <3>2. 3 \in 1 .. Len(s) /\ s[3] = "replace"
      BY <1>2, <3>1 DEF SaveNames
    <3>3. 4 \in 1 .. Len(s) /\ s[4] = "adopt"
      BY <1>2, <3>2 DEF SaveNames
    <3> QED BY <2>4, <3>1, <3>2, <3>3
  <2> QED BY <2>2, <2>3, <2>4 DEF SaveNames
<1>4. \E k \in I : \A i \in I : k <= i
  BY <1>1, <1>3
<1>5. Min(I) \in I
  BY <1>4 DEF Min
<1>6. SelectInSeq(s, LAMBDA x : x = "adopt") = Min(I)
  BY <1>4 DEF SelectInSeq
<1> QED BY <1>5, <1>6

(* The startup goes on with what it has, the other commands are over. *)
LEMMA AbandonGoesOn ==
    ASSUME JobTyped, NEW step \in SaveNames, At(step), Abandon
    PROVE  /\ JobTyped' /\ (job' = Idle \/ job'.kind \in Kinds)
           /\ \/ /\ job.kind = "start" /\ job' # Idle
                 /\ job'.kind = job.kind /\ job'.cand = job.cand
                 /\ job'.terms = job.terms /\ job'.undo = job.undo
                 /\ Step' = "adopt"
                 /\ UNCHANGED <<history, hotkey>>
              \/ /\ job.kind # "start"
                 /\ job' = Idle /\ job'.kind = "none" /\ Step' = "none"
<1>1. /\ job \in Command /\ Path(job.kind, job.todo) /\ job.kind \in Kinds
      /\ job.todo[1] = step
  BY StepIsOfKind
<1>2. CASE job.kind # "start"
  <2>1. job' = Idle
    BY <1>2 DEF Abandon
  <2> QED BY <1>2, <2>1, IdleIsNoCommand DEF JobTyped
<1>3. CASE job.kind = "start"
  <2> DEFINE k == SelectInSeq(job.todo, LAMBDA s : s = "adopt")
             rest == SubSeq(job.todo, k, Len(job.todo))
  <2>1. job' = [job EXCEPT !.todo = rest] /\ UNCHANGED <<history, hotkey>>
    BY <1>3 DEF Abandon
  <2>2. k \in 1 .. Len(job.todo) /\ job.todo[k] = "adopt"
    BY <1>1, <1>3, AdoptIsAhead
  <2> HIDE DEF k
  <2>3. Path("start", rest) /\ rest[1] = "adopt"
    BY <1>1, <1>3, <2>2, SuffixIsAPath
  <2> HIDE DEF rest
  <2>4. rest \in Seq(StepsOf("start")) /\ rest # <<>>
    BY <2>3, PathParts
  <2>5. rest \in Seq(AllSteps)
    <3>1. StepsOf("start") \subseteq AllSteps
      BY DEF AllSteps, Kinds
    <3> QED BY <2>4, <3>1, WiderSeq
  <2>6. /\ job' \in Command /\ job'.todo = rest
        /\ job'.kind = job.kind /\ job'.cand = job.cand
        /\ job'.terms = job.terms /\ job'.undo = job.undo
    BY <1>1, <2>1, <2>5 DEF Command
  <2>7. Step' = "adopt"
    BY <2>3, <2>4, <2>6 DEF Step
  <2>8. job' # Idle
    BY <2>4, <2>6, IdleIsNoCommand
  <2> QED BY <1>1, <1>3, <2>1, <2>3, <2>6, <2>7, <2>8 DEF JobTyped
<1> QED BY <1>2, <1>3

-----------------------------------------------------------------------------
(* The steps of a save.  Here and below an action has a lemma that says which *)
(* command is at which step before it, which step is next, and then why each  *)
(* part of the invariant is kept.                                             *)

LEMMA WriteTemporaryKeeps ==
    ASSUME StorageInv, WriteTemporary,
           UNCHANGED <<ghosts, dictations, jobs, launches, kills, damage>>
    PROVE  StorageInv'
<1> USE DEF StorageInv
<1>1. /\ app # "down" /\ Step = "write_tmp"
      /\ job.kind \in {"edit", "hotkey", "history", "reset", "start"}
  BY StepIsOfKind DEF WriteTemporary, StepsOf, WordNames, SaveNames, Kinds
<1>2. /\ JobTyped' /\ job'.kind = job.kind /\ job'.cand = job.cand
      /\ job'.terms = job.terms /\ job'.undo = job.undo
      /\ job'.kind \in Kinds /\ job' # Idle /\ Step' = "copy_backup"
  BY <1>1, CommandGoesOn DEF WriteTemporary, Follows, MayEnd
<1> USE DEF WriteTemporary, NoFault, saveUnchanged, profile, person,
      history, hotkey, ghosts, WordNames, SaveNames
<1>3. StorageTyped'
  BY <1>1, <1>2 DEF StorageTyped, TypeOK
<1>4. AppMatchesJob'
  BY <1>1, <1>2 DEF AppMatchesJob
<1>5. CandidateIsAsked'
  BY <1>1, <1>2 DEF CandidateIsAsked
<1>6. PolicyFollows'
  BY <1>1, <1>2 DEF PolicyFollows
<1>7. ShortcutFollows'
  BY <1>1, <1>2 DEF ShortcutFollows, LiveBinding
<1>8. WordsFollow'
  BY <1>1, <1>2 DEF WordsFollow, WordsInUse, WordsSaved, WordsAreThePrimary,
      BackupHasTheWords
<1>9. FilesFollow'
  BY <1>1, <1>2 DEF FilesFollow
<1> QED BY <1>1, <1>2, <1>3, <1>4, <1>5, <1>6, <1>7, <1>8, <1>9

LEMMA CopyBackupKeeps ==
    ASSUME StorageInv, CopyBackup,
           UNCHANGED <<ghosts, dictations, jobs, launches, kills, damage>>
    PROVE  StorageInv'
<1> USE DEF StorageInv
<1>1. /\ app # "down" /\ Step = "copy_backup"
      /\ job.kind \in {"edit", "hotkey", "history", "reset", "start"}
  BY StepIsOfKind DEF CopyBackup, StepsOf, WordNames, SaveNames, Kinds
<1>2. /\ JobTyped' /\ job'.kind = job.kind /\ job'.cand = job.cand
      /\ job'.terms = job.terms /\ job'.undo = job.undo
      /\ job'.kind \in Kinds /\ job' # Idle /\ Step' = "replace"
  BY <1>1, CommandGoesOn DEF CopyBackup, Follows, MayEnd
<1> USE DEF CopyBackup, NoFault, saveUnchanged, profile, person, history,
      hotkey, ghosts, WordNames, SaveNames
<1>3. StorageTyped'
  BY <1>1, <1>2 DEF StorageTyped, TypeOK
<1>4. AppMatchesJob'
  BY <1>1, <1>2 DEF AppMatchesJob
<1>5. CandidateIsAsked'
  BY <1>1, <1>2 DEF CandidateIsAsked
<1>6. PolicyFollows'
  BY <1>1, <1>2 DEF PolicyFollows
<1>7. ShortcutFollows'
  BY <1>1, <1>2 DEF ShortcutFollows, LiveBinding
<1>8. WordsFollow'
  BY <1>1, <1>2 DEF WordsFollow, WordsInUse, WordsSaved, WordsAreThePrimary,
      BackupHasTheWords
<1>9. FilesFollow'
  BY <1>1, <1>2 DEF FilesFollow
<1> QED BY <1>1, <1>2, <1>3, <1>4, <1>5, <1>6, <1>7, <1>8, <1>9

LEMMA ReplaceKeeps ==
    ASSUME StorageInv, Replace,
           UNCHANGED <<ghosts, dictations, jobs, launches, kills, damage>>
    PROVE  StorageInv'
<1> USE DEF StorageInv
<1>1. /\ app # "down" /\ Step = "replace"
      /\ job.kind \in {"edit", "hotkey", "history", "reset", "start"}
  BY StepIsOfKind DEF Replace, StepsOf, WordNames, SaveNames, Kinds
<1>2. /\ JobTyped' /\ job'.kind = job.kind /\ job'.cand = job.cand
      /\ job'.terms = job.terms /\ job'.undo = job.undo
      /\ job'.kind \in Kinds /\ job' # Idle
      /\ Step' = IF job.kind = "history" THEN "unlock"
                 ELSE IF job.kind = "reset" THEN "defaults"
                 ELSE IF job.kind = "start" THEN "adopt" ELSE "commit"
  BY <1>1, CommandGoesOn DEF Replace, Follows, MayEnd
<1>3. job.cand \in Settings /\ job.cand = asked
  BY <1>1 DEF CandidateIsAsked, SaveNames
<1> USE DEF Replace, NoFault, saveUnchanged, profile, person, history,
      hotkey, ghosts, WordNames, SaveNames
<1>4. StorageTyped'
  BY <1>1, <1>2, <1>3 DEF StorageTyped, TypeOK, Good, SettingsFiles
<1>5. AppMatchesJob'
  BY <1>1, <1>2, <1>3 DEF AppMatchesJob
<1>6. CandidateIsAsked'
  BY <1>1, <1>2, <1>3 DEF CandidateIsAsked
<1>7. PolicyFollows'
  BY <1>1, <1>2, <1>3 DEF PolicyFollows
<1>8. ShortcutFollows'
  BY <1>1, <1>2, <1>3 DEF ShortcutFollows, LiveBinding
<1>9. WordsFollow'
  BY <1>1, <1>2, <1>3 DEF WordsFollow, WordsInUse, WordsSaved,
      WordsAreThePrimary, BackupHasTheWords
<1>10. FilesFollow'
  BY <1>1, <1>2, <1>3 DEF FilesFollow, Good, Absent, CandidateIsAsked
<1> QED BY <1>1, <1>2, <1>3, <1>4, <1>5, <1>6, <1>7, <1>8, <1>9, <1>10

(* A save that is refused, or fails before or while it copies or renames. *)
LEMMA GivingUpKeeps ==
    ASSUME StorageInv, NEW step \in SaveNames,
           At(step),
           Abandon,
           faults' \in {faults, faults + 1},
           \/ UNCHANGED sbak
           \/ /\ step = "copy_backup" /\ sfile # Absent
              /\ sbak' \in {sbak, Corrupt, sfile},
           UNCHANGED <<sfile, saveUnchanged>>,
           UNCHANGED <<ghosts, dictations, jobs, launches, kills, damage>>
    PROVE  StorageInv'
<1> USE DEF StorageInv
<1>1. /\ app # "down" /\ Step = step
      /\ job.kind \in {"edit", "hotkey", "history", "reset", "start"}
  BY StepIsOfKind DEF StepsOf, WordNames, SaveNames, Kinds
<1>2. /\ JobTyped' /\ (job' = Idle \/ job'.kind \in Kinds)
      /\ \/ /\ job.kind = "start" /\ job' # Idle
            /\ job'.kind = job.kind /\ job'.cand = job.cand
            /\ job'.terms = job.terms /\ job'.undo = job.undo
            /\ Step' = "adopt"
         \/ /\ job.kind # "start"
            /\ job' = Idle /\ job'.kind = "none" /\ Step' = "none"
  BY AbandonGoesOn
<1>3. /\ taken' = taken /\ initializationError' = initializationError
      /\ slot' = IF job.kind = "history" THEN job.undo.slot ELSE slot
      /\ coordinator' = IF job.kind = "hotkey" THEN job.undo.binding
                        ELSE coordinator
      /\ registered' = IF job.kind = "hotkey" THEN LiveBinding' ELSE registered
  BY <1>1 DEF Abandon, history, hotkey, LiveBinding
<1>4. job.undo.slot \in Slots /\ job.undo.binding \in Bindings
  BY StepIsOfKind DEF Command
<1> USE DEF saveUnchanged, profile, person, AppMatchesJob, SaveNames,
      WordNames
<1>5. StorageTyped'
  BY <1>1, <1>2, <1>3, <1>4 DEF StorageTyped, TypeOK, Absent, Corrupt,
      SettingsFiles, Slots, LiveBinding, NoBinding, ghosts
<1>6. AppMatchesJob'
  BY <1>1, <1>2, <1>3, <1>4 DEF Absent, Corrupt, ghosts
<1>7. CandidateIsAsked'
  BY <1>1, <1>2, <1>3, <1>4 DEF CandidateIsAsked, Absent, Corrupt, ghosts
<1>8. PolicyFollows'
  <2>1. CASE job.kind = "start"
    BY <1>1, <1>2, <1>3, <1>4, <2>1 DEF PolicyFollows
  <2>2. CASE job.kind = "history"
    BY <1>1, <1>2, <1>3, <1>4, <2>2 DEF PolicyFollows
  <2>3. CASE job.kind \notin {"start", "history"}
    BY <1>1, <1>2, <1>3, <1>4, <2>3 DEF PolicyFollows
  <2> QED BY <2>1, <2>2, <2>3, <1>1, <1>2, <1>3, <1>4
<1>9. ShortcutFollows'
  BY <1>1, <1>2, <1>3, <1>4 DEF ShortcutFollows, LiveBinding, Absent, Corrupt,
      ghosts
<1>10. WordsFollow'
  <2>1. CASE job.kind = "start"
    BY <1>1, <1>2, <1>3, <1>4, <2>1 DEF WordsFollow, WordsInUse, WordsSaved,
        WordsAreThePrimary, BackupHasTheWords, StorageTyped
  <2>2. CASE job.kind # "start"
    BY <1>1, <1>2, <1>3, <1>4, <2>2 DEF WordsFollow, WordsInUse, WordsSaved,
        WordsAreThePrimary, BackupHasTheWords, StorageTyped
  <2> QED BY <2>1, <2>2, <1>1, <1>2, <1>3, <1>4
<1>11. FilesFollow'
  BY <1>1, <1>2, <1>3, <1>4 DEF FilesFollow, Absent, Corrupt, ghosts
<1> QED BY <1>1, <1>2, <1>3, <1>4, <1>5, <1>6, <1>7, <1>8, <1>9, <1>10, <1>11

-----------------------------------------------------------------------------
(* The commands that change a setting. *)

LEMMA EditSettingKeeps ==
    ASSUME StorageInv, EditSetting
    PROVE  StorageInv'
<1> USE DEF StorageInv
<1>1. app = "up" /\ job = Idle /\ job.kind = "none" /\ Step = "none"
  BY IdleIsNoCommand DEF EditSetting, Ready
<1> DEFINE cand == [mem EXCEPT !.other = ~@]
           todo == SaveSteps \o <<"commit">>
<1>2. Path("edit", todo) /\ todo[1] = "write_tmp"
  BY EditProgram
<1>3. /\ cand \in Settings /\ cand.history = mem.history
      /\ cand.hotkey = mem.hotkey
  BY DEF StorageTyped, TypeOK, Settings
<1>4. /\ Begin("edit", todo, cand, {})
      /\ asked' = cand /\ jobs' = jobs + 1
      /\ UNCHANGED <<commandUnchanged, hotkey>>
  BY DEF EditSetting
<1> HIDE DEF cand, todo
<1>5. /\ JobTyped' /\ job' # Idle /\ job'.kind = "edit" /\ job'.kind \in Kinds
      /\ Step' = "write_tmp" /\ job'.cand = cand
      /\ job'.undo.slot = slot /\ job'.undo.binding = coordinator
  BY <1>2, <1>3, <1>4, CommandBegins DEF Kinds
<1> USE DEF Ready, commandUnchanged, disk, profile, person, history, hotkey
<1>6. StorageTyped'
  BY <1>1, <1>2, <1>3, <1>4, <1>5 DEF StorageTyped, TypeOK
<1>7. AppMatchesJob'
  BY <1>1, <1>2, <1>3, <1>4, <1>5 DEF AppMatchesJob
<1>8. CandidateIsAsked'
  BY <1>1, <1>2, <1>3, <1>4, <1>5 DEF CandidateIsAsked
<1>9. PolicyFollows'
  BY <1>1, <1>2, <1>3, <1>4, <1>5 DEF PolicyFollows, WordNames
<1>10. ShortcutFollows'
  BY <1>1, <1>2, <1>3, <1>4, <1>5 DEF ShortcutFollows, LiveBinding, WordNames
<1>11. WordsFollow'
  BY <1>1, <1>2, <1>3, <1>4, <1>5 DEF WordsFollow, WordsInUse, WordsSaved,
      WordsAreThePrimary, BackupHasTheWords, WordNames
<1>12. FilesFollow'
  BY <1>1, <1>2, <1>3, <1>4, <1>5 DEF FilesFollow, SaveNames
<1> QED BY <1>1, <1>2, <1>3, <1>4, <1>5, <1>6, <1>7, <1>8, <1>9, <1>10, <1>11,
      <1>12

LEMMA HotkeyConfigureKeeps ==
    ASSUME StorageInv, NEW binding \in Bindings,
           HotkeyConfigure(binding),
           binding \notin taken
    PROVE  StorageInv'
<1> USE DEF StorageInv
<1>1. app = "up" /\ job = Idle /\ job.kind = "none" /\ Step = "none"
  BY IdleIsNoCommand DEF HotkeyConfigure, Ready
<1> DEFINE cand == [mem EXCEPT !.hotkey = binding]
           todo == SaveSteps \o <<"commit">>
<1>2. Path("hotkey", todo) /\ todo[1] = "write_tmp"
  BY EditProgram
<1>3. /\ cand \in Settings /\ cand.history = mem.history
      /\ cand.hotkey = binding
  BY DEF StorageTyped, TypeOK, Settings
<1>4. /\ Begin("hotkey", todo, cand, {})
      /\ asked' = cand /\ jobs' = jobs + 1
      /\ coordinator' = binding /\ registered' = binding
      /\ UNCHANGED <<commandUnchanged, taken>>
  BY DEF HotkeyConfigure
<1> HIDE DEF cand, todo
<1>5. /\ JobTyped' /\ job' # Idle /\ job'.kind = "hotkey" /\ job'.kind \in Kinds
      /\ Step' = "write_tmp" /\ job'.cand = cand
      /\ job'.undo.slot = slot /\ job'.undo.binding = coordinator
  BY <1>2, <1>3, <1>4, CommandBegins DEF Kinds
<1> USE DEF Ready, commandUnchanged, disk, profile, person, history
<1>6. StorageTyped'
  BY <1>1, <1>2, <1>3, <1>4, <1>5 DEF StorageTyped, TypeOK
<1>7. AppMatchesJob'
  BY <1>1, <1>2, <1>3, <1>4, <1>5 DEF AppMatchesJob
<1>8. CandidateIsAsked'
  BY <1>1, <1>2, <1>3, <1>4, <1>5 DEF CandidateIsAsked
<1>9. PolicyFollows'
  BY <1>1, <1>2, <1>3, <1>4, <1>5 DEF PolicyFollows, WordNames
<1>10. ShortcutFollows'
  BY <1>1, <1>2, <1>3, <1>4, <1>5 DEF ShortcutFollows, LiveBinding, WordNames
<1>11. WordsFollow'
  BY <1>1, <1>2, <1>3, <1>4, <1>5 DEF WordsFollow, WordsInUse, WordsSaved,
      WordsAreThePrimary, BackupHasTheWords, WordNames
<1>12. FilesFollow'
  BY <1>1, <1>2, <1>3, <1>4, <1>5 DEF FilesFollow, SaveNames
<1> QED BY <1>1, <1>2, <1>3, <1>4, <1>5, <1>6, <1>7, <1>8, <1>9, <1>10, <1>11,
      <1>12

LEMMA HotkeyTakenKeeps ==
    ASSUME StorageInv, NEW binding \in Bindings,
           HotkeyConfigure(binding),
           binding \in taken
    PROVE  StorageInv'
<1> USE DEF StorageInv
<1>1. app = "up" /\ job = Idle /\ job.kind = "none" /\ Step = "none"
  BY IdleIsNoCommand DEF HotkeyConfigure, Ready
<1>2. /\ UNCHANGED <<job, coordinator, asked, taken>> /\ registered' = LiveBinding
      /\ jobs' = jobs + 1
  BY DEF HotkeyConfigure, LiveBinding
<1>3. JobTyped' /\ job'.kind = "none" /\ Step' = "none"
  BY <1>1, <1>2, IdleIsNoCommand DEF JobTyped
<1> USE DEF HotkeyConfigure, Ready, commandUnchanged, disk, profile, person,
      history
<1>4. StorageTyped'
  BY <1>1, <1>2, <1>3 DEF StorageTyped, TypeOK
<1>5. AppMatchesJob'
  BY <1>1, <1>2, <1>3 DEF AppMatchesJob
<1>6. CandidateIsAsked'
  BY <1>1, <1>2, <1>3 DEF CandidateIsAsked
<1>7. PolicyFollows'
  BY <1>1, <1>2, <1>3 DEF PolicyFollows, WordNames
<1>8. ShortcutFollows'
  BY <1>1, <1>2, <1>3 DEF ShortcutFollows, LiveBinding, WordNames
<1>9. WordsFollow'
  BY <1>1, <1>2, <1>3 DEF WordsFollow, WordsInUse, WordsSaved,
      WordsAreThePrimary, BackupHasTheWords, WordNames
<1>10. FilesFollow'
  BY <1>1, <1>2, <1>3 DEF FilesFollow, SaveNames
<1> QED BY <1>1, <1>2, <1>3, <1>4, <1>5, <1>6, <1>7, <1>8, <1>9, <1>10

LEMMA HistoryConfigureKeeps ==
    ASSUME StorageInv, NEW mode \in HistoryModes,
           HistoryConfigure(mode)
    PROVE  StorageInv'
<1> USE DEF StorageInv
<1>1. app = "up" /\ job = Idle /\ job.kind = "none" /\ Step = "none"
  BY IdleIsNoCommand DEF HistoryConfigure, Ready
<1> DEFINE cand == [mem EXCEPT !.history = mode]
           first == IF slot = NoSlot THEN <<>> ELSE <<"policy", "retain">>
           todo == first \o SaveSteps \o <<"unlock", "commit">>
<1>2. /\ cand \in Settings /\ cand.history = mode
      /\ cand.hotkey = mem.hotkey
  BY DEF StorageTyped, TypeOK, Settings
<1>3. /\ Path("history", todo)
      /\ todo[1] = IF slot = NoSlot THEN "write_tmp" ELSE "policy"
  BY HistoryProgram
<1>4. /\ Begin("history", todo, cand, {})
      /\ asked' = cand /\ jobs' = jobs + 1
      /\ UNCHANGED <<commandUnchanged, hotkey>>
  BY DEF HistoryConfigure
<1> HIDE DEF cand, todo
<1>5. /\ JobTyped' /\ job' # Idle /\ job'.kind = "history" /\ job'.kind \in Kinds
      /\ job'.cand = cand /\ job'.undo.slot = slot
      /\ Step' = IF slot = NoSlot THEN "write_tmp" ELSE "policy"
  BY <1>2, <1>3, <1>4, CommandBegins DEF Kinds
<1> USE DEF Ready, commandUnchanged, disk, profile, person, history, hotkey
<1>6. StorageTyped'
  BY <1>1, <1>2, <1>3, <1>4, <1>5 DEF StorageTyped, TypeOK
<1>7. AppMatchesJob'
  BY <1>1, <1>2, <1>3, <1>4, <1>5 DEF AppMatchesJob
<1>8. CandidateIsAsked'
  BY <1>1, <1>2, <1>3, <1>4, <1>5 DEF CandidateIsAsked
<1>9. PolicyFollows'
  BY <1>1, <1>2, <1>3, <1>4, <1>5 DEF PolicyFollows, WordNames
<1>10. ShortcutFollows'
  BY <1>1, <1>2, <1>3, <1>4, <1>5 DEF ShortcutFollows, LiveBinding, WordNames
<1>11. WordsFollow'
  BY <1>1, <1>2, <1>3, <1>4, <1>5 DEF WordsFollow, WordsInUse, WordsSaved,
      WordsAreThePrimary, BackupHasTheWords, WordNames
<1>12. FilesFollow'
  BY <1>1, <1>2, <1>3, <1>4, <1>5 DEF FilesFollow, SaveNames
<1> QED BY <1>1, <1>2, <1>3, <1>4, <1>5, <1>6, <1>7, <1>8, <1>9, <1>10, <1>11,
      <1>12

LEMMA SetPolicyKeeps ==
    ASSUME StorageInv, SetPolicy
    PROVE  StorageInv'
<1> USE DEF StorageInv
<1>1. /\ app # "down" /\ Step = "policy"
      /\ job.kind = "history"
  BY StepIsOfKind DEF SetPolicy, StepsOf, WordNames, SaveNames, Kinds
<1>2. app = "up"
  BY <1>1 DEF StorageTyped, TypeOK, AppMatchesJob
<1>3. /\ JobTyped' /\ job'.kind = job.kind /\ job'.cand = job.cand
      /\ job'.terms = job.terms /\ job'.undo = job.undo
      /\ job'.kind \in Kinds /\ job' # Idle /\ Step' = "retain"
  BY <1>1, CommandGoesOn DEF SetPolicy, Follows, MayEnd
<1>4. job.cand \in Settings
  BY <1>1 DEF CandidateIsAsked
<1> USE DEF SetPolicy, Settings, ghosts, bounds, disk, profile, person,
      history, hotkey, WordNames, SaveNames
<1>5. StorageTyped'
  BY <1>1, <1>2, <1>3, <1>4 DEF StorageTyped, TypeOK
<1>6. AppMatchesJob'
  BY <1>1, <1>2, <1>3, <1>4 DEF AppMatchesJob
<1>7. CandidateIsAsked'
  BY <1>1, <1>2, <1>3, <1>4 DEF CandidateIsAsked
<1>8. PolicyFollows'
  BY <1>1, <1>2, <1>3, <1>4 DEF PolicyFollows
<1>9. ShortcutFollows'
  BY <1>1, <1>2, <1>3, <1>4 DEF ShortcutFollows, LiveBinding
<1>10. WordsFollow'
  BY <1>1, <1>2, <1>3, <1>4 DEF WordsFollow, WordsInUse, WordsSaved,
      WordsAreThePrimary, BackupHasTheWords
<1>11. FilesFollow'
  BY <1>1, <1>2, <1>3, <1>4 DEF FilesFollow
<1> QED BY <1>1, <1>2, <1>3, <1>4, <1>5, <1>6, <1>7, <1>8, <1>9, <1>10, <1>11

LEMMA RetentionAppliedKeeps ==
    ASSUME StorageInv, At("retain"),
           Advance,
           rows' = Retained(slot),
           NoFault,
           UNCHANGED slot,
           UNCHANGED <<sfile, sbak, pfile, pbak, seeds, app, profile, person,
                       initializationError, log, hotkey, storing, ghosts,
                       dictations, jobs, launches, kills, damage>>
    PROVE  StorageInv'
<1> USE DEF StorageInv
<1>1. /\ app # "down" /\ Step = "retain"
      /\ job.kind = "history"
  BY StepIsOfKind DEF Retained, StepsOf, WordNames, SaveNames, Kinds
<1>2. app = "up"
  BY <1>1 DEF StorageTyped, TypeOK, AppMatchesJob
<1>3. /\ JobTyped' /\ job'.kind = job.kind /\ job'.cand = job.cand
      /\ job'.terms = job.terms /\ job'.undo = job.undo
      /\ job'.kind \in Kinds /\ job' # Idle /\ Step' = "write_tmp"
  BY <1>1, CommandGoesOn DEF Retained, Follows, MayEnd
<1>4. rows' \subseteq rows
  BY DEF Retained
<1> USE DEF NoFault, ghosts, profile, person, history, hotkey, WordNames,
      SaveNames
<1>5. StorageTyped'
  BY <1>1, <1>2, <1>3, <1>4 DEF StorageTyped, TypeOK
<1>6. AppMatchesJob'
  BY <1>1, <1>2, <1>3, <1>4 DEF AppMatchesJob
<1>7. CandidateIsAsked'
  BY <1>1, <1>2, <1>3, <1>4 DEF CandidateIsAsked
<1>8. PolicyFollows'
  BY <1>1, <1>2, <1>3, <1>4 DEF PolicyFollows
<1>9. ShortcutFollows'
  BY <1>1, <1>2, <1>3, <1>4 DEF ShortcutFollows, LiveBinding
<1>10. WordsFollow'
  BY <1>1, <1>2, <1>3, <1>4 DEF WordsFollow, WordsInUse, WordsSaved,
      WordsAreThePrimary, BackupHasTheWords
<1>11. FilesFollow'
  BY <1>1, <1>2, <1>3, <1>4 DEF FilesFollow
<1> QED BY <1>1, <1>2, <1>3, <1>4, <1>5, <1>6, <1>7, <1>8, <1>9, <1>10, <1>11

LEMMA RetentionFailedKeeps ==
    ASSUME StorageInv, At("retain"),
           Fault,
           job' = Idle,
           slot' = job.undo.slot,
           UNCHANGED rows,
           UNCHANGED <<sfile, sbak, pfile, pbak, seeds, app, profile, person,
                       initializationError, log, hotkey, storing, ghosts,
                       dictations, jobs, launches, kills, damage>>
    PROVE  StorageInv'
<1> USE DEF StorageInv
<1>1. /\ app # "down" /\ Step = "retain"
      /\ job.kind = "history"
  BY StepIsOfKind DEF Retained, StepsOf, WordNames, SaveNames, Kinds
<1>2. app = "up"
  BY <1>1 DEF StorageTyped, TypeOK, AppMatchesJob
<1>3. /\ JobTyped' /\ job'.kind = "none" /\ Step' = "none"
  BY IdleIsNoCommand DEF JobTyped
<1>4. job.undo.slot \in Slots
  BY StepIsOfKind DEF Command
<1> USE DEF Fault, Slots, ghosts, profile, person, history, hotkey,
      WordNames, SaveNames
<1>5. StorageTyped'
  BY <1>1, <1>2, <1>3, <1>4 DEF StorageTyped, TypeOK
<1>6. AppMatchesJob'
  BY <1>1, <1>2, <1>3, <1>4 DEF AppMatchesJob
<1>7. CandidateIsAsked'
  BY <1>1, <1>2, <1>3, <1>4 DEF CandidateIsAsked
<1>8. PolicyFollows'
  BY <1>1, <1>2, <1>3, <1>4 DEF PolicyFollows
<1>9. ShortcutFollows'
  BY <1>1, <1>2, <1>3, <1>4 DEF ShortcutFollows, LiveBinding
<1>10. WordsFollow'
  BY <1>1, <1>2, <1>3, <1>4 DEF WordsFollow, WordsInUse, WordsSaved,
      WordsAreThePrimary, BackupHasTheWords, StorageTyped
<1>11. FilesFollow'
  BY <1>1, <1>2, <1>3, <1>4 DEF FilesFollow
<1> QED BY <1>1, <1>2, <1>3, <1>4, <1>5, <1>6, <1>7, <1>8, <1>9, <1>10, <1>11

LEMMA DropSlotLockKeeps ==
    ASSUME StorageInv, DropSlotLock
    PROVE  StorageInv'
<1> USE DEF StorageInv
<1>1. /\ app # "down" /\ Step = "unlock"
      /\ job.kind = "history"
  BY StepIsOfKind DEF DropSlotLock, StepsOf, WordNames, SaveNames, Kinds
<1>2. app = "up"
  BY <1>1 DEF StorageTyped, TypeOK, AppMatchesJob
<1>3. /\ JobTyped' /\ job'.kind = job.kind /\ job'.cand = job.cand
      /\ job'.terms = job.terms /\ job'.undo = job.undo
      /\ job'.kind \in Kinds /\ job' # Idle /\ Step' = "commit"
  BY <1>1, CommandGoesOn DEF DropSlotLock, Follows, MayEnd
<1> USE DEF DropSlotLock, ghosts, bounds, disk, profile, person, history,
      hotkey, WordNames, SaveNames
<1>4. StorageTyped'
  BY <1>1, <1>2, <1>3 DEF StorageTyped, TypeOK
<1>5. AppMatchesJob'
  BY <1>1, <1>2, <1>3 DEF AppMatchesJob
<1>6. CandidateIsAsked'
  BY <1>1, <1>2, <1>3 DEF CandidateIsAsked
<1>7. PolicyFollows'
  BY <1>1, <1>2, <1>3 DEF PolicyFollows
<1>8. ShortcutFollows'
  BY <1>1, <1>2, <1>3 DEF ShortcutFollows, LiveBinding
<1>9. WordsFollow'
  BY <1>1, <1>2, <1>3 DEF WordsFollow, WordsInUse, WordsSaved,
      WordsAreThePrimary, BackupHasTheWords
<1>10. FilesFollow'
  BY <1>1, <1>2, <1>3 DEF FilesFollow
<1> QED BY <1>1, <1>2, <1>3, <1>4, <1>5, <1>6, <1>7, <1>8, <1>9, <1>10

LEMMA CommitKeeps ==
    ASSUME StorageInv, Commit
    PROVE  StorageInv'
<1> USE DEF StorageInv
<1>1. /\ app # "down" /\ Step = "commit"
      /\ job.kind \in {"edit", "hotkey", "history"}
  BY StepIsOfKind DEF Commit, StepsOf, WordNames, SaveNames, Kinds
<1>2. app = "up"
  BY <1>1 DEF StorageTyped, TypeOK, AppMatchesJob
<1>3. /\ JobTyped' /\ job' = Idle /\ job'.kind = "none" /\ Step' = "none"
  BY <1>1, CommandGoesOn, IdleIsNoCommand DEF Commit, Follows, MayEnd
<1>4. job.cand \in Settings /\ job.cand = asked
  BY <1>1 DEF CandidateIsAsked
<1>5. /\ mem' = job.cand /\ acked' = job.cand
      /\ before \cup {acked} \subseteq before' \cup {acked'}
      /\ before' \subseteq before \cup {acked}
  BY DEF Commit, Acknowledge
<1> USE DEF Commit, bounds, disk, person, history, hotkey, WordNames,
      SaveNames
<1>6. StorageTyped'
  BY <1>1, <1>2, <1>3, <1>4, <1>5 DEF StorageTyped, TypeOK
<1>7. AppMatchesJob'
  BY <1>1, <1>2, <1>3, <1>4, <1>5 DEF AppMatchesJob
<1>8. CandidateIsAsked'
  BY <1>1, <1>2, <1>3, <1>4, <1>5 DEF CandidateIsAsked
<1>9. PolicyFollows'
  BY <1>1, <1>2, <1>3, <1>4, <1>5 DEF PolicyFollows
<1>10. ShortcutFollows'
  BY <1>1, <1>2, <1>3, <1>4, <1>5 DEF ShortcutFollows, LiveBinding
<1>11. WordsFollow'
  BY <1>1, <1>2, <1>3, <1>4, <1>5 DEF WordsFollow, WordsInUse, WordsSaved,
      WordsAreThePrimary, BackupHasTheWords
<1>12. FilesFollow'
  BY <1>1, <1>2, <1>3, <1>4, <1>5 DEF FilesFollow, Good, Absent
<1> QED BY <1>1, <1>2, <1>3, <1>4, <1>5, <1>6, <1>7, <1>8, <1>9, <1>10, <1>11,
      <1>12

-----------------------------------------------------------------------------
(* The words. *)

(* A command that skips to another part of its program. *)
LEMMA CommandGoesOnWith ==
    ASSUME NEW kind \in Kinds, NEW todo, Path(kind, todo), JobTyped,
           job.kind = kind, job' = [job EXCEPT !.todo = todo]
    PROVE  /\ JobTyped' /\ job' # Idle /\ job'.kind \in Kinds
           /\ job'.kind = job.kind /\ job'.cand = job.cand
           /\ job'.terms = job.terms /\ job'.undo = job.undo
           /\ Step' = todo[1]
<1>1. todo \in Seq(StepsOf(kind)) /\ todo # <<>>
  BY PathParts
<1>2. todo \in Seq(AllSteps)
  <2>1. StepsOf(kind) \subseteq AllSteps
    BY DEF AllSteps
  <2> QED BY <1>1, <2>1, WiderSeq
<1>3. job \in Command
  BY IdleIsNoCommand DEF JobTyped
<1>4. /\ job' \in Command /\ job'.todo = todo
      /\ job'.kind = job.kind /\ job'.cand = job.cand
      /\ job'.terms = job.terms /\ job'.undo = job.undo
  BY <1>2, <1>3 DEF Command
<1>5. Step' = todo[1]
  BY <1>1, <1>4 DEF Step
<1>6. job' # Idle
  BY <1>4, IdleIsNoCommand
<1> QED BY <1>4, <1>5, <1>6 DEF JobTyped

LEMMA ProposeWordsKeeps ==
    ASSUME StorageInv, NEW proposed \in SUBSET Terms,
           NEW kind \in {"words", "import"},
           Ready,
           Begin(kind, WordSteps, NoSettings, proposed),
           jobs' = jobs + 1,
           UNCHANGED <<commandUnchanged, hotkey, asked>>
    PROVE  StorageInv'
<1> USE DEF StorageInv
<1>1. app = "up" /\ job = Idle /\ job.kind = "none" /\ Step = "none"
  BY IdleIsNoCommand DEF Ready, Ready
<1>2. /\ JobTyped' /\ job' # Idle /\ job'.kind = kind /\ job'.kind \in Kinds
      /\ Step' = "words_tmp"
  BY WordProgram, CommandBegins DEF Kinds
<1> USE DEF Ready, commandUnchanged, disk, profile, person, history, hotkey
<1>3. StorageTyped'
  BY <1>1, <1>2 DEF StorageTyped, TypeOK
<1>4. AppMatchesJob'
  BY <1>1, <1>2 DEF AppMatchesJob
<1>5. CandidateIsAsked'
  BY <1>1, <1>2 DEF CandidateIsAsked
<1>6. PolicyFollows'
  BY <1>1, <1>2 DEF PolicyFollows, WordNames
<1>7. ShortcutFollows'
  BY <1>1, <1>2 DEF ShortcutFollows, LiveBinding, WordNames
<1>8. WordsFollow'
  BY <1>1, <1>2 DEF WordsFollow, WordsInUse, WordsSaved, WordsAreThePrimary,
      BackupHasTheWords, WordNames
<1>9. FilesFollow'
  BY <1>1, <1>2 DEF FilesFollow, SaveNames
<1> QED BY <1>1, <1>2, <1>3, <1>4, <1>5, <1>6, <1>7, <1>8, <1>9

LEMMA ImportPreviewKeeps ==
    ASSUME StorageInv, ImportPreview
    PROVE  StorageInv'
<1> USE DEF StorageInv
<1>1. app = "up" /\ job = Idle /\ job.kind = "none" /\ Step = "none"
  BY IdleIsNoCommand DEF ImportPreview, Ready
<1>2. JobTyped' /\ job'.kind = "none" /\ Step' = "none"
  BY <1>1, IdleIsNoCommand DEF ImportPreview, JobTyped
<1> USE DEF ImportPreview, ghosts, bounds, disk, profile, history, hotkey
<1>3. StorageTyped'
  BY <1>1, <1>2 DEF StorageTyped, TypeOK
<1>4. AppMatchesJob'
  BY <1>1, <1>2 DEF AppMatchesJob
<1>5. CandidateIsAsked'
  BY <1>1, <1>2 DEF CandidateIsAsked
<1>6. PolicyFollows'
  BY <1>1, <1>2 DEF PolicyFollows, WordNames
<1>7. ShortcutFollows'
  BY <1>1, <1>2 DEF ShortcutFollows, LiveBinding, WordNames
<1>8. WordsFollow'
  BY <1>1, <1>2 DEF WordsFollow, WordsInUse, WordsSaved, WordsAreThePrimary,
      BackupHasTheWords, WordNames
<1>9. FilesFollow'
  BY <1>1, <1>2 DEF FilesFollow, SaveNames
<1> QED BY <1>1, <1>2, <1>3, <1>4, <1>5, <1>6, <1>7, <1>8, <1>9

LEMMA WordsTemporaryKeeps ==
    ASSUME StorageInv, WordsTemporary
    PROVE  StorageInv'
<1> USE DEF StorageInv
<1>1. /\ app # "down" /\ Step = "words_tmp"
      /\ job.kind \in {"words", "import", "reset", "start"}
  BY StepIsOfKind DEF WordsTemporary, StepsOf, WordNames, SaveNames, Kinds
<1>2. /\ JobTyped' /\ job'.kind = job.kind /\ job'.cand = job.cand
      /\ job'.terms = job.terms /\ job'.undo = job.undo
      /\ job'.kind \in Kinds /\ job' # Idle /\ Step' = "drop_backup"
  BY <1>1, CommandGoesOn DEF WordsTemporary, Follows, MayEnd
<1> USE DEF WordsTemporary, wordsUnchanged, NoFault, ghosts, profile,
      person, history, hotkey, WordNames, SaveNames
<1>3. StorageTyped'
  BY <1>1, <1>2 DEF StorageTyped, TypeOK
<1>4. AppMatchesJob'
  BY <1>1, <1>2 DEF AppMatchesJob
<1>5. CandidateIsAsked'
  BY <1>1, <1>2 DEF CandidateIsAsked
<1>6. PolicyFollows'
  BY <1>1, <1>2 DEF PolicyFollows
<1>7. ShortcutFollows'
  BY <1>1, <1>2 DEF ShortcutFollows, LiveBinding
<1>8. WordsFollow'
  BY <1>1, <1>2 DEF WordsFollow, WordsInUse, WordsSaved, WordsAreThePrimary,
      BackupHasTheWords, Absent
<1>9. FilesFollow'
  BY <1>1, <1>2 DEF FilesFollow, Absent
<1> QED BY <1>1, <1>2, <1>3, <1>4, <1>5, <1>6, <1>7, <1>8, <1>9

LEMMA DropBackupKeeps ==
    ASSUME StorageInv, DropBackup
    PROVE  StorageInv'
<1> USE DEF StorageInv
<1>1. /\ app # "down" /\ Step = "drop_backup"
      /\ job.kind \in {"words", "import", "reset", "start"}
  BY StepIsOfKind DEF DropBackup, StepsOf, WordNames, SaveNames, Kinds
<1>2. /\ JobTyped' /\ job'.kind = job.kind /\ job'.cand = job.cand
      /\ job'.terms = job.terms /\ job'.undo = job.undo
      /\ job'.kind \in Kinds /\ job' # Idle /\ Step' = "retire"
  BY <1>1, CommandGoesOn DEF DropBackup, Follows, MayEnd
<1> USE DEF DropBackup, Absent, wordsUnchanged, NoFault, ghosts, profile,
      person, history, hotkey, WordNames, SaveNames
<1>3. StorageTyped'
  BY <1>1, <1>2 DEF StorageTyped, TypeOK, WordFiles
<1>4. AppMatchesJob'
  BY <1>1, <1>2 DEF AppMatchesJob
<1>5. CandidateIsAsked'
  BY <1>1, <1>2 DEF CandidateIsAsked
<1>6. PolicyFollows'
  BY <1>1, <1>2 DEF PolicyFollows
<1>7. ShortcutFollows'
  BY <1>1, <1>2 DEF ShortcutFollows, LiveBinding
<1>8. WordsFollow'
  BY <1>1, <1>2 DEF WordsFollow, WordsInUse, WordsSaved, WordsAreThePrimary,
      BackupHasTheWords
<1>9. FilesFollow'
  BY <1>1, <1>2 DEF FilesFollow
<1> QED BY <1>1, <1>2, <1>3, <1>4, <1>5, <1>6, <1>7, <1>8, <1>9

LEMMA RetireKeeps ==
    ASSUME StorageInv, Retire
    PROVE  StorageInv'
<1> USE DEF StorageInv
<1>1. /\ app # "down" /\ Step = "retire"
      /\ job.kind \in {"words", "import", "reset", "start"}
  BY StepIsOfKind DEF Retire, StepsOf, WordNames, SaveNames, Kinds
<1>2. /\ JobTyped' /\ job'.kind = job.kind /\ job'.cand = job.cand
      /\ job'.terms = job.terms /\ job'.undo = job.undo
      /\ job'.kind \in Kinds /\ job' # Idle /\ Step' = "place"
  BY <1>1, CommandGoesOn DEF Retire, Follows, MayEnd
<1> USE DEF Retire, Absent, wordsUnchanged, NoFault, ghosts, profile,
      person, history, hotkey, WordNames, SaveNames
<1>3. StorageTyped'
  BY <1>1, <1>2 DEF StorageTyped, TypeOK, WordFiles
<1>4. AppMatchesJob'
  BY <1>1, <1>2 DEF AppMatchesJob
<1>5. CandidateIsAsked'
  BY <1>1, <1>2 DEF CandidateIsAsked
<1>6. PolicyFollows'
  BY <1>1, <1>2 DEF PolicyFollows
<1>7. ShortcutFollows'
  BY <1>1, <1>2 DEF ShortcutFollows, LiveBinding
<1>8. WordsFollow'
  BY <1>1, <1>2 DEF WordsFollow, WordsInUse, WordsSaved, WordsAreThePrimary,
      BackupHasTheWords, StorageTyped, TypeOK, WordFiles, Good
<1>9. FilesFollow'
  BY <1>1, <1>2 DEF FilesFollow
<1> QED BY <1>1, <1>2, <1>3, <1>4, <1>5, <1>6, <1>7, <1>8, <1>9

LEMMA PlaceKeeps ==
    ASSUME StorageInv, Place
    PROVE  StorageInv'
<1> USE DEF StorageInv
<1>1. /\ app # "down" /\ Step = "place"
      /\ job.kind \in {"words", "import", "reset", "start"}
  BY StepIsOfKind DEF Place, StepsOf, WordNames, SaveNames, Kinds
<1>2. /\ JobTyped' /\ job'.kind = job.kind /\ job'.cand = job.cand
      /\ job'.terms = job.terms /\ job'.undo = job.undo
      /\ job'.kind \in Kinds /\ job' # Idle /\ Step' = "sync"
  BY <1>1, CommandGoesOn DEF Place, Follows, MayEnd
<1>3. job.terms \in SUBSET Terms
  BY StepIsOfKind DEF Place, Command
<1> USE DEF Place, wordsUnchanged, NoFault, ghosts, profile, person,
      history, hotkey, WordNames, SaveNames
<1>4. StorageTyped'
  BY <1>1, <1>2, <1>3 DEF StorageTyped, TypeOK, WordFiles, Good, Absent
<1>5. AppMatchesJob'
  BY <1>1, <1>2, <1>3 DEF AppMatchesJob
<1>6. CandidateIsAsked'
  BY <1>1, <1>2, <1>3 DEF CandidateIsAsked
<1>7. PolicyFollows'
  BY <1>1, <1>2, <1>3 DEF PolicyFollows
<1>8. ShortcutFollows'
  BY <1>1, <1>2, <1>3 DEF ShortcutFollows, LiveBinding
<1>9. WordsFollow'
  BY <1>1, <1>2 DEF WordsFollow, WordsInUse, WordsSaved, WordsAreThePrimary,
      BackupHasTheWords, StorageTyped, TypeOK, WordFiles, Good, Absent
<1>10. FilesFollow'
  BY <1>1, <1>2, <1>3 DEF FilesFollow, Absent
<1> QED BY <1>1, <1>2, <1>3, <1>4, <1>5, <1>6, <1>7, <1>8, <1>9, <1>10

LEMMA SyncKeeps ==
    ASSUME StorageInv, Sync
    PROVE  StorageInv'
<1> USE DEF StorageInv
<1>1. /\ app # "down" /\ Step = "sync"
      /\ job.kind \in {"words", "import", "reset", "start"}
  BY StepIsOfKind DEF Sync, StepsOf, WordNames, SaveNames, Kinds
<1>2. /\ JobTyped' /\ job'.kind = job.kind /\ job'.cand = job.cand
      /\ job'.terms = job.terms /\ job'.undo = job.undo
      /\ job'.kind \in Kinds /\ job' # Idle /\ Step' = "words_commit"
  BY <1>1, CommandGoesOn DEF Sync, Follows, MayEnd
<1> USE DEF Sync, wordsUnchanged, NoFault, ghosts, profile, person, history,
      hotkey, WordNames, SaveNames
<1>3. StorageTyped'
  BY <1>1, <1>2 DEF StorageTyped, TypeOK
<1>4. AppMatchesJob'
  BY <1>1, <1>2 DEF AppMatchesJob
<1>5. CandidateIsAsked'
  BY <1>1, <1>2 DEF CandidateIsAsked
<1>6. PolicyFollows'
  BY <1>1, <1>2 DEF PolicyFollows
<1>7. ShortcutFollows'
  BY <1>1, <1>2 DEF ShortcutFollows, LiveBinding
<1>8. WordsFollow'
  BY <1>1, <1>2 DEF WordsFollow, WordsInUse, WordsSaved, WordsAreThePrimary,
      BackupHasTheWords, Absent
<1>9. FilesFollow'
  BY <1>1, <1>2 DEF FilesFollow, Absent
<1> QED BY <1>1, <1>2, <1>3, <1>4, <1>5, <1>6, <1>7, <1>8, <1>9

LEMMA WordsCommitKeeps ==
    ASSUME StorageInv, WordsCommit
    PROVE  StorageInv'
<1> USE DEF StorageInv
<1>1. /\ app # "down" /\ Step = "words_commit"
      /\ job.kind \in {"words", "import", "reset", "start"}
  BY StepIsOfKind DEF WordsCommit, StepsOf, WordNames, SaveNames, Kinds
<1>2. /\ JobTyped' /\ (job' = Idle \/ job'.kind \in Kinds)
      /\ \/ /\ job.kind \in {"words", "import"}
            /\ job' = Idle /\ job'.kind = "none" /\ Step' = "none"
         \/ /\ job.kind \in {"reset", "start"} /\ job' # Idle
            /\ job'.kind = job.kind /\ job'.cand = job.cand
            /\ job'.terms = job.terms /\ job'.undo = job.undo
            /\ Step' = IF job.kind = "reset" THEN "drop_slot" ELSE "register"
  BY <1>1, CommandGoesOn, IdleIsNoCommand DEF WordsCommit, Follows, MayEnd
<1>3. job.terms \in SUBSET Terms
  BY StepIsOfKind DEF WordsCommit, Command
<1>4. /\ words' = job.terms /\ faults' = faults
      /\ UNCHANGED <<pfile, pbak, wordsUnchanged>>
  BY DEF WordsCommit, NoFault
<1> USE DEF WordsCommit, wordsUnchanged, NoFault, ghosts, profile, history,
      hotkey, WordNames, SaveNames
<1>5. StorageTyped'
  BY <1>1, <1>2, <1>3, <1>4 DEF StorageTyped, TypeOK
<1>6. AppMatchesJob'
  BY <1>1, <1>2, <1>3, <1>4 DEF AppMatchesJob
<1>7. CandidateIsAsked'
  BY <1>1, <1>2, <1>3, <1>4 DEF CandidateIsAsked
<1>8. PolicyFollows'
  <2>1. CASE job.kind = "start"
    BY <1>1, <1>2, <1>4, <2>1 DEF PolicyFollows, AppMatchesJob
  <2>2. CASE job.kind = "reset"
    BY <1>1, <1>2, <1>4, <2>2 DEF PolicyFollows, AppMatchesJob, Fault, person
  <2>3. CASE job.kind \in {"words", "import"}
    BY <1>1, <1>2, <1>4, <2>3 DEF PolicyFollows, AppMatchesJob, Fault, person
  <2> QED BY <2>1, <2>2, <2>3, <1>1, <1>2, <1>4
<1>9. ShortcutFollows'
  BY <1>1, <1>2, <1>3, <1>4 DEF ShortcutFollows, LiveBinding
<1>10. WordsFollow'
  BY <1>1, <1>2, <1>3, <1>4 DEF WordsFollow, WordsInUse, WordsSaved,
      WordsAreThePrimary, BackupHasTheWords, Good, Absent
<1>11. FilesFollow'
  BY <1>1, <1>2, <1>3, <1>4 DEF FilesFollow
<1> QED BY <1>1, <1>2, <1>3, <1>4, <1>5, <1>6, <1>7, <1>8, <1>9, <1>10, <1>11

LEMMA WordsFailKeeps ==
    ASSUME StorageInv, WordsFail
    PROVE  StorageInv'
<1> USE DEF StorageInv
<1>1. app # "down" /\ Step \in WordNames \ {"words_commit"}
      /\ job.kind \in {"words", "import", "reset", "start"}
  BY StepIsOfKind DEF WordsFail, StepsOf, WordNames, SaveNames, Kinds
<1>2. /\ JobTyped' /\ (job' = Idle \/ job'.kind \in Kinds)
      /\ \/ /\ job.kind # "start"
            /\ job' = Idle /\ job'.kind = "none" /\ Step' = "none"
         \/ /\ job.kind = "start" /\ job' # Idle
            /\ job'.kind = job.kind /\ job'.cand = job.cand
            /\ job'.terms = job.terms /\ job'.undo = job.undo
            /\ Step' = "register"
  <2> DEFINE todo == <<"register">>
  <2>1. job' = IF job.kind = "start" THEN [job EXCEPT !.todo = todo] ELSE Idle
    BY DEF WordsFail
  <2>2. Path("start", todo) /\ todo[1] = "register"
    BY StartProgram
  <2> HIDE DEF todo
  <2>3. CASE job.kind = "start"
    <3>1. job' = [job EXCEPT !.todo = todo]
      BY <2>1, <2>3
    <3>2. "start" \in Kinds
      BY DEF Kinds
    <3> QED BY <2>2, <2>3, <3>1, <3>2, CommandGoesOnWith
  <2>4. CASE job.kind # "start"
    BY <2>1, <2>4, IdleIsNoCommand DEF JobTyped
  <2> QED BY <2>3, <2>4
<1>3. faults' = faults + 1 /\ UNCHANGED <<person, wordsUnchanged>>
  BY DEF WordsFail, Fault
<1>4. \/ Step # "place" /\ UNCHANGED <<pfile, pbak>>
      \/ Step = "place" /\ pfile' = pbak /\ pbak' = Absent
      \/ Step = "place" /\ pbak # Absent /\ UNCHANGED <<pfile, pbak>>
  BY DEF WordsFail, At, Step
<1> USE DEF wordsUnchanged, ghosts, profile, person, history, hotkey,
      WordNames, SaveNames, AppMatchesJob
<1>5. StorageTyped'
  BY <1>1, <1>2, <1>3, <1>4 DEF StorageTyped, TypeOK, WordFiles
<1>6. AppMatchesJob'
  BY <1>1, <1>2, <1>3, <1>4
<1>7. CandidateIsAsked'
  BY <1>1, <1>2, <1>3, <1>4 DEF CandidateIsAsked
<1>8. PolicyFollows'
  <2>1. CASE job.kind = "start"
    BY <1>1, <1>2, <1>3, <1>4, <2>1 DEF PolicyFollows
  <2>2. CASE job.kind = "reset"
    BY <1>1, <1>2, <1>3, <1>4, <2>2 DEF PolicyFollows, NoFault
  <2>3. CASE job.kind \in {"words", "import"}
    BY <1>1, <1>2, <1>3, <1>4, <2>3 DEF PolicyFollows, NoFault
  <2> QED BY <2>1, <2>2, <2>3, <1>1, <1>2, <1>3, <1>4
<1>9. ShortcutFollows'
  BY <1>1, <1>2, <1>3, <1>4 DEF ShortcutFollows, LiveBinding
<1>10. WordsFollow'
  <2>1. CASE Step # "place"
    BY <1>1, <1>2, <1>3, <1>4, <2>1 DEF WordsFollow, WordsInUse, WordsSaved,
        WordsAreThePrimary, BackupHasTheWords, StorageTyped, TypeOK, WordFiles,
        Good, Absent
  <2>2. CASE Step = "place" /\ pfile' = pbak
    BY <1>1, <1>2, <1>3, <1>4, <2>2 DEF WordsFollow, WordsInUse, WordsSaved,
        WordsAreThePrimary, BackupHasTheWords, StorageTyped, TypeOK, WordFiles,
        Good, Absent, NoFault
  <2>3. CASE Step = "place" /\ pbak # Absent /\ UNCHANGED <<pfile, pbak>>
    BY <1>1, <1>2, <1>3, <1>4, <2>3 DEF WordsFollow, WordsInUse, WordsSaved,
        WordsAreThePrimary, BackupHasTheWords, StorageTyped, TypeOK, WordFiles,
        Good, Absent, NoFault
  <2> QED BY <2>1, <2>2, <2>3, <1>1, <1>2, <1>3, <1>4
<1>11. FilesFollow'
  BY <1>1, <1>2, <1>3, <1>4 DEF FilesFollow
<1> QED BY <1>1, <1>2, <1>3, <1>4, <1>5, <1>6, <1>7, <1>8, <1>9, <1>10, <1>11

-----------------------------------------------------------------------------
(* The transcript list. *)

LEMMA FunctionIsASeq ==
    ASSUME NEW s, NEW n \in Nat, DOMAIN s = 1 .. n,
           s = [i \in 1 .. n |-> s[i]]
    PROVE  s \in Seq({s[i] : i \in DOMAIN s}) /\ Len(s) = n
<1> DEFINE S == {s[i] : i \in DOMAIN s}
<1>1. \A i \in 1 .. n : s[i] \in S
  OBVIOUS
<1> HIDE DEF S
<1>2. s \in [1 .. n -> S]
  BY <1>1
<1>3. s \in Seq(S) /\ Len(s) = n
  BY <1>2
<1> QED BY <1>3 DEF S

LEMMA ListingKeepsTheLog ==
    ASSUME NEW s, LogTyped(s), NEW e, ~e.seeded
    PROVE  LogTyped(LastOf(Append(s, e), LogLimit))
<1> DEFINE S == {s[i] : i \in DOMAIN s} \cup {e}
           t == Append(s, e)
           u == LastOf(t, LogLimit)
<1>1. s \in Seq(S) /\ Len(s) \in Nat /\ Len(s) <= LogLimit
  BY DEF LogTyped
<1>2. /\ t \in Seq(S) /\ Len(t) = Len(s) + 1
      /\ \A i \in 1 .. Len(s) : t[i] = s[i]
      /\ t[Len(s) + 1] = e
  BY <1>1
<1>3. LogLimit \in Nat \ {0}
  BY BoundsAssumption
<1>4. \A i, j \in 1 .. Len(s) : i < j /\ s[j].seeded => s[i].seeded
  BY <1>1 DEF LogTyped
<1> HIDE DEF S, t
<1>5. \A i, j \in 1 .. Len(t) : i < j /\ t[j].seeded => t[i].seeded
  BY <1>1, <1>2, <1>4
<1>6. CASE Len(t) <= LogLimit
  <2>1. u = t
    BY <1>6 DEF LastOf
  <2>2. DOMAIN t = 1 .. Len(t) /\ t = [i \in 1 .. Len(t) |-> t[i]]
    BY <1>2
  <2> HIDE DEF u
  <2>3. t \in Seq({t[i] : i \in DOMAIN t})
    BY <1>1, <1>2, <2>2, FunctionIsASeq
  <2>4. LogTyped(t)
    BY <1>5, <1>6, <2>2, <2>3 DEF LogTyped
  <2> QED BY <2>1, <2>4 DEF u, t
<1>7. CASE ~(Len(t) <= LogLimit)
  <2> DEFINE d == Len(t) - LogLimit
  <2>1. u = [i \in 1 .. LogLimit |-> t[d + i]]
    BY <1>7 DEF LastOf
  <2>2. d \in Nat /\ \A i \in 1 .. LogLimit : d + i \in 1 .. Len(t)
    BY <1>1, <1>2, <1>3, <1>7
  <2> HIDE DEF d, u
  <2>3. DOMAIN u = 1 .. LogLimit /\ \A i \in 1 .. LogLimit : u[i] = t[d + i]
    BY <2>1
  <2>4. u \in Seq({u[i] : i \in DOMAIN u}) /\ Len(u) = LogLimit
    BY <1>3, <2>1, <2>3, FunctionIsASeq
  <2>5. ASSUME NEW i \in 1 .. LogLimit, NEW j \in 1 .. LogLimit, i < j,
               u[j].seeded
        PROVE  u[i].seeded
    <3>1. d + i < d + j
      BY <1>3, <2>2, <2>5
    <3> QED BY <1>5, <2>2, <2>3, <2>5, <3>1
  <2>6. LogTyped(u)
    BY <1>3, <2>3, <2>4, <2>5 DEF LogTyped
  <2> QED BY <2>6 DEF u, t
<1> QED BY <1>6, <1>7

LEMMA UnseedingKeepsTheLog ==
    ASSUME NEW s, LogTyped(s)
    PROVE  LET n == Cardinality({i \in DOMAIN s : s[i].seeded})
           IN  LogTyped([i \in 1 .. Len(s) - n |-> s[n + i]])
<1> DEFINE D == {i \in DOMAIN s : s[i].seeded}
           n == Cardinality(D)
           m == Len(s) - n
           u == [i \in 1 .. m |-> s[n + i]]
<1>1. /\ Len(s) \in Nat /\ Len(s) <= LogLimit /\ DOMAIN s = 1 .. Len(s)
      /\ \A i, j \in 1 .. Len(s) : i < j /\ s[j].seeded => s[i].seeded
  BY DEF LogTyped
<1>2. IsFiniteSet(1 .. Len(s)) /\ Cardinality(1 .. Len(s)) = Len(s)
  BY <1>1, FS_Interval
<1>3. n \in Nat /\ n <= Len(s)
  BY <1>1, <1>2, FS_Subset, FS_CardinalityType
<1>4. LogLimit \in Nat
  BY BoundsAssumption
<1> HIDE DEF D, n
<1>5. m \in Nat /\ m <= LogLimit /\ \A i \in 1 .. m : n + i \in 1 .. Len(s)
  BY <1>1, <1>3, <1>4
<1> HIDE DEF m
<1>6. DOMAIN u = 1 .. m /\ \A i \in 1 .. m : u[i] = s[n + i]
  OBVIOUS
<1>7. u = [i \in 1 .. m |-> s[n + i]] /\ u = [i \in 1 .. m |-> u[i]]
  OBVIOUS
<1> HIDE DEF u
<1>8. u \in Seq({u[i] : i \in DOMAIN u}) /\ Len(u) = m
  BY <1>5, <1>6, <1>7, FunctionIsASeq
<1>9. ASSUME NEW i \in 1 .. m, NEW j \in 1 .. m, i < j, u[j].seeded
      PROVE  u[i].seeded
  <2>1. n + i < n + j
    BY <1>3, <1>5, <1>9
  <2> QED BY <1>1, <1>5, <1>6, <1>9, <2>1
<1>10. LogTyped(u)
  BY <1>5, <1>6, <1>8, <1>9 DEF LogTyped
<1> QED BY <1>7, <1>10 DEF m, n, D

LEMMA SeedingKeepsTheLog ==
    ASSUME StorageTyped
    PROVE  /\ LogTyped([i \in 1 .. Len(NewestRows) |->
                           [id |-> NewestRows[i], seeded |-> TRUE]])
           /\ LogTyped(<<>>)
<1> DEFINE ids == {r.id : r \in rows}
           n == IF Cardinality(ids) <= LogLimit THEN Cardinality(ids)
                ELSE LogLimit
           u == [i \in 1 .. n |-> [id |-> NewestRows[i], seeded |-> TRUE]]
<1>1. ids \subseteq 1 .. MaxDictations
  BY DEF StorageTyped, TypeOK, Rows
<1>2. Cardinality(ids) \in Nat
  <2>1. MaxDictations \in Nat
    BY BoundsAssumption
  <2>2. IsFiniteSet(1 .. MaxDictations)
    BY <2>1, FS_Interval
  <2>3. IsFiniteSet(ids)
    BY <1>1, <2>2, FS_Subset
  <2> QED BY <2>3, FS_CardinalityType
<1>3. LogLimit \in Nat \ {0}
  BY BoundsAssumption
<1>4. n \in Nat /\ n <= LogLimit
  BY <1>2, <1>3
<1>5. Len(NewestRows) = n
  BY <1>4 DEF NewestRows
<1> HIDE DEF n
<1>6. /\ DOMAIN u = 1 .. n /\ u = [i \in 1 .. n |-> u[i]]
      /\ \A i \in 1 .. n : u[i].seeded
  OBVIOUS
<1>7. u \in Seq({u[i] : i \in DOMAIN u}) /\ Len(u) = n
  BY <1>4, <1>6, FunctionIsASeq
<1>8. LogTyped(u)
  BY <1>4, <1>6, <1>7 DEF LogTyped
<1>9. LogTyped(<<>>)
  BY <1>3 DEF LogTyped
<1> QED BY <1>5, <1>8, <1>9

(* What the main thread's state does not depend on. *)
LEMMA StandingStillKeeps ==
    ASSUME StorageInv, StorageTyped',
           UNCHANGED <<sfile, sbak, pfile, pbak, app, job, mem, words, slot,
                       coordinator, registered, taken, ghosts, faults, kills>>
    PROVE  StorageInv'
<1>1. Step' = Step /\ LiveBinding' = LiveBinding
  BY DEF Step, LiveBinding
<1>2. JobTyped' /\ AppMatchesJob' /\ CandidateIsAsked'
  BY <1>1 DEF StorageInv, JobTyped, AppMatchesJob, CandidateIsAsked, ghosts
<1>3. PolicyFollows' /\ ShortcutFollows'
  BY <1>1 DEF StorageInv, PolicyFollows, ShortcutFollows
<1>4. WordsFollow'
  BY <1>1 DEF StorageInv, WordsFollow, WordsInUse, WordsSaved,
      WordsAreThePrimary, BackupHasTheWords
<1>5. FilesFollow'
  BY <1>1 DEF StorageInv, FilesFollow, ghosts
<1> QED BY <1>2, <1>3, <1>4, <1>5 DEF StorageInv

LEMMA PublishTranscriptKeeps ==
    ASSUME StorageInv, PublishTranscript
    PROVE  StorageInv'
<1>1. StorageTyped
  BY DEF StorageInv
<1> DEFINE entry == [id |-> dictations', seeded |-> FALSE]
<1>2. LogTyped(log) /\ ~entry.seeded
  BY <1>1 DEF StorageTyped
<1>3. log' = LastOf(Append(log, entry), LogLimit)
  BY DEF PublishTranscript
<1> HIDE DEF entry
<1>4. LogTyped(log')
  BY <1>2, <1>3, ListingKeepsTheLog
<1>5. /\ dictations \in Nat /\ MaxDictations \in Nat
      /\ dictations' = dictations + 1 /\ dictations < MaxDictations
      /\ storing' = <<dictations'>>
  BY <1>1, BoundsAssumption DEF StorageTyped, PublishTranscript
<1>6. dictations' \in 1 .. MaxDictations
  BY <1>5
<1>7. storing' \in Seq(1 .. MaxDictations) /\ dictations' \in 0 .. MaxDictations
  BY <1>5, <1>6
<1>8. StorageTyped'
  BY <1>1, <1>4, <1>7 DEF StorageTyped, TypeOK, LogTyped, PublishTranscript,
      disk, profile, person, history, hotkey, ghosts
<1> QED BY <1>8, StandingStillKeeps DEF PublishTranscript, disk, profile,
      person, history, hotkey

LEMMA PersistKeeps ==
    ASSUME StorageInv, Persist
    PROVE  StorageInv'
<1>1. StorageTyped
  BY DEF StorageInv
<1>2. /\ storing \in Seq(1 .. MaxDictations) /\ storing # <<>>
      /\ storing' = Tail(storing)
  BY <1>1 DEF StorageTyped, Persist
<1>3. Head(storing) \in 1 .. MaxDictations /\ storing' \in Seq(1 .. MaxDictations)
  BY <1>2, HeadTailProperties
<1>4. rows' \subseteq Rows
  <2>1. [id |-> Head(storing), old |-> FALSE] \in Rows
    BY <1>3 DEF Rows
  <2> QED BY <1>1, <2>1 DEF StorageTyped, TypeOK, Persist
<1>5. StorageTyped'
  BY <1>1, <1>3, <1>4 DEF StorageTyped, TypeOK, Persist, profile, person,
      history, hotkey, ghosts, bounds
<1> QED BY <1>5, StandingStillKeeps DEF Persist, profile, person, history,
      hotkey, bounds

LEMMA HistoryDeleteAllKeeps ==
    ASSUME StorageInv, HistoryDeleteAll
    PROVE  StorageInv'
<1> USE DEF StorageInv
<1>1. app = "up" /\ job = Idle /\ job.kind = "none" /\ Step = "none"
  BY IdleIsNoCommand DEF HistoryDeleteAll, Ready
<1> DEFINE todo == <<"delete", "reopen", "unseed">>
<1>2. Path("delete", todo) /\ todo[1] = "delete" /\ "delete" \in Kinds
  BY DeleteProgram DEF Kinds
<1>3. Begin("delete", todo, NoSettings, {})
  BY DEF HistoryDeleteAll
<1> HIDE DEF todo
<1>4. /\ JobTyped' /\ job' # Idle /\ job'.kind = "delete" /\ job'.kind \in Kinds
      /\ Step' = "delete"
  BY <1>2, <1>3, CommandBegins
<1> USE DEF HistoryDeleteAll, Ready, commandUnchanged, disk, profile,
      person, history, hotkey
<1>5. StorageTyped'
  BY <1>1, <1>2, <1>3, <1>4 DEF StorageTyped, TypeOK
<1>6. AppMatchesJob'
  BY <1>1, <1>2, <1>3, <1>4 DEF AppMatchesJob
<1>7. CandidateIsAsked'
  BY <1>1, <1>2, <1>3, <1>4 DEF CandidateIsAsked
<1>8. PolicyFollows'
  BY <1>1, <1>2, <1>3, <1>4 DEF PolicyFollows, WordNames
<1>9. ShortcutFollows'
  BY <1>1, <1>2, <1>3, <1>4 DEF ShortcutFollows, LiveBinding, WordNames
<1>10. WordsFollow'
  BY <1>1, <1>2, <1>3, <1>4 DEF WordsFollow, WordsInUse, WordsSaved,
      WordsAreThePrimary, BackupHasTheWords, WordNames
<1>11. FilesFollow'
  BY <1>1, <1>2, <1>3, <1>4 DEF FilesFollow, SaveNames
<1> QED BY <1>1, <1>2, <1>3, <1>4, <1>5, <1>6, <1>7, <1>8, <1>9, <1>10, <1>11

LEMMA DeleteRowsKeeps ==
    ASSUME StorageInv, DeleteRows
    PROVE  StorageInv'
<1> USE DEF StorageInv
<1>1. /\ app # "down" /\ Step = "delete"
      /\ job.kind = "delete"
  BY StepIsOfKind DEF DeleteRows, StepsOf, WordNames, SaveNames, Kinds
<1>2. app = "up"
  BY <1>1 DEF StorageTyped, TypeOK, AppMatchesJob
<1>3. \/ Advance
      \/ job' = [job EXCEPT !.todo = <<"reopen">>]
  BY DEF DeleteRows
<1>4. /\ JobTyped' /\ job' # Idle /\ job'.kind = "delete" /\ job'.kind \in Kinds
      /\ Step' = "reopen"
  <2>1. CASE Advance
    BY <1>1, <2>1, CommandGoesOn DEF DeleteRows, Follows, MayEnd
  <2>2. CASE job' = [job EXCEPT !.todo = <<"reopen">>]
    <3> DEFINE todo == <<"reopen">>
    <3>1. Path("delete", todo) /\ todo[1] = "reopen" /\ "delete" \in Kinds
      BY DeleteProgram DEF Kinds
    <3>2. job' = [job EXCEPT !.todo = todo]
      BY <2>2
    <3> HIDE DEF todo
    <3> QED BY <1>1, <3>1, <3>2, CommandGoesOnWith
  <2> QED BY <1>3, <2>1, <2>2
<1>5. rows' \subseteq rows /\ faults' \in {faults, faults + 1}
  BY DEF DeleteRows, Fault, NoFault
<1> USE DEF DeleteRows, NoFault, Fault, profile, person, history, hotkey,
      ghosts, WordNames, SaveNames
<1>6. StorageTyped'
  BY <1>1, <1>2, <1>3, <1>4, <1>5 DEF StorageTyped, TypeOK
<1>7. AppMatchesJob'
  BY <1>1, <1>2, <1>3, <1>4, <1>5 DEF AppMatchesJob
<1>8. CandidateIsAsked'
  BY <1>1, <1>2, <1>3, <1>4, <1>5 DEF CandidateIsAsked
<1>9. PolicyFollows'
  BY <1>1, <1>2, <1>3, <1>4, <1>5 DEF PolicyFollows
<1>10. ShortcutFollows'
  BY <1>1, <1>2, <1>3, <1>4, <1>5 DEF ShortcutFollows, LiveBinding
<1>11. WordsFollow'
  BY <1>1, <1>2, <1>3, <1>4, <1>5 DEF WordsFollow, WordsInUse, WordsSaved,
      WordsAreThePrimary, BackupHasTheWords, StorageTyped
<1>12. FilesFollow'
  BY <1>1, <1>2, <1>3, <1>4, <1>5 DEF FilesFollow
<1> QED BY <1>1, <1>2, <1>3, <1>4, <1>5, <1>6, <1>7, <1>8, <1>9, <1>10, <1>11,
      <1>12

LEMMA ReopenKeeps ==
    ASSUME StorageInv, Reopen
    PROVE  StorageInv'
<1> USE DEF StorageInv
<1>1. /\ app # "down" /\ Step = "reopen"
      /\ job.kind = "delete"
  BY StepIsOfKind DEF Reopen, StepsOf, WordNames, SaveNames, Kinds
<1>2. app = "up"
  BY <1>1 DEF StorageTyped, TypeOK, AppMatchesJob
<1>3. /\ JobTyped'
      /\ \/ job' = Idle /\ job'.kind = "none" /\ Step' = "none"
         \/ job' # Idle /\ job'.kind = "delete" /\ Step' = "unseed"
  BY <1>1, CommandGoesOn, IdleIsNoCommand DEF Reopen, Follows, MayEnd
<1>4. /\ slot' \in {slot, NoSlot} /\ initializationError' \in BOOLEAN
      /\ faults' \in {faults, faults + 1}
  BY DEF Reopen, StorageTyped, TypeOK, Fault, NoFault, history
<1>5. UNCHANGED <<disk, app, profile, person, log, hotkey, storing, ghosts,
                       dictations, jobs, launches, kills, damage>>
  BY DEF Reopen
<1>6. job'.kind \in Kinds \/ job' = Idle
  BY <1>3 DEF Kinds
<1> USE DEF disk, profile, person, hotkey, ghosts, WordNames, SaveNames
<1>7. StorageTyped'
  BY <1>1, <1>2, <1>3, <1>4, <1>5, <1>6 DEF StorageTyped, TypeOK
<1>8. AppMatchesJob'
  BY <1>1, <1>2, <1>3, <1>4, <1>5, <1>6 DEF AppMatchesJob
<1>9. CandidateIsAsked'
  BY <1>1, <1>2, <1>3, <1>4, <1>5, <1>6 DEF CandidateIsAsked
<1>10. PolicyFollows'
  BY <1>1, <1>2, <1>3, <1>4, <1>5, <1>6 DEF PolicyFollows
<1>11. ShortcutFollows'
  BY <1>1, <1>2, <1>3, <1>4, <1>5, <1>6 DEF ShortcutFollows, LiveBinding
<1>12. WordsFollow'
  BY <1>1, <1>2, <1>3, <1>4, <1>5, <1>6 DEF WordsFollow, StorageTyped,
      WordsInUse, WordsSaved, WordsAreThePrimary, BackupHasTheWords
<1>13. FilesFollow'
  BY <1>1, <1>2, <1>3, <1>4, <1>5, <1>6 DEF FilesFollow
<1> QED BY <1>1, <1>2, <1>3, <1>4, <1>5, <1>6, <1>7, <1>8, <1>9, <1>10, <1>11,
      <1>12, <1>13

LEMMA ClearSeededHistoryKeeps ==
    ASSUME StorageInv, ClearSeededHistory
    PROVE  StorageInv'
<1> USE DEF StorageInv
<1>1. /\ app # "down" /\ Step = "unseed"
      /\ job.kind = "delete"
  BY StepIsOfKind DEF ClearSeededHistory, StepsOf, WordNames, SaveNames, Kinds
<1>2. app = "up"
  BY <1>1 DEF StorageTyped, TypeOK, AppMatchesJob
<1>3. /\ JobTyped' /\ job' = Idle /\ job'.kind = "none" /\ Step' = "none"
  BY <1>1, CommandGoesOn, IdleIsNoCommand DEF ClearSeededHistory, Follows, MayEnd
<1>4. LogTyped(log')
  BY UnseedingKeepsTheLog DEF StorageTyped, ClearSeededHistory
<1>5. UNCHANGED <<disk, app, profile, person, history, hotkey, storing, ghosts,
                       bounds>>
  BY DEF ClearSeededHistory
<1> USE DEF disk, profile, person, history, hotkey, ghosts, bounds,
      WordNames, SaveNames
<1>6. StorageTyped'
  BY <1>3, <1>4, <1>5 DEF StorageTyped, TypeOK, LogTyped
<1>7. AppMatchesJob'
  BY <1>1, <1>2, <1>3, <1>4, <1>5 DEF AppMatchesJob
<1>8. CandidateIsAsked'
  BY <1>1, <1>2, <1>3, <1>4, <1>5 DEF CandidateIsAsked
<1>9. PolicyFollows'
  BY <1>1, <1>2, <1>3, <1>4, <1>5 DEF PolicyFollows
<1>10. ShortcutFollows'
  BY <1>1, <1>2, <1>3, <1>4, <1>5 DEF ShortcutFollows, LiveBinding
<1>11. WordsFollow'
  BY <1>1, <1>2, <1>3, <1>4, <1>5 DEF WordsFollow, WordsInUse, WordsSaved,
      WordsAreThePrimary, BackupHasTheWords
<1>12. FilesFollow'
  BY <1>1, <1>2, <1>3, <1>4, <1>5 DEF FilesFollow
<1> QED BY <1>1, <1>2, <1>3, <1>4, <1>5, <1>6, <1>7, <1>8, <1>9, <1>10, <1>11,
      <1>12

-----------------------------------------------------------------------------
(* The reset. *)

LEMMA ResetCommitKeeps ==
    ASSUME StorageInv, ResetCommit
    PROVE  StorageInv'
<1> USE DEF StorageInv
<1>1. app = "up" /\ job = Idle /\ job.kind = "none" /\ Step = "none"
  BY IdleIsNoCommand DEF ResetCommit, Ready
<1> DEFINE todo == WordSteps \o <<"drop_slot", "remove_settings",
                    "remove_backup", "remove_database">> \o SaveSteps
                    \o <<"defaults", "reopen_default">>
<1>2. Path("reset", todo) /\ todo[1] = "words_tmp" /\ "reset" \in Kinds
  BY ResetProgram DEF Kinds
<1>3. DefaultSettings \in Settings
  BY DEF DefaultSettings, Settings, HistoryModes, Bindings
<1>4. Begin("reset", todo, DefaultSettings, {}) /\ asked' = DefaultSettings
  BY DEF ResetCommit
<1> HIDE DEF todo
<1>5. /\ JobTyped' /\ job' # Idle /\ job'.kind = "reset" /\ job'.kind \in Kinds
      /\ Step' = "words_tmp" /\ job'.cand = DefaultSettings
  BY <1>2, <1>3, <1>4, CommandBegins
<1> USE DEF ResetCommit, Ready, commandUnchanged, disk, profile, person,
      history, hotkey
<1>6. StorageTyped'
  BY <1>1, <1>2, <1>3, <1>4, <1>5 DEF StorageTyped, TypeOK
<1>7. AppMatchesJob'
  BY <1>1, <1>2, <1>3, <1>4, <1>5 DEF AppMatchesJob
<1>8. CandidateIsAsked'
  BY <1>1, <1>2, <1>3, <1>4, <1>5 DEF CandidateIsAsked
<1>9. PolicyFollows'
  BY <1>1, <1>2, <1>3, <1>4, <1>5 DEF PolicyFollows, WordNames
<1>10. ShortcutFollows'
  BY <1>1, <1>2, <1>3, <1>4, <1>5 DEF ShortcutFollows, LiveBinding, WordNames
<1>11. WordsFollow'
  BY <1>1, <1>2, <1>3, <1>4, <1>5 DEF WordsFollow, WordsInUse, WordsSaved,
      WordsAreThePrimary, BackupHasTheWords, WordNames
<1>12. FilesFollow'
  BY <1>1, <1>2, <1>3, <1>4, <1>5 DEF FilesFollow, SaveNames
<1> QED BY <1>1, <1>2, <1>3, <1>4, <1>5, <1>6, <1>7, <1>8, <1>9, <1>10, <1>11,
      <1>12

LEMMA DropSlotKeeps ==
    ASSUME StorageInv, DropSlot
    PROVE  StorageInv'
<1> USE DEF StorageInv
<1>1. /\ app # "down" /\ Step = "drop_slot"
      /\ job.kind = "reset"
  BY StepIsOfKind DEF DropSlot, StepsOf, WordNames, SaveNames, Kinds
<1>2. app = "up"
  BY <1>1 DEF StorageTyped, TypeOK, AppMatchesJob
<1>3. /\ JobTyped' /\ job'.kind = job.kind /\ job'.cand = job.cand
      /\ job'.terms = job.terms /\ job'.undo = job.undo
      /\ job'.kind \in Kinds /\ job' # Idle /\ Step' = "remove_settings"
  BY <1>1, CommandGoesOn DEF DropSlot, Follows, MayEnd
<1> USE DEF DropSlot, NoFault, resetUnchanged, ghosts, profile, person,
      hotkey, WordNames, SaveNames
<1>4. StorageTyped'
  BY <1>1, <1>2, <1>3 DEF StorageTyped, TypeOK
<1>5. AppMatchesJob'
  BY <1>1, <1>2, <1>3 DEF AppMatchesJob
<1>6. CandidateIsAsked'
  BY <1>1, <1>2, <1>3 DEF CandidateIsAsked, history
<1>7. PolicyFollows'
  BY <1>1, <1>2, <1>3 DEF PolicyFollows, history
<1>8. ShortcutFollows'
  BY <1>1, <1>2, <1>3 DEF ShortcutFollows, LiveBinding, history
<1>9. WordsFollow'
  BY <1>1, <1>2, <1>3 DEF WordsFollow, WordsInUse, WordsSaved,
      WordsAreThePrimary, BackupHasTheWords
<1>10. FilesFollow'
  BY <1>1, <1>2, <1>3 DEF FilesFollow
<1> QED BY <1>1, <1>2, <1>3, <1>4, <1>5, <1>6, <1>7, <1>8, <1>9, <1>10

LEMMA RemoveSettingsKeeps ==
    ASSUME StorageInv, At("remove_settings"),
           Advance,
           NoFault,
           sfile' = Absent,
           UNCHANGED <<sbak, rows, ghosts>>,
           UNCHANGED <<profile, history, resetUnchanged>>
    PROVE  StorageInv'
<1> USE DEF StorageInv
<1>1. /\ app # "down" /\ Step = "remove_settings"
      /\ job.kind = "reset"
  BY StepIsOfKind DEF StepsOf, WordNames, SaveNames, Kinds
<1>2. app = "up"
  BY <1>1 DEF StorageTyped, TypeOK, AppMatchesJob
<1>3. /\ JobTyped' /\ job'.kind = job.kind /\ job'.cand = job.cand
      /\ job'.terms = job.terms /\ job'.undo = job.undo
      /\ job'.kind \in Kinds /\ job' # Idle /\ Step' = "remove_backup"
  BY <1>1, CommandGoesOn DEF Follows, MayEnd
<1>4. DefaultSettings \in Settings
  BY DEF DefaultSettings, Settings, HistoryModes, Bindings
<1> USE DEF NoFault, Absent, CandidateIsAsked, resetUnchanged, ghosts,
      profile, person, history, hotkey, WordNames, SaveNames
<1>5. StorageTyped'
  BY <1>1, <1>2, <1>3, <1>4 DEF StorageTyped, TypeOK, SettingsFiles
<1>6. AppMatchesJob'
  BY <1>1, <1>2, <1>3, <1>4 DEF AppMatchesJob
<1>7. CandidateIsAsked'
  BY <1>1, <1>2, <1>3, <1>4
<1>8. PolicyFollows'
  BY <1>1, <1>2, <1>3, <1>4 DEF PolicyFollows
<1>9. ShortcutFollows'
  BY <1>1, <1>2, <1>3, <1>4 DEF ShortcutFollows, LiveBinding
<1>10. WordsFollow'
  BY <1>1, <1>2, <1>3, <1>4 DEF WordsFollow, WordsInUse, WordsSaved,
      WordsAreThePrimary, BackupHasTheWords, Good
<1>11. FilesFollow'
  BY <1>1, <1>2, <1>3, <1>4 DEF FilesFollow, Good
<1> QED BY <1>1, <1>2, <1>3, <1>4, <1>5, <1>6, <1>7, <1>8, <1>9, <1>10, <1>11

LEMMA RemoveBackupKeeps ==
    ASSUME StorageInv, At("remove_backup"),
           Advance,
           NoFault,
           sbak' = Absent,
           acked' = DefaultSettings,
           before' = {},
           UNCHANGED <<sfile, rows, asked>>,
           UNCHANGED <<profile, history, resetUnchanged>>
    PROVE  StorageInv'
<1> USE DEF StorageInv
<1>1. /\ app # "down" /\ Step = "remove_backup"
      /\ job.kind = "reset"
  BY StepIsOfKind DEF StepsOf, WordNames, SaveNames, Kinds
<1>2. app = "up"
  BY <1>1 DEF StorageTyped, TypeOK, AppMatchesJob
<1>3. /\ JobTyped' /\ job'.kind = job.kind /\ job'.cand = job.cand
      /\ job'.terms = job.terms /\ job'.undo = job.undo
      /\ job'.kind \in Kinds /\ job' # Idle /\ Step' = "remove_database"
  BY <1>1, CommandGoesOn DEF Follows, MayEnd
<1>4. DefaultSettings \in Settings
  BY DEF DefaultSettings, Settings, HistoryModes, Bindings
<1> USE DEF NoFault, Absent, CandidateIsAsked, resetUnchanged, profile,
      person, history, hotkey, WordNames, SaveNames
<1>5. StorageTyped'
  BY <1>1, <1>2, <1>3, <1>4 DEF StorageTyped, TypeOK, SettingsFiles
<1>6. AppMatchesJob'
  BY <1>1, <1>2, <1>3, <1>4 DEF AppMatchesJob
<1>7. CandidateIsAsked'
  BY <1>1, <1>2, <1>3, <1>4
<1>8. PolicyFollows'
  BY <1>1, <1>2, <1>3, <1>4 DEF PolicyFollows
<1>9. ShortcutFollows'
  BY <1>1, <1>2, <1>3, <1>4 DEF ShortcutFollows, LiveBinding
<1>10. WordsFollow'
  BY <1>1, <1>2, <1>3, <1>4 DEF WordsFollow, WordsInUse, WordsSaved,
      WordsAreThePrimary, BackupHasTheWords, Good
<1>11. FilesFollow'
  BY <1>1, <1>2, <1>3, <1>4 DEF FilesFollow, Good
<1> QED BY <1>1, <1>2, <1>3, <1>4, <1>5, <1>6, <1>7, <1>8, <1>9, <1>10, <1>11

LEMMA RemoveDatabaseKeeps ==
    ASSUME StorageInv, At("remove_database"),
           Advance,
           NoFault,
           rows' = {},
           UNCHANGED <<sfile, sbak, ghosts>>,
           UNCHANGED <<profile, history, resetUnchanged>>
    PROVE  StorageInv'
<1> USE DEF StorageInv
<1>1. /\ app # "down" /\ Step = "remove_database"
      /\ job.kind = "reset"
  BY StepIsOfKind DEF StepsOf, WordNames, SaveNames, Kinds
<1>2. app = "up"
  BY <1>1 DEF StorageTyped, TypeOK, AppMatchesJob
<1>3. /\ JobTyped' /\ job'.kind = job.kind /\ job'.cand = job.cand
      /\ job'.terms = job.terms /\ job'.undo = job.undo
      /\ job'.kind \in Kinds /\ job' # Idle /\ Step' = "write_tmp"
  BY <1>1, CommandGoesOn DEF Follows, MayEnd
<1>4. DefaultSettings \in Settings
  BY DEF DefaultSettings, Settings, HistoryModes, Bindings
<1> USE DEF NoFault, CandidateIsAsked, resetUnchanged, ghosts, profile,
      person, history, hotkey, WordNames, SaveNames
<1>5. StorageTyped'
  BY <1>1, <1>2, <1>3, <1>4 DEF StorageTyped, TypeOK, Absent, SettingsFiles
<1>6. AppMatchesJob'
  BY <1>1, <1>2, <1>3, <1>4 DEF AppMatchesJob
<1>7. CandidateIsAsked'
  BY <1>1, <1>2, <1>3, <1>4
<1>8. PolicyFollows'
  BY <1>1, <1>2, <1>3, <1>4 DEF PolicyFollows
<1>9. ShortcutFollows'
  BY <1>1, <1>2, <1>3, <1>4 DEF ShortcutFollows, LiveBinding
<1>10. WordsFollow'
  BY <1>1, <1>2, <1>3, <1>4 DEF WordsFollow, WordsInUse, WordsSaved,
      WordsAreThePrimary, BackupHasTheWords, Absent, Good
<1>11. FilesFollow'
  BY <1>1, <1>2, <1>3, <1>4 DEF FilesFollow, Absent, Good
<1> QED BY <1>1, <1>2, <1>3, <1>4, <1>5, <1>6, <1>7, <1>8, <1>9, <1>10, <1>11

LEMMA RemoveFailsKeeps ==
    ASSUME StorageInv, RemoveFails
    PROVE  StorageInv'
<1> USE DEF StorageInv
<1>1. /\ app # "down" /\ job.kind = "reset"
      /\ Step \in {"remove_settings", "remove_backup", "remove_database"}
  BY StepIsOfKind DEF RemoveFails, StepsOf, WordNames, SaveNames, Kinds
<1>2. app = "up"
  BY <1>1 DEF StorageTyped, TypeOK, AppMatchesJob
<1>3. JobTyped' /\ job' = Idle /\ job'.kind = "none" /\ Step' = "none"
  BY IdleIsNoCommand DEF RemoveFails, JobTyped
<1>4. /\ Step = "remove_settings" => sfile # Absent
      /\ Step = "remove_backup" => sbak # Absent
  BY DEF RemoveFails, At, Step
<1> USE DEF StorageTyped, RemoveFails, Fault, resetUnchanged, ghosts,
      profile, person, history, hotkey, WordNames, SaveNames
<1>5. StorageTyped'
  BY <1>1, <1>2, <1>3, <1>4 DEF TypeOK
<1>6. AppMatchesJob'
  BY <1>1, <1>2, <1>3, <1>4 DEF AppMatchesJob
<1>7. CandidateIsAsked'
  BY <1>1, <1>2, <1>3, <1>4 DEF CandidateIsAsked
<1>8. PolicyFollows'
  BY <1>1, <1>2, <1>3, <1>4 DEF PolicyFollows
<1>9. ShortcutFollows'
  BY <1>1, <1>2, <1>3, <1>4 DEF ShortcutFollows, LiveBinding
<1>10. WordsFollow'
  BY <1>1, <1>2, <1>3, <1>4 DEF WordsFollow, WordsInUse, WordsSaved,
      WordsAreThePrimary, BackupHasTheWords
<1>11. FilesFollow'
  BY <1>1, <1>2, <1>3, <1>4 DEF FilesFollow
<1> QED BY <1>1, <1>2, <1>3, <1>4, <1>5, <1>6, <1>7, <1>8, <1>9, <1>10, <1>11

LEMMA DefaultsKeeps ==
    ASSUME StorageInv, Defaults
    PROVE  StorageInv'
<1> USE DEF StorageInv
<1>1. /\ app # "down" /\ Step = "defaults"
      /\ job.kind = "reset"
  BY StepIsOfKind DEF Defaults, StepsOf, WordNames, SaveNames, Kinds
<1>2. app = "up"
  BY <1>1 DEF StorageTyped, TypeOK, AppMatchesJob
<1>3. /\ JobTyped' /\ job'.kind = job.kind /\ job'.cand = job.cand
      /\ job'.terms = job.terms /\ job'.undo = job.undo
      /\ job'.kind \in Kinds /\ job' # Idle /\ Step' = "reopen_default"
  BY <1>1, CommandGoesOn DEF Defaults, Follows, MayEnd
<1>4. DefaultSettings \in Settings
  BY DEF DefaultSettings, Settings, HistoryModes, Bindings
<1> USE DEF Defaults, NoFault, resetUnchanged, ghosts, person, history,
      hotkey, WordNames, SaveNames
<1>5. StorageTyped'
  BY <1>1, <1>2, <1>3, <1>4 DEF StorageTyped, TypeOK
<1>6. AppMatchesJob'
  BY <1>1, <1>2, <1>3, <1>4 DEF AppMatchesJob
<1>7. CandidateIsAsked'
  BY <1>1, <1>2, <1>3, <1>4 DEF CandidateIsAsked
<1>8. PolicyFollows'
  BY <1>1, <1>2, <1>3, <1>4 DEF PolicyFollows
<1>9. ShortcutFollows'
  BY <1>1, <1>2, <1>3, <1>4 DEF ShortcutFollows, LiveBinding
<1>10. WordsFollow'
  BY <1>1, <1>2, <1>3, <1>4 DEF WordsFollow, WordsInUse, WordsSaved,
      WordsAreThePrimary, BackupHasTheWords
<1>11. FilesFollow'
  BY <1>1, <1>2, <1>3, <1>4 DEF FilesFollow
<1> QED BY <1>1, <1>2, <1>3, <1>4, <1>5, <1>6, <1>7, <1>8, <1>9, <1>10, <1>11

LEMMA ReopenDefaultKeeps ==
    ASSUME StorageInv, ReopenDefault
    PROVE  StorageInv'
<1> USE DEF StorageInv
<1>1. /\ app # "down" /\ Step = "reopen_default"
      /\ job.kind = "reset"
  BY StepIsOfKind DEF ReopenDefault, StepsOf, WordNames, SaveNames, Kinds
<1>2. app = "up"
  BY <1>1 DEF StorageTyped, TypeOK, AppMatchesJob
<1>3. /\ JobTyped' /\ job' = Idle /\ job'.kind = "none" /\ Step' = "none"
  BY <1>1, CommandGoesOn, IdleIsNoCommand DEF ReopenDefault, Follows, MayEnd
<1>4. \/ slot' = mem.history /\ initializationError' = FALSE
      \/ slot' = slot /\ initializationError' = initializationError
  BY <1>1 DEF ReopenDefault, PolicyFollows, history
<1>5. faults' \in {faults, faults + 1} /\ slot = NoSlot
  BY <1>1 DEF ReopenDefault, NoFault, Fault, PolicyFollows, WordNames
<1> USE DEF StorageTyped, ReopenDefault, resetUnchanged, ghosts, profile,
      person, hotkey, history, WordNames, SaveNames
<1>6. StorageTyped'
  <2>1. slot' \in HistoryModes \cup {NoSlot} /\ initializationError' \in BOOLEAN
    BY <1>4 DEF TypeOK, Settings
  <2>2. UNCHANGED <<sfile, sbak, rows, profile, ghosts, resetUnchanged>>
    OBVIOUS
  <2> QED BY <1>3, <1>5, <2>1, <2>2 DEF TypeOK
<1>7. AppMatchesJob'
  BY <1>1, <1>2, <1>3, <1>4, <1>5 DEF AppMatchesJob
<1>8. CandidateIsAsked'
  BY <1>1, <1>2, <1>3, <1>4, <1>5 DEF CandidateIsAsked, Settings
<1>9. PolicyFollows'
  BY <1>1, <1>2, <1>3, <1>4, <1>5 DEF PolicyFollows
<1>10. ShortcutFollows'
  BY <1>1, <1>2, <1>3, <1>4, <1>5 DEF ShortcutFollows, LiveBinding
<1>11. WordsFollow'
  BY <1>1, <1>2, <1>3, <1>4, <1>5 DEF WordsFollow, WordsInUse, WordsSaved,
      WordsAreThePrimary, BackupHasTheWords
<1>12. FilesFollow'
  BY <1>1, <1>2, <1>3, <1>4, <1>5 DEF FilesFollow
<1> QED BY <1>1, <1>2, <1>3, <1>4, <1>5, <1>6, <1>7, <1>8, <1>9, <1>10, <1>11,
      <1>12

-----------------------------------------------------------------------------
(* The startup and the ends of a run. *)

LEMMA LaunchKeeps ==
    ASSUME StorageInv, Launch
    PROVE  StorageInv'
<1> USE DEF StorageInv
<1>1. app = "down" /\ job = Idle /\ slot = NoSlot
  BY DEF Launch, AppMatchesJob
<1> DEFINE todo == <<"load", "seeds">>
<1>2. /\ Path("start", todo) /\ todo[1] = "load" /\ "start" \in Kinds
      /\ Begin("start", todo, NoSettings, {})
  BY StartProgram DEF Kinds, Launch
<1> HIDE DEF todo
<1>3. /\ JobTyped' /\ job' # Idle /\ job'.kind = "start" /\ job'.kind \in Kinds
      /\ Step' = "load"
  BY <1>2, CommandBegins
<1>4. rows' \subseteq Rows
  <2>1. rows \subseteq Rows
    BY DEF StorageTyped, TypeOK
  <2>2. \A r \in Rows : [r EXCEPT !.old = TRUE] \in Rows
    BY DEF Rows
  <2> QED BY <2>1, <2>2 DEF Launch
<1> USE DEF Launch, ghosts, profile, person, history, hotkey
<1>5. StorageTyped'
  BY <1>1, <1>2, <1>3, <1>4 DEF StorageTyped, TypeOK
<1>6. AppMatchesJob'
  BY <1>1, <1>2, <1>3, <1>4 DEF AppMatchesJob
<1>7. CandidateIsAsked'
  BY <1>1, <1>2, <1>3, <1>4 DEF CandidateIsAsked
<1>8. PolicyFollows'
  BY <1>1, <1>2, <1>3, <1>4 DEF PolicyFollows, WordNames
<1>9. ShortcutFollows'
  BY <1>1, <1>2, <1>3, <1>4 DEF ShortcutFollows, LiveBinding, WordNames
<1>10. WordsFollow'
  BY <1>1, <1>2, <1>3, <1>4 DEF WordsFollow, WordsInUse, WordsSaved,
      WordsAreThePrimary, BackupHasTheWords, WordNames
<1>11. FilesFollow'
  BY <1>1, <1>2, <1>3, <1>4 DEF FilesFollow, SaveNames
<1> QED BY <1>1, <1>2, <1>3, <1>4, <1>5, <1>6, <1>7, <1>8, <1>9, <1>10, <1>11

LEMMA SeededIsTyped ==
    ASSUME NEW s \in Settings
    PROVE  Seeded(s) \in Settings
BY DEF Seeded, Settings, HistoryModes, Bindings

(* What the settings store finds at a launch. *)
LEMMA LoadFinds ==
    ASSUME StorageTyped
    PROVE  \/ sfile = Absent /\ sbak = Absent /\ load = Good(DefaultSettings)
           \/ sfile.is # "good" /\ sbak.is = "good" /\ load = sbak
           \/ sfile.is = "good" /\ load = sfile
           \/ /\ sfile.is # "good" /\ load.is # "good"
              /\ ~(sfile = Absent /\ sbak = Absent)
BY DEF load, StorageTyped, TypeOK, SettingsFiles, Absent, Corrupt, TooNew, Good

LEMMA LoadProfileKeeps ==
    ASSUME StorageInv, LoadProfile
    PROVE  StorageInv'
<1> USE DEF StorageInv
<1>1. /\ app # "down" /\ Step = "load"
      /\ job.kind = "start"
  BY StepIsOfKind DEF LoadProfile, StepsOf, WordNames, SaveNames, Kinds
<1>2. app = "starting"
  BY <1>1 DEF AppMatchesJob
<1>3. /\ JobTyped' /\ job'.kind = job.kind /\ job'.cand = job.cand
      /\ job'.terms = job.terms /\ job'.undo = job.undo
      /\ job'.kind \in Kinds /\ job' # Idle /\ Step' = "seeds"
  BY <1>1, CommandGoesOn DEF LoadProfile, Follows, MayEnd
<1>4. \/ /\ sfile = Absent /\ sbak = Absent
         /\ mem' = DefaultSettings /\ loadError' = FALSE
      \/ /\ sfile.is # "good" /\ sbak.is = "good"
         /\ mem' = sbak.value /\ loadError' = FALSE
      \/ /\ sfile.is = "good"
         /\ mem' = sfile.value /\ loadError' = FALSE
      \/ /\ sfile.is # "good" /\ ~(sfile = Absent /\ sbak = Absent)
         /\ mem' = DefaultSettings /\ loadError' = TRUE /\ UNCHANGED ghosts
  BY LoadFinds DEF LoadProfile, Good
<1>5. /\ before' \cup {acked'} \subseteq before \cup {acked, mem'}
      /\ before \cup {acked} \subseteq before' \cup {acked'}
      /\ loadError' = FALSE => acked' = mem' /\ asked' = mem'
  BY DEF LoadProfile, Acknowledge, ghosts
<1>6. asked' \in {asked, mem'}
  BY DEF LoadProfile, ghosts
<1>7. mem' \in Settings
  <2>1. DefaultSettings \in Settings
    BY DEF DefaultSettings, Settings, HistoryModes, Bindings
  <2>2. \A file \in SettingsFiles : file.is = "good" => file.value \in Settings
    BY DEF SettingsFiles, Absent, Corrupt, TooNew
  <2> QED BY <1>4, <2>1, <2>2 DEF StorageTyped, TypeOK
<1>8. /\ UNCHANGED <<sfile, sbak, pfile, rows, seeds, person, history, log,
                   coordinator, registered, startUnchanged>>
      /\ faults' = faults
  BY DEF LoadProfile, NoFault, startUnchanged
<1> USE DEF Absent, startUnchanged, person, history, WordNames, SaveNames
<1>9. StorageTyped'
  BY <1>1, <1>2, <1>3, <1>4, <1>5, <1>6, <1>7, <1>8 DEF StorageTyped, TypeOK
<1>10. AppMatchesJob'
  BY <1>1, <1>2, <1>3, <1>4, <1>5, <1>6, <1>7, <1>8 DEF AppMatchesJob
<1>11. CandidateIsAsked'
  BY <1>1, <1>2, <1>3, <1>4, <1>5, <1>6, <1>7, <1>8 DEF CandidateIsAsked
<1>12. PolicyFollows'
  BY <1>1, <1>2, <1>3, <1>4, <1>5, <1>6, <1>7, <1>8 DEF PolicyFollows
<1>13. ShortcutFollows'
  BY <1>1, <1>2, <1>3, <1>4, <1>5, <1>6, <1>7, <1>8 DEF ShortcutFollows,
      LiveBinding
<1>14. WordsFollow'
  BY <1>1, <1>2, <1>3, <1>4, <1>5, <1>6, <1>7, <1>8 DEF WordsFollow,
      WordsInUse, WordsSaved, WordsAreThePrimary, BackupHasTheWords
<1>15. FilesFollow'
  <2>1. CASE sfile = Absent /\ sbak = Absent
    BY <1>1, <1>3, <1>4, <1>5, <1>8, <2>1 DEF FilesFollow
  <2>2. CASE sfile.is # "good" /\ ~(sfile = Absent /\ sbak = Absent)
    BY <1>1, <1>3, <1>5, <1>8, <2>2 DEF FilesFollow
  <2>3. CASE sfile.is = "good"
    BY <1>1, <1>3, <1>4, <1>5, <1>8, <2>3 DEF FilesFollow
  <2> QED BY <2>1, <2>2, <2>3
<1> QED BY <1>1, <1>2, <1>3, <1>4, <1>5, <1>6, <1>7, <1>8, <1>9, <1>10, <1>11,
      <1>12, <1>13, <1>14, <1>15

LEMMA SeedTerms ==
    (CHOOSE t \in SUBSET Terms : Cardinality(t) = 1) \in SUBSET Terms
<1>1. PICK x \in Terms : TRUE
  BY BoundsAssumption
<1>2. {x} \in SUBSET Terms /\ Cardinality({x}) = 1
  BY FS_Singleton
<1> QED BY <1>2

LEMMA SeedsAreConsumed ==
    ASSUME StorageInv, ConsumeSeeds
    PROVE  /\ JobTyped' /\ job' # Idle /\ job'.kind = "start" /\ job'.kind \in Kinds
           /\ Step' \in {"write_tmp", "adopt"}
           /\ job'.cand = Seeded(mem) /\ job'.cand \in Settings
<1> DEFINE settings == seeds \ {"vocabulary"} # {}
           vocabulary == "vocabulary" \in seeds
           todo == (IF settings THEN SaveSteps ELSE <<>>)
                   \o <<"adopt", "open_history", "seed_log", "open_words">>
                   \o (IF vocabulary THEN WordSteps ELSE <<>>)
                   \o <<"register">>
           cand == Seeded(mem)
           terms == CHOOSE t \in SUBSET Terms : Cardinality(t) = 1
<1>1. job \in Command /\ job.kind = "start"
  BY StepIsOfKind DEF StorageInv, ConsumeSeeds, StepsOf, WordNames, SaveNames,
      Kinds
<1>2. job' = [job EXCEPT !.todo = todo, !.cand = cand, !.terms = terms]
  BY DEF ConsumeSeeds
<1>3. settings \in BOOLEAN /\ vocabulary \in BOOLEAN
  OBVIOUS
<1>4. Path("start", todo) /\ todo[1] \in {"write_tmp", "adopt"}
  <2> HIDE DEF settings, vocabulary
  <2> QED BY <1>3, StartProgram
<1>5. cand \in Settings
  BY SeededIsTyped DEF StorageInv, StorageTyped, TypeOK
<1>6. terms \in SUBSET Terms
  BY SeedTerms
<1> HIDE DEF todo, cand, terms, settings, vocabulary
<1>7. todo \in Seq(StepsOf("start")) /\ todo # <<>>
  BY <1>4, PathParts
<1>8. todo \in Seq(AllSteps)
  <2>1. StepsOf("start") \subseteq AllSteps
    BY DEF AllSteps, Kinds
  <2> QED BY <1>7, <2>1, WiderSeq
<1>9. /\ job' \in Command /\ job'.todo = todo
      /\ job'.kind = "start" /\ job'.cand = cand
  BY <1>1, <1>2, <1>5, <1>6, <1>8 DEF Command
<1>10. Step' = todo[1]
  BY <1>7, <1>9 DEF Step
<1>11. job' # Idle
  BY <1>7, <1>9, IdleIsNoCommand
<1> QED BY <1>4, <1>5, <1>9, <1>10, <1>11 DEF JobTyped, Kinds, cand

LEMMA ConsumeSeedsKeeps ==
    ASSUME StorageInv, ConsumeSeeds
    PROVE  StorageInv'
<1> USE DEF StorageInv
<1>1. /\ app # "down" /\ Step = "seeds"
      /\ job.kind = "start"
  BY StepIsOfKind DEF ConsumeSeeds, StepsOf, WordNames, SaveNames, Kinds
<1>2. app = "starting"
  BY <1>1 DEF AppMatchesJob
<1>3. /\ JobTyped' /\ job' # Idle /\ job'.kind = "start" /\ job'.kind \in Kinds
      /\ Step' \in {"write_tmp", "adopt"}
      /\ job'.cand \in Settings /\ job'.cand = asked'
  BY SeedsAreConsumed DEF ConsumeSeeds
<1>4. /\ seeds' = {} /\ faults' = faults
      /\ UNCHANGED <<sfile, sbak, pfile, rows, profile, person, history, log,
                   coordinator, registered, acked, before, startUnchanged>>
  BY DEF ConsumeSeeds, NoFault
<1> USE DEF startUnchanged, profile, person, history, WordNames, SaveNames
<1>5. StorageTyped'
  BY <1>1, <1>2, <1>3, <1>4 DEF StorageTyped, TypeOK
<1>6. AppMatchesJob'
  BY <1>1, <1>2, <1>3, <1>4 DEF AppMatchesJob
<1>7. CandidateIsAsked'
  BY <1>1, <1>2, <1>3, <1>4 DEF CandidateIsAsked
<1>8. PolicyFollows'
  BY <1>1, <1>2, <1>3, <1>4 DEF PolicyFollows
<1>9. ShortcutFollows'
  BY <1>1, <1>2, <1>3, <1>4 DEF ShortcutFollows, LiveBinding
<1>10. WordsFollow'
  BY <1>1, <1>2, <1>3, <1>4 DEF WordsFollow, WordsInUse, WordsSaved,
      WordsAreThePrimary, BackupHasTheWords, Absent
<1>11. FilesFollow'
  BY <1>1, <1>2, <1>3, <1>4 DEF FilesFollow, Absent
<1> QED BY <1>1, <1>2, <1>3, <1>4, <1>5, <1>6, <1>7, <1>8, <1>9, <1>10, <1>11

LEMMA AdoptKeeps ==
    ASSUME StorageInv, Adopt
    PROVE  StorageInv'
<1> USE DEF StorageInv
<1>1. /\ app # "down" /\ Step = "adopt"
      /\ job.kind = "start"
  BY StepIsOfKind DEF Adopt, StepsOf, WordNames, SaveNames, Kinds
<1>2. app = "starting"
  BY <1>1 DEF AppMatchesJob
<1>3. /\ JobTyped' /\ job'.kind = job.kind /\ job'.cand = job.cand
      /\ job'.terms = job.terms /\ job'.undo = job.undo
      /\ job'.kind \in Kinds /\ job' # Idle /\ Step' = "open_history"
  BY <1>1, CommandGoesOn DEF Adopt, Follows, MayEnd
<1>4. job.cand \in Settings /\ job.cand = asked /\ slot = NoSlot
  BY <1>1, <1>2 DEF CandidateIsAsked, PolicyFollows, WordNames
<1>5. \/ sfile = Good(job.cand) /\ acked' = job.cand
      \/ sfile # Good(job.cand) /\ acked' = acked
  BY DEF Adopt, Acknowledge
<1>6. /\ before' \cup {acked'} \subseteq before \cup {acked, job.cand}
      /\ before \cup {acked} \subseteq before' \cup {acked'}
  BY DEF Adopt, Acknowledge
<1>7. /\ mem' = job.cand /\ coordinator' = job.cand.hotkey
      /\ UNCHANGED <<sfile, sbak, pfile, rows, seeds, loadError, person, history,
                     log, registered, asked, startUnchanged>>
      /\ faults' = faults
  BY DEF Adopt, NoFault
<1>8. sfile.is = "good" => sfile = Good(sfile.value)
  BY DEF StorageTyped, TypeOK, SettingsFiles, Absent, Corrupt, TooNew, Good
<1> USE DEF Absent, Good, Settings, startUnchanged, person, history,
      WordNames, SaveNames
<1>9. StorageTyped'
  BY <1>1, <1>2, <1>3, <1>4, <1>5, <1>6, <1>7, <1>8 DEF StorageTyped, TypeOK
<1>10. AppMatchesJob'
  BY <1>1, <1>2, <1>3, <1>4, <1>5, <1>6, <1>7, <1>8 DEF AppMatchesJob
<1>11. CandidateIsAsked'
  BY <1>1, <1>2, <1>3, <1>4, <1>5, <1>6, <1>7, <1>8 DEF CandidateIsAsked
<1>12. PolicyFollows'
  BY <1>1, <1>2, <1>3, <1>4, <1>5, <1>6, <1>7, <1>8 DEF PolicyFollows
<1>13. ShortcutFollows'
  BY <1>1, <1>2, <1>3, <1>4, <1>5, <1>6, <1>7, <1>8 DEF ShortcutFollows,
      LiveBinding
<1>14. WordsFollow'
  BY <1>1, <1>2, <1>3, <1>4, <1>5, <1>6, <1>7, <1>8 DEF WordsFollow,
      WordsInUse, WordsSaved, WordsAreThePrimary, BackupHasTheWords
<1>15. FilesFollow'
  BY <1>1, <1>2, <1>3, <1>4, <1>5, <1>6, <1>7, <1>8 DEF FilesFollow
<1> QED BY <1>1, <1>2, <1>3, <1>4, <1>5, <1>6, <1>7, <1>8, <1>9, <1>10, <1>11,
      <1>12, <1>13, <1>14, <1>15

LEMMA OpenHistoryKeeps ==
    ASSUME StorageInv, OpenHistory
    PROVE  StorageInv'
<1> USE DEF StorageInv
<1>1. /\ app # "down" /\ Step = "open_history"
      /\ job.kind = "start"
  BY StepIsOfKind DEF OpenHistory, StepsOf, WordNames, SaveNames, Kinds
<1>2. app = "starting"
  BY <1>1 DEF AppMatchesJob
<1>3. /\ JobTyped' /\ job'.kind = job.kind /\ job'.cand = job.cand
      /\ job'.terms = job.terms /\ job'.undo = job.undo
      /\ job'.kind \in Kinds /\ job' # Idle /\ Step' = "seed_log"
  BY <1>1, CommandGoesOn DEF OpenHistory, Follows, MayEnd
<1>4. /\ slot' = NoSlot \/ slot' = mem.history
      /\ initializationError' \in BOOLEAN /\ faults' \in {faults, faults + 1}
  BY DEF OpenHistory, NoFault, Fault
<1>5. rows' \subseteq rows
  BY DEF OpenHistory, Retained
<1>6. mem.history \in HistoryModes
  BY DEF StorageTyped, TypeOK, Settings
<1>7. UNCHANGED <<sfile, sbak, pfile, seeds, profile, person, log, coordinator,
                       registered, ghosts, startUnchanged>>
  BY DEF OpenHistory
<1> USE DEF startUnchanged, profile, person, ghosts, WordNames, SaveNames
<1>8. StorageTyped'
  BY <1>1, <1>2, <1>3, <1>4, <1>5, <1>6, <1>7 DEF StorageTyped, TypeOK
<1>9. AppMatchesJob'
  BY <1>1, <1>2, <1>3, <1>4, <1>5, <1>6, <1>7 DEF AppMatchesJob
<1>10. CandidateIsAsked'
  BY <1>1, <1>2, <1>3, <1>4, <1>5, <1>6, <1>7 DEF CandidateIsAsked
<1>11. PolicyFollows'
  BY <1>1, <1>2, <1>3, <1>4, <1>5, <1>6, <1>7 DEF PolicyFollows
<1>12. ShortcutFollows'
  BY <1>1, <1>2, <1>3, <1>4, <1>5, <1>6, <1>7 DEF ShortcutFollows, LiveBinding
<1>13. WordsFollow'
  BY <1>1, <1>2, <1>3, <1>4, <1>5, <1>6, <1>7 DEF WordsFollow, WordsInUse,
      WordsSaved, WordsAreThePrimary, BackupHasTheWords
<1>14. FilesFollow'
  BY <1>1, <1>2, <1>3, <1>4, <1>5, <1>6, <1>7 DEF FilesFollow
<1> QED BY <1>1, <1>2, <1>3, <1>4, <1>5, <1>6, <1>7, <1>8, <1>9, <1>10, <1>11,
      <1>12, <1>13, <1>14

LEMMA SeedLogKeeps ==
    ASSUME StorageInv, SeedLog
    PROVE  StorageInv'
<1> USE DEF StorageInv
<1>1. /\ app # "down" /\ Step = "seed_log"
      /\ job.kind = "start"
  BY StepIsOfKind DEF SeedLog, StepsOf, WordNames, SaveNames, Kinds
<1>2. app = "starting"
  BY <1>1 DEF AppMatchesJob
<1>3. /\ JobTyped' /\ job'.kind = job.kind /\ job'.cand = job.cand
      /\ job'.terms = job.terms /\ job'.undo = job.undo
      /\ job'.kind \in Kinds /\ job' # Idle /\ Step' = "open_words"
  BY <1>1, CommandGoesOn DEF SeedLog, Follows, MayEnd
<1>4. LogTyped(log')
  <2>1. /\ LogTyped([i \in 1 .. Len(NewestRows) |->
                       [id |-> NewestRows[i], seeded |-> TRUE]])
        /\ LogTyped(<<>>)
    BY SeedingKeepsTheLog
  <2> QED BY <2>1 DEF SeedLog
<1>5. /\ UNCHANGED <<sfile, sbak, pfile, rows, seeds, profile, person, history,
                     coordinator, registered, ghosts, startUnchanged>>
      /\ faults' = faults
  BY DEF SeedLog, NoFault
<1> USE DEF startUnchanged, profile, person, history, ghosts, WordNames,
      SaveNames
<1>6. StorageTyped'
  BY <1>3, <1>4, <1>5 DEF StorageTyped, TypeOK, LogTyped
<1>7. AppMatchesJob'
  BY <1>1, <1>2, <1>3, <1>4, <1>5 DEF AppMatchesJob
<1>8. CandidateIsAsked'
  BY <1>1, <1>2, <1>3, <1>4, <1>5 DEF CandidateIsAsked
<1>9. PolicyFollows'
  BY <1>1, <1>2, <1>3, <1>4, <1>5 DEF PolicyFollows
<1>10. ShortcutFollows'
  BY <1>1, <1>2, <1>3, <1>4, <1>5 DEF ShortcutFollows, LiveBinding
<1>11. WordsFollow'
  BY <1>1, <1>2, <1>3, <1>4, <1>5 DEF WordsFollow, WordsInUse, WordsSaved,
      WordsAreThePrimary, BackupHasTheWords
<1>12. FilesFollow'
  BY <1>1, <1>2, <1>3, <1>4, <1>5 DEF FilesFollow
<1> QED BY <1>1, <1>2, <1>3, <1>4, <1>5, <1>6, <1>7, <1>8, <1>9, <1>10, <1>11,
      <1>12

LEMMA OpenWordsKeeps ==
    ASSUME StorageInv, OpenWords
    PROVE  StorageInv'
<1> USE DEF StorageInv
<1>1. /\ app # "down" /\ Step = "open_words"
      /\ job.kind = "start"
  BY StepIsOfKind DEF OpenWords, StepsOf, WordNames, SaveNames, Kinds
<1>2. app = "starting"
  BY <1>1 DEF AppMatchesJob
<1>3. /\ JobTyped' /\ job'.kind = job.kind /\ job'.cand = job.cand
      /\ job'.terms = job.terms /\ job'.undo = job.undo
      /\ job'.kind \in Kinds /\ job' # Idle /\ Step' \in {"words_tmp", "register"}
  BY <1>1, CommandGoesOn DEF OpenWords, Follows, MayEnd
<1>4. /\ words' = IF pfile = Absent THEN {} ELSE pfile.value
      /\ pfile # Absent => pfile = Good(pfile.value)
      /\ words' \in SUBSET Terms
  BY DEF OpenWords, StorageTyped, TypeOK, WordFiles, Good, Absent
<1>5. /\ UNCHANGED <<sfile, sbak, pfile, rows, seeds, profile, history, log,
                     coordinator, registered, ghosts, startUnchanged>>
      /\ pendingImport' = FALSE /\ faults' = faults
  BY DEF OpenWords, NoFault
<1> USE DEF startUnchanged, profile, history, ghosts, WordNames, SaveNames
<1>6. StorageTyped'
  BY <1>1, <1>2, <1>3, <1>4, <1>5 DEF StorageTyped, TypeOK
<1>7. AppMatchesJob'
  BY <1>1, <1>2, <1>3, <1>4, <1>5 DEF AppMatchesJob
<1>8. CandidateIsAsked'
  BY <1>1, <1>2, <1>3, <1>4, <1>5 DEF CandidateIsAsked
<1>9. PolicyFollows'
  BY <1>1, <1>2, <1>3, <1>4, <1>5 DEF PolicyFollows
<1>10. ShortcutFollows'
  BY <1>1, <1>2, <1>3, <1>4, <1>5 DEF ShortcutFollows, LiveBinding
<1>11. WordsFollow'
  BY <1>1, <1>2, <1>3, <1>4, <1>5 DEF WordsFollow, WordsInUse, WordsSaved,
      WordsAreThePrimary, BackupHasTheWords
<1>12. FilesFollow'
  BY <1>1, <1>2, <1>3, <1>4, <1>5 DEF FilesFollow
<1> QED BY <1>1, <1>2, <1>3, <1>4, <1>5, <1>6, <1>7, <1>8, <1>9, <1>10, <1>11,
      <1>12

LEMMA RegisterKeeps ==
    ASSUME StorageInv, Register
    PROVE  StorageInv'
<1> USE DEF StorageInv
<1>1. /\ app # "down" /\ Step = "register"
      /\ job.kind = "start"
  BY StepIsOfKind DEF Register, StepsOf, WordNames, SaveNames, Kinds
<1>2. app = "starting"
  BY <1>1 DEF AppMatchesJob
<1>3. /\ JobTyped' /\ job' = Idle /\ job'.kind = "none" /\ Step' = "none"
  BY <1>1, CommandGoesOn, IdleIsNoCommand DEF Register, Follows, MayEnd
<1>4. app' = "up" /\ registered' = LiveBinding
  BY DEF Register, LiveBinding
<1>5. /\ UNCHANGED <<disk, profile, person, history, log, coordinator, taken,
                     storing, ghosts, dictations, jobs, launches, kills, damage>>
      /\ faults' = faults
  BY DEF Register, NoFault
<1> USE DEF disk, profile, person, history, ghosts, WordNames, SaveNames
<1>6. StorageTyped'
  BY <1>1, <1>2, <1>3, <1>4, <1>5 DEF StorageTyped, TypeOK, LiveBinding,
      NoBinding
<1>7. AppMatchesJob'
  BY <1>1, <1>2, <1>3, <1>4, <1>5 DEF AppMatchesJob
<1>8. CandidateIsAsked'
  BY <1>1, <1>2, <1>3, <1>4, <1>5 DEF CandidateIsAsked
<1>9. PolicyFollows'
  BY <1>1, <1>2, <1>3, <1>4, <1>5 DEF PolicyFollows
<1>10. ShortcutFollows'
  BY <1>1, <1>2, <1>3, <1>4, <1>5 DEF ShortcutFollows, LiveBinding
<1>11. WordsFollow'
  BY <1>1, <1>2, <1>3, <1>4, <1>5 DEF WordsFollow, WordsInUse, WordsSaved,
      WordsAreThePrimary, BackupHasTheWords
<1>12. FilesFollow'
  BY <1>1, <1>2, <1>3, <1>4, <1>5 DEF FilesFollow
<1> QED BY <1>1, <1>2, <1>3, <1>4, <1>5, <1>6, <1>7, <1>8, <1>9, <1>10, <1>11,
      <1>12

(* Quitting, and being killed: a copy of the backup may be cut short. *)
LEMMA EndingKeeps ==
    ASSUME StorageInv, Ends,
           \/ UNCHANGED sbak
           \/ /\ Step = "copy_backup" /\ sfile # Absent
              /\ sbak' \in {sbak, Corrupt, sfile},
           kills' \in {kills, kills + 1},
           UNCHANGED damage
    PROVE  StorageInv'
<1> USE DEF StorageInv
<1>1. JobTyped' /\ job' = Idle /\ job'.kind = "none" /\ Step' = "none"
  BY IdleIsNoCommand DEF Ends, JobTyped
<1>2. app' = "down" /\ slot' = NoSlot
  BY DEF Ends
<1>3. DefaultSettings \in Settings
  BY DEF DefaultSettings, Settings, HistoryModes, Bindings
<1> USE DEF Ends
<1>4. StorageTyped'
  <2>1. sbak' \in SettingsFiles
    BY DEF StorageTyped, TypeOK, SettingsFiles
  <2>2. LogTyped(<<>>)
    BY BoundsAssumption DEF LogTyped
  <2>3. LogTyped(log')
    BY <2>2
  <2>4. storing' \in Seq(1 .. MaxDictations)
    OBVIOUS
  <2>5. {jobs, launches, faults, kills, damage}' \subseteq Nat
    BY DEF StorageTyped
  <2> QED BY <1>1, <1>2, <2>1, <2>3, <2>4, <2>5 DEF StorageTyped, TypeOK,
      LogTyped, profile, ghosts, NoBinding
<1>5. AppMatchesJob'
  BY <1>1, <1>2, <1>3 DEF AppMatchesJob, Absent, Corrupt, profile, ghosts
<1>6. CandidateIsAsked'
  BY <1>1, <1>2, <1>3 DEF CandidateIsAsked, Absent, Corrupt, profile, ghosts
<1>7. PolicyFollows'
  BY <1>1, <1>2, <1>3 DEF PolicyFollows, Absent, Corrupt, profile, ghosts,
      WordNames
<1>8. ShortcutFollows'
  BY <1>1, <1>2, <1>3 DEF ShortcutFollows, LiveBinding, Absent, Corrupt,
      profile, ghosts, WordNames
<1>9. WordsFollow'
  BY <1>1, <1>2, <1>3 DEF WordsFollow, WordsInUse, WordsSaved,
      WordsAreThePrimary, BackupHasTheWords, Absent, Corrupt, profile, ghosts,
      WordNames
<1>10. FilesFollow'
  <2>1. CASE UNCHANGED sbak
    BY <1>1, <1>2, <2>1 DEF FilesFollow, ghosts, SaveNames
  <2>2. CASE Step = "copy_backup" /\ sfile # Absent
             /\ sbak' \in {sbak, Corrupt, sfile}
    <3>1. app # "down"
      BY <2>2, IdleIsNoCommand DEF AppMatchesJob
    <3> QED BY <1>1, <1>2, <2>2, <3>1 DEF FilesFollow, Absent, Corrupt,
        ghosts, SaveNames
  <2> QED BY <2>1, <2>2
<1> QED BY <1>1, <1>2, <1>3, <1>4, <1>5, <1>6, <1>7, <1>8, <1>9, <1>10

LEMMA DamageKeeps ==
    ASSUME StorageInv, Damage
    PROVE  StorageInv'
<1> USE DEF StorageInv
<1>1. app = "down" /\ app' = "down" /\ job = Idle /\ job' = Idle
  BY DEF Damage, AppMatchesJob
<1>2. /\ JobTyped' /\ job.kind = "none" /\ Step = "none"
      /\ job'.kind = "none" /\ Step' = "none"
  BY <1>1, IdleIsNoCommand DEF JobTyped
<1>3. /\ sfile' \in SettingsFiles /\ sfile'.is # "good" /\ sfile' # Absent
  BY DEF Damage, SettingsFiles, Corrupt, TooNew, Absent
<1>4. UNCHANGED <<sbak, pfile, pbak, rows, seeds, app, job, profile, person,
                       history, log, hotkey, storing, ghosts, dictations, jobs,
                       launches, faults, kills>> /\ damage' = damage + 1
  BY DEF Damage
<1> USE DEF profile, person, history, hotkey, ghosts
<1>5. StorageTyped'
  BY <1>1, <1>2, <1>3, <1>4 DEF StorageTyped, TypeOK
<1>6. AppMatchesJob'
  BY <1>1, <1>2, <1>3, <1>4 DEF AppMatchesJob
<1>7. CandidateIsAsked'
  BY <1>1, <1>2, <1>3, <1>4 DEF CandidateIsAsked
<1>8. PolicyFollows'
  BY <1>1, <1>2, <1>3, <1>4 DEF PolicyFollows, WordNames
<1>9. ShortcutFollows'
  BY <1>1, <1>2, <1>3, <1>4 DEF ShortcutFollows, LiveBinding, WordNames
<1>10. WordsFollow'
  BY <1>1, <1>2, <1>3, <1>4 DEF WordsFollow, WordsInUse, WordsSaved,
      WordsAreThePrimary, BackupHasTheWords, WordNames
<1>11. FilesFollow'
  BY <1>1, <1>2, <1>3, <1>4 DEF FilesFollow, SaveNames
<1> QED BY <1>1, <1>2, <1>3, <1>4, <1>5, <1>6, <1>7, <1>8, <1>9, <1>10, <1>11

-----------------------------------------------------------------------------
(* The invariant. *)

LEMMA StorageStarts ==
    ASSUME Init
    PROVE  StorageInv
<1>1. job.kind = "none" /\ Step = "none" /\ JobTyped
  BY IdleIsNoCommand DEF Init, JobTyped
<1>2. DefaultSettings \in Settings
  BY DEF DefaultSettings, Settings, HistoryModes, Bindings
<1>3. LogTyped(<<>>)
  BY BoundsAssumption DEF LogTyped
<1>4. LogTyped(log)
  BY <1>3 DEF Init
<1>5. sfile \in SettingsFiles /\ sbak \in SettingsFiles
  BY DEF Init, SettingsFiles
<1>6. pfile \in WordFiles /\ pbak \in WordFiles
  BY DEF Init, WordFiles
<1>7. storing \in Seq(1 .. MaxDictations) /\ dictations \in 0 .. MaxDictations
  BY BoundsAssumption DEF Init
<1>8. StorageTyped
  <2>1. rows \subseteq Rows /\ seeds \subseteq SeedKinds /\ taken \subseteq Bindings
    BY DEF Init, SeedKinds, Bindings
  <2>2. {mem, acked, asked} \cup before \subseteq Settings
    BY <1>2 DEF Init
  <2>3. {jobs, launches, faults, kills, damage} \subseteq Nat
    BY DEF Init
  <2>4. /\ {coordinator} \subseteq Bindings /\ registered = NoBinding
        /\ slot = NoSlot /\ words \in SUBSET Terms
        /\ app = "down" /\ job = Idle
    BY DEF Init, Bindings
  <2>5. loadError = FALSE /\ initializationError = FALSE /\ pendingImport = FALSE
    BY DEF Init
  <2> QED BY <1>4, <1>5, <1>6, <1>7, <2>1, <2>2, <2>3, <2>4, <2>5
        DEF StorageTyped, TypeOK, LogTyped
<1>9. AppMatchesJob /\ CandidateIsAsked
  BY <1>1 DEF AppMatchesJob, CandidateIsAsked, Init
<1>10. PolicyFollows /\ ShortcutFollows
  BY <1>1 DEF PolicyFollows, ShortcutFollows, Init
<1>11. WordsFollow
  BY <1>1 DEF WordsFollow, WordsInUse, Init
<1>12. FilesFollow
  BY <1>1 DEF FilesFollow, Init, Absent, Corrupt, SaveNames
<1> QED BY <1>1, <1>8, <1>9, <1>10, <1>11, <1>12 DEF StorageInv

LEMMA SaveKeeps ==
    ASSUME StorageInv, Save
    PROVE  StorageInv'
<1>1. UNCHANGED <<ghosts, dictations, jobs, launches, kills, damage>>
  BY DEF Save
<1>2. CASE WriteTemporary
  BY <1>1, <1>2, WriteTemporaryKeeps
<1>3. CASE CopyBackup
  BY <1>1, <1>3, CopyBackupKeeps
<1>4. CASE Replace
  BY <1>1, <1>4, ReplaceKeeps
<1>5. CASE SaveFails \/ SaveRefused
  <2>1. Abandon /\ UNCHANGED <<sfile, saveUnchanged>>
    BY <1>5 DEF SaveFails, SaveRefused
  <2>2. faults' \in {faults, faults + 1}
    BY <1>5 DEF SaveFails, SaveRefused, Fault, NoFault
  <2>3. PICK step \in SaveNames :
            /\ At(step)
            /\ \/ UNCHANGED sbak
               \/ /\ step = "copy_backup" /\ sfile # Absent
                  /\ sbak' \in {sbak, Corrupt, sfile}
    BY <1>5 DEF SaveFails, SaveRefused, SaveNames
  <2> QED BY <1>1, <2>1, <2>2, <2>3, GivingUpKeeps
<1> QED BY <1>2, <1>3, <1>4, <1>5 DEF Save

LEMMA SettingKeeps ==
    ASSUME StorageInv,
           \/ EditSetting
           \/ \E b \in Bindings : HotkeyConfigure(b)
           \/ \E m \in HistoryModes : HistoryConfigure(m)
           \/ SetPolicy \/ ApplyRetention \/ DropSlotLock \/ Commit
    PROVE  StorageInv'
<1>1. CASE EditSetting
  BY <1>1, EditSettingKeeps
<1>2. ASSUME NEW b \in Bindings, HotkeyConfigure(b)
      PROVE  StorageInv'
  BY <1>2, HotkeyConfigureKeeps, HotkeyTakenKeeps
<1>3. ASSUME NEW m \in HistoryModes, HistoryConfigure(m)
      PROVE  StorageInv'
  BY <1>3, HistoryConfigureKeeps
<1>4. CASE ApplyRetention
  <2>1. At("retain")
        /\ UNCHANGED <<sfile, sbak, pfile, pbak, seeds, app, profile, person,
                       initializationError, log, hotkey, storing, ghosts,
                       dictations, jobs, launches, kills, damage>>
    BY <1>4 DEF ApplyRetention
  <2>2. \/ Advance /\ rows' = Retained(slot) /\ NoFault /\ UNCHANGED slot
        \/ Fault /\ job' = Idle /\ slot' = job.undo.slot /\ UNCHANGED rows
    BY <1>4 DEF ApplyRetention
  <2> QED BY <2>1, <2>2, RetentionAppliedKeeps, RetentionFailedKeeps
<1> QED BY <1>1, <1>2, <1>3, <1>4, SetPolicyKeeps, DropSlotLockKeeps,
      CommitKeeps

LEMMA WordKeeps ==
    ASSUME StorageInv, AddWord \/ RemoveWords \/ ImportPreview \/ ImportCommit
                       \/ WriteWords
    PROVE  StorageInv'
<1>1. ASSUME NEW proposed \in SUBSET Terms, ProposeWords(proposed)
      PROVE  StorageInv'
  BY <1>1, ProposeWordsKeeps DEF ProposeWords
<1>2. words \in SUBSET Terms
  BY DEF StorageInv, StorageTyped, TypeOK
<1>3. CASE AddWord
  <2>1. PICK t \in Terms : ProposeWords(words \cup {t})
    BY <1>3 DEF AddWord
  <2>2. words \cup {t} \in SUBSET Terms
    BY <1>2
  <2> QED BY <1>1, <2>1, <2>2
<1>4. CASE RemoveWords
  <2>1. PICK left \in SUBSET Terms : ProposeWords(left)
    <3>1. \A t : words \ {t} \in SUBSET Terms
      BY <1>2
    <3> QED BY <1>4, <3>1 DEF RemoveWords
  <2> QED BY <1>1, <2>1
<1>5. CASE ImportCommit
  BY <1>5, ProposeWordsKeeps DEF ImportCommit
<1>6. CASE WriteWords
  BY <1>6, WordsTemporaryKeeps, DropBackupKeeps, RetireKeeps, PlaceKeeps,
      SyncKeeps, WordsCommitKeeps, WordsFailKeeps DEF WriteWords
<1> QED BY <1>3, <1>4, <1>5, <1>6, ImportPreviewKeeps

LEMMA HistoryKeeps ==
    ASSUME StorageInv, PublishTranscript \/ Persist \/ HistoryDeleteAll
                       \/ DeleteRows \/ Reopen \/ ClearSeededHistory
    PROVE  StorageInv'
BY PublishTranscriptKeeps, PersistKeeps, HistoryDeleteAllKeeps, DeleteRowsKeeps,
   ReopenKeeps, ClearSeededHistoryKeeps

LEMMA ResetKeeps ==
    ASSUME StorageInv, ResetCommit \/ Reset
    PROVE  StorageInv'
<1>1. CASE RemoveFiles
  <2>1. Advance /\ NoFault /\ UNCHANGED <<profile, history, resetUnchanged>>
    BY <1>1 DEF RemoveFiles
  <2>2. \/ /\ At("remove_settings") /\ sfile' = Absent
           /\ UNCHANGED <<sbak, rows, ghosts>>
        \/ /\ At("remove_backup") /\ sbak' = Absent
           /\ acked' = DefaultSettings /\ before' = {}
           /\ UNCHANGED <<sfile, rows, asked>>
        \/ /\ At("remove_database") /\ rows' = {}
           /\ UNCHANGED <<sfile, sbak, ghosts>>
    BY <1>1 DEF RemoveFiles
  <2> QED BY <2>1, <2>2, RemoveSettingsKeeps, RemoveBackupKeeps,
        RemoveDatabaseKeeps
<1> QED BY <1>1, ResetCommitKeeps, DropSlotKeeps, RemoveFailsKeeps, DefaultsKeeps,
      ReopenDefaultKeeps DEF Reset

LEMMA RunKeeps ==
    ASSUME StorageInv, Launch \/ Start \/ Quit \/ Kill \/ Damage
    PROVE  StorageInv'
<1>1. CASE Quit
  <2>1. Ends /\ UNCHANGED sbak /\ kills' = kills /\ UNCHANGED damage
    BY <1>1 DEF Quit
  <2> QED BY <2>1, EndingKeeps
<1>2. CASE Kill
  <2>1. Ends /\ UNCHANGED damage /\ kills' = kills + 1
    BY <1>2 DEF Kill
  <2>2. \/ UNCHANGED sbak
        \/ /\ Step = "copy_backup" /\ sfile # Absent
           /\ sbak' \in {sbak, Corrupt, sfile}
    BY <1>2 DEF Kill, At, Step
  <2> QED BY <2>1, <2>2, EndingKeeps
<1> QED BY <1>1, <1>2, LaunchKeeps, LoadProfileKeeps, ConsumeSeedsKeeps,
      AdoptKeeps, OpenHistoryKeeps, SeedLogKeeps, OpenWordsKeeps,
      RegisterKeeps, DamageKeeps DEF Start

LEMMA StorageStep ==
    ASSUME StorageInv, [Next]_vars
    PROVE  StorageInv'
<1>1. CASE UNCHANGED vars
  <2>1. StorageTyped'
    BY <1>1 DEF StorageInv, StorageTyped, TypeOK, LogTyped, vars, disk, profile,
        person, history, hotkey, ghosts, bounds
  <2> QED BY <1>1, <2>1, StandingStillKeeps DEF vars, disk, profile, person,
        history, hotkey, bounds
<1>2. CASE Next
  BY <1>2, SaveKeeps, SettingKeeps, WordKeeps, HistoryKeeps, ResetKeeps,
      RunKeeps DEF Next
<1> QED BY <1>1, <1>2

(* The storage keeps its invariant: what is left of every command is a path  *)
(* of its kind, and memory, files and the operating system are as far from   *)
(* each other as that step leaves them.                                      *)
THEOREM StorageInvariant == Spec => []StorageInv
BY StorageStarts, StorageStep, PTL DEF Spec

-----------------------------------------------------------------------------
(* What it promises. *)

(* Between commands the running history policy and the registered shortcut   *)
(* are the profile's and the words in memory are on the disk, after a failed *)
(* command too, whatever the bounds.                                         *)
THEOREM OwnersAgree == Spec => []MemoryMatchesDisk
<1>1. StorageInv => MemoryMatchesDisk
  <2> SUFFICES ASSUME StorageInv
               PROVE  MemoryMatchesDisk
    OBVIOUS
  <2>1. TypeOK
    BY DEF StorageInv, StorageTyped
  <2>2. job = Idle => job.kind = "none" /\ Step = "none"
    BY IdleIsNoCommand
  <2>3. PolicyMatchesProfile
    BY <2>2 DEF StorageInv, PolicyFollows, PolicyMatchesProfile
  <2>4. WordsAreOnDisk
    BY <2>2 DEF StorageInv, WordsFollow, WordsInUse, WordsSaved, WordsAreOnDisk
  <2>5. ShortcutIsTheSavedOne
    BY <2>2 DEF StorageInv, ShortcutFollows, LiveBinding, ShortcutIsTheSavedOne
  <2> QED BY <2>1, <2>3, <2>4, <2>5 DEF MemoryMatchesDisk
<1> QED BY <1>1, StorageInvariant, PTL

(* While the profile is to be loaded nothing else of the application runs.   *)
LEMMA OnlyTheLoadRuns ==
    ASSUME StorageInv, Next, At("load")
    PROVE  LoadProfile \/ app' = "down" \/ UNCHANGED <<app, job>>
<1>1. app = "starting" /\ job # Idle /\ \A step : At(step) => step = "load"
  BY StepIsOfKind DEF StorageInv, AppMatchesJob, StepsOf, WordNames, SaveNames,
      Kinds, At
<1>2. ~Ready /\ app # "up" /\ app # "down"
  BY <1>1 DEF Ready
<1>3. ~Save
  BY <1>1 DEF Save, WriteTemporary, CopyBackup, Replace, SaveFails, SaveRefused
<1>4. ~WriteWords
  BY <1>1 DEF WriteWords, WordsTemporary, DropBackup, Retire, Place, Sync,
      WordsCommit, WordsFail
<1>5. ~(SetPolicy \/ ApplyRetention \/ DropSlotLock \/ Commit)
  BY <1>1 DEF SetPolicy, ApplyRetention, DropSlotLock, Commit
<1>6. ~(DeleteRows \/ Reopen \/ ClearSeededHistory \/ Reset)
  BY <1>1 DEF DeleteRows, Reopen, ClearSeededHistory, Reset, DropSlot,
      RemoveFiles, RemoveFails, Defaults, ReopenDefault
<1>7. ~(ConsumeSeeds \/ Adopt \/ OpenHistory \/ SeedLog \/ OpenWords \/ Register)
  BY <1>1 DEF ConsumeSeeds, Adopt, OpenHistory, SeedLog, OpenWords, Register
<1>8. ~(\/ EditSetting \/ \E b \in Bindings : HotkeyConfigure(b)
        \/ \E m \in HistoryModes : HistoryConfigure(m)
        \/ AddWord \/ RemoveWords \/ ImportPreview \/ ImportCommit
        \/ HistoryDeleteAll \/ ResetCommit)
  BY <1>2 DEF EditSetting, HotkeyConfigure, HistoryConfigure, AddWord,
      RemoveWords, ProposeWords, ImportPreview, ImportCommit, HistoryDeleteAll,
      ResetCommit
<1>9. ~(PublishTranscript \/ Persist \/ Launch \/ Damage \/ Quit)
  BY <1>2 DEF PublishTranscript, Persist, Launch, Damage, Quit
<1>10. Kill => app' = "down"
  BY DEF Kill, Ends
<1> QED BY <1>3, <1>4, <1>5, <1>6, <1>7, <1>8, <1>9, <1>10 DEF Next, Start

(* A launch uses a profile that was saved, or refuses, after any number of    *)
(* launches, failures, kills and damaged files.                               *)
THEOREM ProfileIsNotLostSilently == Spec => LoadedProfileWasSaved
<1> DEFINE Promise ==
       At("load") /\ ~At("load")' /\ app' # "down" =>
           \/ loadError'
           \/ mem' \in {acked, asked}
           \/ sfile.is # "good" /\ sbak.is = "good" /\ mem' \in before
<1>1. ASSUME StorageInv, [Next]_vars
      PROVE  [Promise]_vars
  <2>1. SUFFICES ASSUME Next, At("load"), ~At("load")', app' # "down"
                 PROVE  \/ loadError'
                        \/ mem' \in {acked, asked}
                        \/ /\ sfile.is # "good" /\ sbak.is = "good"
                           /\ mem' \in before
    BY <1>1
  <2>2. LoadProfile
    <3>1. ~UNCHANGED <<app, job>>
      BY <2>1 DEF At
    <3> QED BY <1>1, <2>1, <3>1, OnlyTheLoadRuns
  <2>3. FilesFollow /\ Step = "load" /\ app # "down"
    BY <1>1, <2>1, StepIsOfKind DEF StorageInv
  <2>4. \/ loadError'
        \/ /\ sfile = Absent /\ sbak = Absent /\ mem' = DefaultSettings
        \/ sfile.is # "good" /\ sbak.is = "good" /\ mem' = sbak.value
        \/ sfile.is = "good" /\ mem' = sfile.value
    BY <1>1, <2>2, LoadFinds DEF StorageInv, LoadProfile, Good
  <2> QED BY <2>3, <2>4 DEF FilesFollow
<1> QED BY <1>1, StorageInvariant, PTL DEF Spec, LoadedProfileWasSaved

(* A transcript is written to the plaintext database only while the profile   *)
(* permits it, or the change that permits it is being made.                   *)
THEOREM NothingStoredWithoutConsent == Spec => StoredWithConsent
<1> DEFINE Promise ==
       \/ rows' \subseteq rows
       \/ app # "up"
       \/ permits_persistence(mem.history)
       \/ job.kind = "history" /\ permits_persistence(job.cand.history)
<1>1. ASSUME StorageInv, [Next]_vars
      PROVE  [Promise]_vars
  <2>1. CASE Persist
    <3>1. CASE UNCHANGED rows
      BY <3>1
    <3>2. CASE slot # NoSlot /\ permits_persistence(slot) /\ app = "up"
      <4>1. \/ slot = mem.history
            \/ job.kind = "history" /\ slot = job.cand.history
        BY <1>1, <3>2 DEF StorageInv, PolicyFollows
      <4> QED BY <3>2, <4>1
    <3> QED BY <2>1, <3>1, <3>2 DEF Persist
  <2>2. CASE Launch
    BY <2>2 DEF Launch
  <2>3. CASE ApplyRetention \/ OpenHistory
    BY <2>3 DEF ApplyRetention, OpenHistory, Retained
  <2>4. CASE DeleteRows \/ Reset
    BY <2>4 DEF DeleteRows, Reset, DropSlot, RemoveFiles, RemoveFails, Defaults,
        ReopenDefault, resetUnchanged
  <2>5. CASE Save \/ WriteWords \/ SetPolicy \/ DropSlotLock \/ Commit \/ Reopen
             \/ ClearSeededHistory
    <3>1. UNCHANGED rows
      BY <2>5 DEF Save, WriteTemporary, CopyBackup, Replace, SaveFails,
          SaveRefused, saveUnchanged, WriteWords, WordsTemporary, DropBackup,
          Retire, Place, Sync, WordsCommit, WordsFail, wordsUnchanged,
          SetPolicy, DropSlotLock, Commit, Reopen, ClearSeededHistory, disk
    <3> QED BY <3>1
  <2>6. CASE \/ EditSetting \/ \E b \in Bindings : HotkeyConfigure(b)
             \/ \E m \in HistoryModes : HistoryConfigure(m)
             \/ AddWord \/ RemoveWords \/ ImportPreview \/ ImportCommit
             \/ HistoryDeleteAll \/ ResetCommit
    <3>1. UNCHANGED rows
      BY <2>6 DEF EditSetting, HotkeyConfigure, HistoryConfigure, AddWord,
          RemoveWords, ProposeWords, ImportPreview, ImportCommit,
          HistoryDeleteAll, ResetCommit, commandUnchanged, disk
    <3> QED BY <3>1
  <2>7. CASE \/ LoadProfile \/ ConsumeSeeds \/ Adopt \/ SeedLog \/ OpenWords
             \/ Register \/ Quit \/ Kill \/ Damage \/ PublishTranscript
             \/ UNCHANGED vars
    <3>1. UNCHANGED rows
      BY <2>7 DEF LoadProfile, ConsumeSeeds, Adopt, SeedLog, OpenWords,
          Register, Quit, Kill, Ends, Damage, PublishTranscript, vars, disk
    <3> QED BY <3>1
  <2> QED BY <1>1, <2>1, <2>2, <2>3, <2>4, <2>5, <2>6, <2>7 DEF Next, Start
<1> QED BY <1>1, StorageInvariant, PTL DEF Spec, StoredWithConsent
=============================================================================
