--------------------------- MODULE MCBootstrapper ---------------------------
(***************************************************************************)
(* A catalog with one Granite pack, the CUDA worker and two runtime        *)
(* libraries, a machine with two cards, and the bounded inputs on which    *)
(* the catalog's and the payload's operators are checked.                  *)
(***************************************************************************)
EXTENDS Bootstrapper

File(name) == [name |-> name, key |-> name, bytes |-> 1, url |-> TRUE]

Runtime(id, files) ==
  [id |-> id, kind |-> "runtime", wellFormed |-> TRUE, release |-> "none",
   files |-> files, extracted |-> Len(files)]

MCWorker  == Runtime("worker", <<File(Worker)>>)
MCCudart  == Runtime("cudart", <<File("cudart64.dll")>>)
MCCublas  == Runtime("cublas", <<File("cublas64.dll")>>)

Transcribes ==
  [locale |-> [name |-> "en", key |-> "en"], task |-> "transcribe", target |-> <<>>,
   features |-> <<"punctuation">>]

MCPack(id, revision, provider, eligible) ==
  [id |-> id, revision |-> revision, role |-> "final-asr", streaming |-> "offline",
   eligible |-> eligible, wellFormed |-> TRUE, archive |-> "none",
   files |-> <<File("model.gguf")>>, installed |-> 1,
   runtime |-> [provider |-> provider, platform |-> "windows", architecture |-> "x86_64"],
   memory |-> << [min |-> 1, max |-> 2, vramMin |-> <<>>, vramMax |-> <<>>] >>,
   capabilities |-> <<Transcribes>>,
   licenses |-> << [component |-> "weights", redistribution |-> "allowed"] >>,
   application |-> [min |-> 1, max |-> 2], worker |-> [min |-> 1, max |-> 0]]

MCManifestOf(artifacts, packs) ==
  [status |-> "release", eligible |-> TRUE, bundled |-> TRUE, wellFormed |-> TRUE,
   artifacts |-> artifacts, packs |-> packs]

MCManifest ==
  MCManifestOf(<<MCCudart, MCWorker>>, <<MCPack("granite", "r1", "cpu", TRUE)>>)

MCDevices == << [readable |-> TRUE, capability |-> 75, free |-> 9],
                [readable |-> FALSE, capability |-> 0, free |-> 0],
                [readable |-> TRUE, capability |-> 86, free |-> 4] >>

MCEntries == << [path |-> "app", bytes |-> "b1"], [path |-> "proof/worker", bytes |-> "b2"] >>

MCExecutable == append_archive(<<Field("code", "setup")>>, MCEntries)

-----------------------------------------------------------------------------
SomePacks == { MCPack(id, revision, provider, eligible) :
                 id \in {"granite", "other"}, revision \in {"r1", "r2"},
                 provider \in {"cpu"}, eligible \in BOOLEAN }

Catalogs == { MCManifestOf(<<MCWorker, MCCudart>>, packs) :
                packs \in UNION {[1..n -> SomePacks] : n \in 0..3} }

EngineCatalogs ==
  { MCManifestOf(<<>>, packs) :
      packs \in UNION {[1..n -> { MCPack("granite", revision, provider, eligible) :
                                    revision \in {"r1", "r2"}, provider \in {"cpu", "cuda"},
                                    eligible \in BOOLEAN }] : n \in 0..3} }

Context == [application |-> 1, worker |-> 1, platform |-> "windows",
            architecture |-> "x86_64", provider |-> "cpu"]

\* The pack a role gets does not depend on the order the catalog lists packs
\* in: two admitted packs are refused as ambiguous, never settled by position.
SelectionIgnoresOrder ==
  \A m \in Catalogs :
    select_sole_install_eligible(m, "final-asr", "cpu")
      = select_sole_install_eligible([m EXCEPT !.packs = Reverse(@)], "final-asr", "cpu")

\* In a catalog that validates, the exact pack a caller names is one pack,
\* although select_exact takes the first that matches.
ExactPackIsUnique ==
  \A m \in Catalogs : validate(m) =>
    \A id \in {"granite", "other"}, revision \in {"r1", "r2"} :
      select_exact(m, id, revision, Context)
        = select_exact([m EXCEPT !.packs = Reverse(@)], id, revision, Context)

\* What the machine has never costs a user the pack that runs without it: if one
\* is chosen where there is no card, one is chosen whatever card and worker there
\* are. What is chosen is on disk and is the only pack its catalog admits there.
CardNeverCostsThePack ==
  \A m \in EngineCatalogs, present \in SUBSET ({"granite"} \X {"r1", "r2"}),
     devices \in {<<>>, nvml_snapshot(MCDevices)}, worker \in BOOLEAN :
    LET without == admitted_granite_pack(m, <<>>, Floor, FALSE, present)
        with    == admitted_granite_pack(m, devices, Floor, worker, present)
    IN  /\ without # {} => with # {}
        /\ \A used \in with :
             /\ <<used.pack.id, used.pack.revision>> \in present
             /\ \A i \in DOMAIN m.packs :
                  Fills(m.packs[i], used.pack.role, used.pack.runtime.provider)
                    => m.packs[i] = used.pack

\* Placing every source a graphics-card installation fetches is placing all its
\* inspection asks for, whichever of the artifacts a catalog publishes; and
\* where a card cannot be installed nothing is fetched.
PlacedPayloadIsAccepted ==
  \A artifacts \in UNION {[1..n -> {MCWorker, MCCudart, MCCublas}] : n \in 0..3} :
    LET m == MCManifestOf(artifacts, <<>>)
        sources == graphics_card_payload_sources(m)
    IN  IF gpu_configuration_is_installable(m)
        THEN inspect_gpu_payload(m, Names(sources), Worker) = "ok"
        ELSE sources = <<>>

Altered(file) ==
  {SubSeq(file, 1, n) : n \in 0..Len(file)}
    \cup { [file EXCEPT ![i] = [@ EXCEPT !.value = "other"]] :
             i \in {j \in DOMAIN file : file[j].tag \in {"bytes", "digest"}} }

\* A setup file that was cut short, or whose payload bytes changed, yields the
\* entries that were packed or none at all: never some of them, never others.
PayloadReadsBackWhole ==
  /\ read_archive(MCExecutable).entries = MCEntries
  /\ \A file \in Altered(MCExecutable) :
       read_archive(file).entries \in {MCEntries, <<>>}

\* The data setup and the application decide by: which pack and which payload is
\* chosen does not depend on the order they are listed in, a graphics card never
\* costs the pack that runs without one, the worker accepts what setup places, and
\* the payload appended to the program reads back whole or not at all. Every
\* variable of setup keeps its type.
SetupDataIsSound ==
  /\ TypeOK
  /\ SelectionIgnoresOrder
  /\ ExactPackIsUnique
  /\ CardNeverCostsThePack
  /\ PlacedPayloadIsAccepted
  /\ PayloadReadsBackWhole
=============================================================================
