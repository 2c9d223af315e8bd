---------------------------- MODULE ModelCatalog ----------------------------
(***************************************************************************)
(* The bundled model catalog of crates/speakeasy-models: what makes a      *)
(* manifest valid (manifest.rs), which pack a caller gets from it          *)
(* (selection.rs, compatibility.rs), what a graphics-card installation     *)
(* consists of (granite_gpu.rs), which card is good enough (gpu.rs) and    *)
(* which pack the application then runs on (granite_engine.rs).            *)
(*                                                                         *)
(* Pure operators.  The syntax of one field (an identifier, a digest, a    *)
(* URL, a timestamp, a locale) is the Boolean wellFormed of its record;    *)
(* the rules that relate fields and entries are kept.                      *)
(*   manifest : [status, eligible, bundled, wellFormed, artifacts, packs]  *)
(*   artifact : [id, kind, wellFormed, release, files, extracted]          *)
(*   pack     : [id, revision, role, streaming, eligible, wellFormed,      *)
(*               archive, files, installed, runtime, memory, capabilities, *)
(*               licenses, application, worker]                            *)
(*   file     : [name, key, bytes, url]                                    *)
(*   locale   : [name, key], the key with its case folded                  *)
(* What may be left out is a sequence of none or one.                      *)
(***************************************************************************)
EXTENDS Naturals, Sequences, FiniteSets, SequencesExt, FiniteSetsExt

CONSTANTS GraniteWorkerId, \* GRANITE_CUDA_WORKER_ARTIFACT_ID
          RuntimeIds,      \* CUDA_RUNTIME_ARTIFACT_IDS
          MaxFiles         \* MAX_FILES_PER_ENTRY

None == "none"

TotalBytes(files) ==
  MapThenSumSet(LAMBDA i : files[i].bytes, DOMAIN files)

\* Two files may not land on one Windows path: the key is the path with its
\* separators unified and its case folded.
check_files(files, installed) ==
  /\ Len(files) \in 1..MaxFiles
  /\ \A i \in DOMAIN files : files[i].bytes > 0
  /\ IsInjective([i \in DOMAIN files |-> files[i].key])
  /\ TotalBytes(files) <= installed

ArtifactIsValid(artifact) ==
  /\ artifact.wellFormed
  /\ artifact.kind # "vad" => check_files(artifact.files, artifact.extracted)
  /\ CASE artifact.kind = "runtime" -> TRUE
       [] artifact.kind = "asr" ->
            artifact.release \in {"not-selected", "selected-not-release-qualified"}
       [] artifact.kind = "vad" -> artifact.release = "not-selected"

\* A range is a minimum and an optional maximum (0 stands for none).
RangeIsValid(range) == range.max # 0 => range.min <= range.max

\* What a pack was measured to take: working set always, graphics memory where
\* both of its ends are given.
MemoryIsValid(evidence) ==
  LET Ordered(min, max) == min > 0 /\ min <= max
  IN  /\ Ordered(evidence.min, evidence.max)
      /\ Len(evidence.vramMin) = Len(evidence.vramMax)
      /\ evidence.vramMin # <<>> => Ordered(evidence.vramMin[1], evidence.vramMax[1])

\* A translation goes to another locale, whatever its spelling; nothing else
\* names one.
CapabilityIsValid(capability) ==
  /\ IF capability.task = "translate"
     THEN capability.target # <<>> /\ capability.target[1].key # capability.locale.key
     ELSE capability.target = <<>>
  /\ IsInjective(capability.features)

\* Here two spellings of one locale are two capabilities.
validate_capabilities(pack) ==
  /\ pack.capabilities # <<>>
  /\ \A i \in DOMAIN pack.capabilities : CapabilityIsValid(pack.capabilities[i])
  /\ IsInjective([i \in DOMAIN pack.capabilities |->
                    LET c == pack.capabilities[i] IN <<c.locale, c.task, c.target>>])

validate_licenses(pack) ==
  /\ pack.licenses # <<>>
  /\ IsInjective([i \in DOMAIN pack.licenses |-> pack.licenses[i].component])

PackIsValid(pack) ==
  /\ pack.wellFormed
  /\ pack.role = "streaming-asr" => pack.streaming = "true-online"
  /\ pack.role = "vad" => pack.streaming = "not-applicable"
  /\ check_files(pack.files, pack.installed)
  /\ \A i \in DOMAIN pack.memory : MemoryIsValid(pack.memory[i])
  /\ validate_capabilities(pack)
  /\ validate_licenses(pack)
  /\ RangeIsValid(pack.application)
  /\ RangeIsValid(pack.worker)

validate(m) ==
  /\ m.wellFormed
  /\ ~(m.status = "phase-0b-proof-only" /\ m.eligible)
  /\ \A i \in DOMAIN m.artifacts : ArtifactIsValid(m.artifacts[i])
  /\ IsInjective([i \in DOMAIN m.artifacts |-> m.artifacts[i].id])
  /\ \A i \in DOMAIN m.packs : PackIsValid(m.packs[i])
  /\ IsInjective([i \in DOMAIN m.packs |-> <<m.packs[i].id, m.packs[i].revision>>])

is_downloadable(pack) ==
  \/ pack.archive = "downloadable"
  \/ /\ pack.archive = None
     /\ pack.files # <<>>
     /\ \A i \in DOMAIN pack.files : pack.files[i].url

-----------------------------------------------------------------------------
(***************************************************************************)
(* Which pack.                                                             *)
(***************************************************************************)
Fills(pack, role, provider) ==
  pack.role = role /\ pack.runtime.provider = provider /\ pack.eligible

select_sole_install_eligible(m, role, provider) ==
  LET filling == SelectSeq(m.packs, LAMBDA p : Fills(p, role, provider))
  IN  CASE filling = <<>>     -> "none_admitted"
        [] Len(filling) = 1   -> filling[1].id
        [] OTHER              -> "ambiguous"

Outside(version, range) ==
  version < range.min \/ (range.max # 0 /\ version > range.max)

resolve_pack(pack, context) ==
  { issue \in {"application", "worker", "platform", "architecture", "provider"} :
      CASE issue = "application" -> Outside(context.application, pack.application)
        [] issue = "worker"      -> Outside(context.worker, pack.worker)
        [] OTHER                 -> context[issue] # pack.runtime[issue] }

select_exact(m, id, revision, context) ==
  LET matching == SelectSeq(m.packs, LAMBDA p : p.id = id /\ p.revision = revision)
      pack     == matching[1]
  IN  CASE ~m.bundled           -> <<"caller_supplied_manifest">>
        [] ~m.eligible          -> <<"manifest_not_install_eligible">>
        [] matching = <<>>      -> <<"pack_not_found">>
        [] ~pack.eligible       -> <<"pack_not_install_eligible">>
        [] \E i \in DOMAIN pack.licenses : pack.licenses[i].redistribution # "allowed"
                                -> <<"redistribution_not_allowed">>
        [] resolve_pack(pack, context) # {} -> <<"incompatible">>
        [] OTHER                -> <<"selected", pack>>

-----------------------------------------------------------------------------
(***************************************************************************)
(* What a graphics-card installation consists of.                          *)
(***************************************************************************)
\* The entries of a list that are in a set, in the order of the list.
Listed(list, set) ==
  LET upTo[n \in 0..Len(list)] ==
        IF n = 0 THEN <<>>
        ELSE IF list[n] \in set THEN Append(upTo[n - 1], list[n]) ELSE upTo[n - 1]
  IN  upTo[Len(list)]

native_runtimes(m) == {a \in Range(m.artifacts) : a.kind = "runtime"}

Names(artifacts) ==
  UNION {{artifacts[i].files[j].name : j \in DOMAIN artifacts[i].files}
           : i \in DOMAIN artifacts}

CudaRuntimes(m) == Listed(m.artifacts, {a \in native_runtimes(m) : a.id \in RuntimeIds})

CudaWorkers(m) == Listed(m.artifacts, {a \in native_runtimes(m) : a.id = GraniteWorkerId})

required_cuda_runtime_files(m) == Names(CudaRuntimes(m))

gpu_configuration_is_installable(m) ==
  /\ \E a \in native_runtimes(m) : a.id = GraniteWorkerId
  /\ required_cuda_runtime_files(m) # {}

graphics_card_payload_sources(m) ==
  IF gpu_configuration_is_installable(m)
  THEN CudaWorkers(m) \o CudaRuntimes(m)
  ELSE <<>>

inspect_gpu_payload(m, directory, worker) ==
  CASE ~gpu_configuration_is_installable(m)     -> "gpu_worker_not_published"
    [] worker \notin directory                  -> "gpu_worker_not_installed"
    [] ~(required_cuda_runtime_files(m) \subseteq directory)
                                                -> "gpu_runtime_files_missing"
    [] OTHER                                    -> "ok"

\* What NVML says of one process: it is on a device, it is not, or no answer.
prove_cuda_context(pids, pid) ==
  IF pids = None THEN "unprovable" ELSE IF pid \in pids THEN "held" ELSE "absent"

proven(payload, handshake, context) ==
  IF payload = "ok" /\ handshake = "cuda" /\ context = "held" THEN "cuda" ELSE "cpu"

-----------------------------------------------------------------------------
(***************************************************************************)
(* Which card.  A device is [readable, capability, free]; one NVML cannot  *)
(* describe is passed over, and max_by_key answers the last of equals.     *)
(***************************************************************************)
nvml_snapshot(answers) == SelectSeq(answers, LAMBDA d : d.readable)

BestDevice(devices) ==
  devices[Max({i \in DOMAIN devices :
                 \A j \in DOMAIN devices : devices[j].capability <= devices[i].capability})]

admit(devices, floor) ==
  devices # <<>> /\ BestDevice(devices).capability >= floor

admit_engine(devices, floor, weights) ==
  admit(devices, floor) /\ BestDevice(devices).free >= weights

preferred_provider(devices, floor, weights) ==
  IF admit_engine(devices, floor, weights) THEN "cuda" ELSE "cpu"

-----------------------------------------------------------------------------
(***************************************************************************)
(* Which pack a dictation runs on.  What the application chooses is a set  *)
(* of at most one choice; present is the set of packs all of whose files   *)
(* are on disk, worker whether the running worker is built for the card.   *)
(***************************************************************************)
\* capabilities_for: the providers this project publishes a Granite pack for.
Published == {"cpu"}

installed(m, provider, present) ==
  LET filling == SelectSeq(m.packs, LAMBDA p : Fills(p, "final-asr", provider))
  IN  { pack \in Range(filling) :
          /\ provider \in Published
          /\ Len(filling) = 1
          /\ <<pack.id, pack.revision>> \in present }

choose_granite_pack(m, preferred, worker, present) ==
  LET On(provider, reason) ==
        { [pack |-> pack, reason |-> reason] : pack \in installed(m, provider, present) }
  IN  IF preferred = "cuda" /\ ~worker THEN On("cpu", "cpu_gpu_runtime_missing")
      ELSE IF installed(m, preferred, present) # {} THEN On(preferred, "probe_preferred")
      ELSE IF preferred = "cuda" THEN On("cpu", "cpu_gpu_pack_not_installed")
      ELSE {}

\* The free memory of the card is not asked for here.
admitted_granite_pack(m, devices, floor, worker, present) ==
  choose_granite_pack(m, IF admit(devices, floor) THEN "cuda" ELSE "cpu", worker, present)
=============================================================================
