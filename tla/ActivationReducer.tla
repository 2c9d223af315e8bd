------------------------- MODULE ActivationReducer -------------------------
(***************************************************************************)
(* The pure activation reducer of crates/speakeasy-domain/src/activation.rs.*)
(* It decides, for a press, a release or an endpoint, whether a dictation  *)
(* starts, stops, or the input is ignored.  A reducer value is a record:   *)
(* the session it believes is live (NoSession for none), the mode that     *)
(* session was started in, and whether the push-to-talk key is down.       *)
(*                                                                         *)
(* Sessions are positive numbers; NoSession stands for Option::None.       *)
(***************************************************************************)
EXTENDS Naturals

NoSession == 0

ActivationModes == {"toggle", "push_to_talk", "hands_free"}

ActivationInputs == {"toggle_pressed", "push_to_talk_pressed",
                     "push_to_talk_released", "hands_free_pressed",
                     "vad_endpoint", "manual_stop", "cancel"}

ActivationEffects == {"start", "stop", "ignored", "stale", "already_active"}

(* ActivationReducer::default() *)
DefaultReducer == [session |-> NoSession, mode |-> "toggle", held |-> FALSE]

ReducerType(Ids) ==
  [session : Ids \cup {NoSession}, mode : ActivationModes, held : BOOLEAN]

Decision(reducer, effect) == [reducer |-> reducer, effect |-> effect]

(* fn start *)
StartActivation(r, s, mode) ==
  IF r.session # NoSession
  THEN Decision(r, "already_active")
  ELSE Decision([session |-> s, mode |-> mode, held |-> mode = "push_to_talk"],
                "start")

(* fn stop *)
StopActivation(r, s) ==
  CASE r.session = NoSession -> Decision(r, "ignored")
    [] r.session # NoSession /\ r.session # s -> Decision(r, "stale")
    [] r.session # NoSession /\ r.session = s ->
         Decision(DefaultReducer, "stop")

(* fn start_or_toggle_stop *)
StartOrToggleStop(r, s) ==
  IF r.session = s /\ r.mode = "toggle"
  THEN StopActivation(r, s)
  ELSE StartActivation(r, s, "toggle")

(* fn ptt_down: a held key repeats its press, which is ignored *)
PttDown(r, s) ==
  IF r.session = s /\ r.mode = "push_to_talk" /\ r.held
  THEN Decision(r, "ignored")
  ELSE StartActivation(r, s, "push_to_talk")

(* fn ptt_up *)
PttUp(r, s) ==
  IF r.session = s /\ ~(r.mode = "push_to_talk" /\ r.held)
  THEN Decision(r, "ignored")
  ELSE StopActivation(r, s)

(* fn vad_endpoint *)
VadEndpoint(r, s) ==
  IF r.session = s /\ r.mode # "hands_free"
  THEN Decision(r, "ignored")
  ELSE StopActivation(r, s)

(* fn apply *)
ApplyActivation(r, input, s) ==
  CASE input = "toggle_pressed"        -> StartOrToggleStop(r, s)
    [] input = "push_to_talk_pressed"  -> PttDown(r, s)
    [] input = "push_to_talk_released" -> PttUp(r, s)
    [] input = "hands_free_pressed"    -> StartActivation(r, s, "hands_free")
    [] input = "vad_endpoint"          -> VadEndpoint(r, s)
    [] input = "manual_stop"           -> StopActivation(r, s)
    [] input = "cancel"                -> StopActivation(r, s)
=============================================================================
