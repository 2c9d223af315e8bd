--------------------------- MODULE DeliveryPolicy ---------------------------
(* What delivery decides from a snapshot of the target alone: the guard, the  *)
(* capability an inspection gives the target, the strategy, and the checks    *)
(* before a commit.  A check answers "ok" or the first refusal that applies;  *)
(* an absent value is "none".                                                 *)
EXTENDS Naturals, Sequences

FirstRefusal(checks) ==
    LET failed == {i \in DOMAIN checks : ~checks[i][1]}
    IN  IF failed = {} THEN "ok"
        ELSE checks[CHOOSE i \in failed : \A j \in failed : i <= j][2]

(* The foreground is still the window of the snapshot. *)
validate_foreground_identity(snapshot, identity) ==
    FirstRefusal(<< <<identity.foreground, "FocusChanged">>,
                    <<identity.handle = snapshot.handle, "FocusChanged">>,
                    <<identity.process = snapshot.process, "ProcessChanged">>,
                    <<identity.start = snapshot.start, "WindowReused">> >>)

(* The identity, and all the evidence an observation has beside it. *)
validate_target(snapshot, o) ==
    LET identity == validate_foreground_identity(snapshot, o)
    IN  IF identity # "ok" THEN identity
        ELSE FirstRefusal(<< <<o.element_matches, "ElementChanged">>,
                             <<o.selection_matches, "SelectionChanged">>,
                             <<o.content_matches, "ContentChanged">>,
                             <<o.integrity_matches, "IntegrityChanged">>,
                             <<o.keyboard_matches, "ContentChanged">>,
                             <<~o.user_input_seen, "UserInput">>,
                             <<o.hook_healthy, "HookUnavailable">>,
                             <<o.own_input_distinguished, "HookUnavailable">>,
                             <<snapshot.hook_epoch # "none", "HookUnavailable">>,
                             <<o.hook_epoch # "none", "HookUnavailable">>,
                             <<o.hook_epoch = snapshot.hook_epoch, "UserInput">>,
                             <<o.modifiers_released, "ModifierHeld">> >>)

(* Targets that must get neither input nor the clipboard. *)
classify_guard(snapshot) ==
    FirstRefusal(<< <<snapshot.is_secure_desktop # "none", "Unsupported">>,
                    <<snapshot.is_secure_desktop = "no", "SecureDesktop">>,
                    <<~snapshot.is_password, "Password">>,
                    <<~snapshot.is_read_only, "ReadOnly">>,
                    <<snapshot.integrity \in {"equal", "lower"}, "ElevatedTarget">>,
                    <<snapshot.target_kind # "unknown_sensitive", "UnknownSensitive">> >>)

classify_capability(s) ==
    IF classify_guard(s) # "ok" THEN "ResultViewOnly"
    ELSE IF /\ s.target_kind # "terminal" /\ s.text /\ s.selection = "complete"
            /\ "none" \notin {s.content_fingerprint, s.input_epoch, s.hook_epoch,
                              s.layout, s.ime_open}
            /\ s.ime_composing = "no"
         THEN "CommitOnFinish" ELSE "ClipboardOnly"

select_strategy(snapshot, settings) ==
    LET copy == IF settings.auto_copy THEN "Clipboard" ELSE "ResultView"
    IN  IF classify_guard(snapshot) # "ok" THEN classify_guard(snapshot)
        ELSE IF snapshot.target_kind = "terminal" THEN copy
        ELSE CASE snapshot.capability = "ResultViewOnly" -> "ResultView"
               [] snapshot.capability = "ClipboardOnly" -> copy
               [] snapshot.capability = "CommitOnFinish" ->
                     IF settings.auto_paste THEN "ClipboardPaste" ELSE copy
               [] OTHER -> "Unsupported"

(* What the policy actor answers: a refusal, or the strategy of a plan. *)
run_actor(snapshot, observation, settings) ==
    IF validate_target(snapshot, observation) # "ok" THEN validate_target(snapshot, observation)
    ELSE select_strategy(snapshot, settings)

(* Before the commit of a plan.  The plan was made for this snapshot. *)
validate_commit_preflight(s, observation, strategy) ==
    IF strategy # "ClipboardPaste" \/ s.capability # "CommitOnFinish" THEN "Unsupported"
    ELSE IF validate_target(s, observation) # "ok" THEN validate_target(s, observation)
    ELSE IF classify_guard(s) # "ok" THEN classify_guard(s)
    ELSE FirstRefusal(<< <<s.layout # "none", "Unsupported">>,
                         <<s.ime_open # "none", "Unsupported">>,
                         <<s.ime_composing = "no", "Unsupported">>,
                         <<s.selection = "complete", "Unsupported">>,
                         <<s.content_fingerprint # "none", "Unsupported">>,
                         <<s.input_epoch # "none", "HookUnavailable">>,
                         <<s.hook_epoch # "none", "HookUnavailable">> >>)

(* Mutant: an unwritable target is told before a sensitive one, whose refusal *)
(* is then the code of an unsupported target.                                 *)
PreflightByCapability(snapshot) ==
    IF snapshot.capability \in {"ResultViewOnly", "AppendOnlyLive"} THEN "Unsupported"
    ELSE classify_guard(snapshot)

(* Before a commit into whatever is focused now. *)
validate_focused_preflight(snapshot) ==
    IF classify_guard(snapshot) # "ok" THEN classify_guard(snapshot)
    ELSE IF snapshot.capability \in {"ResultViewOnly", "AppendOnlyLive"} THEN "Unsupported"
    ELSE "ok"

-----------------------------------------------------------------------------
(* Every snapshot an inspection can make, and the observation of a target in  *)
(* which nothing has changed.                                                 *)
Optional == {"none", "some"}
Inspected ==
    {[s EXCEPT !.capability = classify_capability(s)] :
        s \in [handle : {1}, process : {1}, start : {1}, is_secure_desktop : {"no", "yes"},
               is_password : BOOLEAN, is_read_only : BOOLEAN,
               integrity : {"equal", "higher", "unknown"},
               target_kind : {"standard", "terminal"}, text : BOOLEAN,
               selection : {"none", "partial", "complete"}, content_fingerprint : Optional,
               input_epoch : Optional, hook_epoch : Optional, layout : Optional,
               ime_open : Optional, ime_composing : {"none", "no", "yes"},
               capability : {"ResultViewOnly"}]}

Unchanged(snapshot, released) ==
    [foreground |-> TRUE, handle |-> snapshot.handle, process |-> snapshot.process,
     start |-> snapshot.start, element_matches |-> TRUE, selection_matches |-> TRUE,
     content_matches |-> TRUE, integrity_matches |-> TRUE, keyboard_matches |-> TRUE,
     user_input_seen |-> FALSE, hook_healthy |-> snapshot.hook_epoch # "none",
     own_input_distinguished |-> TRUE, hook_epoch |-> snapshot.hook_epoch,
     modifiers_released |-> released]

(* The inspection, the policy and the writer each hold their own list of what *)
(* a paste needs.  They agree: a plan to paste that was made of an inspected  *)
(* target is one the writer accepts, and the focused path accepts it too.     *)
PlansAreAccepted ==
    \A s \in Inspected, auto_copy \in BOOLEAN :
        LET o == Unchanged(s, TRUE)
            strategy == run_actor(s, o, [auto_copy |-> auto_copy, auto_paste |-> TRUE])
        IN  strategy = "ClipboardPaste" =>
                /\ validate_commit_preflight(s, o, strategy) = "ok"
                /\ validate_focused_preflight(s) = "ok"
=============================================================================
