------------------------------ MODULE Delivery ------------------------------
(* The delivery of finished dictations: the finalization thread asks the UI   *)
(* Automation worker what has the focus, asks the commit worker to paste into *)
(* it, and falls back to the clipboard.  Each worker answers a request on a   *)
(* channel of its own; a caller whose deadline passes stops listening and the *)
(* request stays where it is.  The user moves the focus at any time.          *)
EXTENDS DeliveryPolicy, FiniteSets

CONSTANTS Dictations,     \* how many dictations are finished
          Moves,          \* how often the user or another program interferes
          InspectQueue, CommitQueue, ClipboardQueue,
          WriterSpawned   \* the commit worker has a clipboard writer

ASSUME DeliveryAssumption ==
    /\ Dictations \in Nat \ {0} /\ Moves \in Nat
    /\ {InspectQueue, CommitQueue, ClipboardQueue} \subseteq Nat \ {0}
    /\ WriterSpawned \in BOOLEAN

VARIABLES
    focus, secure, held, moves,   \* the desktop: focused place, secure desktop, modifier keys
    clipboard,                    \* whose text it holds, and who set it
    job, pc, seen, reply, refusal, target,   \* the finalization thread
    inspects, inspector,          \* the UI Automation worker: queue, window read so far
    commits, committer, expired,  \* the commit worker; commits past their deadline
    copies, placed,               \* the clipboard writers: queues, whether the head's text is set
    outcome, stored,              \* what the HUD was told; rows of the history
    pastes, written,              \* ghosts: the pastes sent, the texts the app's writer set
    judged                        \* ghost: the guard has judged the target while the caller waits

desktop == <<focus, secure, held, moves>>
caller == <<job, pc, seen, reply, refusal, target>>
inspection == <<inspects, inspector>>
committing == <<commits, committer, expired, judged>>
clipboards == <<clipboard, copies, placed, written>>
record == <<outcome, stored>>
vars == <<desktop, caller, inspection, committing, clipboards, record, pastes>>

Window(h, p, s, i, o) ==
    [handle |-> h, process |-> p, start |-> s, integrity |-> i, accessible |-> o]
Editor == Window(1, 1, 1, "equal", TRUE)
Reused == Window(1, 1, 2, "equal", TRUE)      \* a later process with the editor's identifiers
Elevated == Window(2, 2, 1, "higher", TRUE)
Isolated == Window(3, 3, 1, "equal", FALSE)   \* its process cannot be opened
Windows == {Editor, Reused, Elevated, Isolated}
Places == {[window |-> Editor, field |-> f] : f \in {"plain", "password"}}
          \cup {[window |-> Elevated, field |-> f] : f \in {"plain", "read_only"}}
          \cup {[window |-> w, field |-> "plain"] : w \in {Reused, Isolated}}
Writers == {"app", "commit"}
Unseen == [window |-> Isolated, field |-> "plain", secure |-> FALSE]
Idle == [step |-> "idle", d |-> 0, seen |-> Unseen, moved |-> FALSE, receipt |-> "none"]

Init ==
    /\ focus = [window |-> Editor, field |-> "plain"] /\ secure = FALSE /\ held \in BOOLEAN
    /\ moves = Moves /\ clipboard = [d |-> 0, by |-> "before"]
    /\ job = 0 /\ pc = "idle" /\ seen = Unseen /\ reply = "none"
    /\ refusal = "none" /\ target = "none"
    /\ inspects = <<>> /\ inspector = [d |-> 0, window |-> Editor]
    /\ commits = <<>> /\ committer = Idle /\ expired = {}
    /\ copies = [w \in Writers |-> <<>>] /\ placed = [w \in Writers |-> FALSE]
    /\ outcome = [d \in 1..Dictations |-> "none"] /\ stored = {}
    /\ pastes = {} /\ written = {} /\ judged = FALSE

(* The snapshot of a place.  The keyboard of a target is never observed.      *)
snapshot_of(s) ==
    LET base == [handle |-> s.window.handle, process |-> s.window.process,
                 start |-> s.window.start, integrity |-> s.window.integrity,
                 is_secure_desktop |-> IF s.secure THEN "yes" ELSE "no",
                 is_password |-> s.field = "password", is_read_only |-> s.field = "read_only",
                 target_kind |-> "standard", text |-> TRUE, selection |-> "complete",
                 content_fingerprint |-> "some", input_epoch |-> "some",
                 hook_epoch |-> "some", layout |-> "none", ime_open |-> "none",
                 ime_composing |-> "none", capability |-> "ResultViewOnly"]
    IN  [base EXCEPT !.capability = classify_capability(base)]

-----------------------------------------------------------------------------
(* The user and other programs.  A process identifier is not given to another *)
(* process while the inspection holds the process open.                       *)
Interfere == moves > 0 /\ moves' = moves - 1

MoveFocus ==
    /\ Interfere
    /\ \E p \in Places \ {focus} :
          /\ inspector.d = 0 \/ Reused \notin {p.window, focus.window}
          /\ focus' = p
    /\ committer' = [committer EXCEPT !.moved = TRUE]
    /\ UNCHANGED <<secure, held, caller, inspection, commits, expired, judged, clipboards, record,
                   pastes>>

SecureDesktop ==
    /\ Interfere /\ secure' = ~secure
    /\ UNCHANGED <<focus, held, caller, inspection, committing, clipboards, record, pastes>>

ReleaseModifiers ==
    /\ held /\ held' = FALSE
    /\ UNCHANGED <<focus, secure, moves, caller, inspection, committing, clipboards, record, pastes>>

OtherProgramCopies ==
    /\ Interfere /\ clipboard' = [d |-> 0, by |-> "other"] /\ clipboard' # clipboard
    /\ UNCHANGED <<focus, secure, held, caller, inspection, committing, copies, placed, written,
                   record, pastes>>

(* A copy button: the latest transcript through the application's writer.     *)
UserCopies ==
    /\ Interfere /\ job > 0 /\ Len(copies["app"]) < ClipboardQueue
    /\ copies' = [copies EXCEPT !["app"] = Append(@, [d |-> job, by |-> "user"])]
    /\ UNCHANGED <<focus, secure, held, caller, inspection, committing, clipboard, placed, written,
                   record, pastes>>

-----------------------------------------------------------------------------
(* The finalization thread. *)
refusal_is_sensitive(r) == r \in {"Password", "SecureDesktop", "ElevatedTarget", "UnknownSensitive"}

classify_committed_refusal(r) ==
    IF refusal_is_sensitive(r) THEN "Sensitive"
    ELSE IF r = "Unsupported" THEN "Unknown" ELSE "Cleared"

(* The next job's pass is over; its text is empty, or auto-paste is off, or   *)
(* there is a target to look at.                                              *)
Transcribed ==
    /\ pc = "idle" /\ job < Dictations /\ job' = job + 1
    /\ \/ outcome' = [outcome EXCEPT ![job'] = "held"] /\ pc' = "idle" /\ UNCHANGED target
       \/ outcome' = [outcome EXCEPT ![job'] = "held"] /\ pc' = "persist" /\ target' = "NotAttempted"
       \/ UNCHANGED <<outcome, target>> /\ pc' = "inspect"
    /\ UNCHANGED <<desktop, seen, reply, refusal, inspection, committing, clipboards, stored, pastes>>

AskInspector ==
    /\ pc = "inspect"
    /\ IF Len(inspects) < InspectQueue
       THEN /\ inspects' = Append(inspects, job) /\ pc' = "inspecting"
            /\ UNCHANGED <<refusal, target>>
       ELSE /\ refusal' = "Unsupported" /\ target' = "Unknown" /\ pc' = "fallback"
            /\ UNCHANGED inspects
    /\ UNCHANGED <<desktop, job, seen, reply, inspector, committing, clipboards, record, pastes>>

InspectorRefused(r) ==
    /\ refusal' = r /\ pc' = "fallback" /\ reply' = "none"
    /\ target' = IF refusal_is_sensitive(r) THEN "Sensitive" ELSE "Unknown"
    /\ UNCHANGED <<desktop, job, seen, inspection, committing, clipboards, record, pastes>>

InspectAnswered ==
    /\ pc = "inspecting"
    /\ \/ /\ reply = "ok" /\ pc' = "submit" /\ reply' = "none"
          /\ UNCHANGED <<desktop, job, seen, refusal, target, inspection, committing, clipboards,
                         record, pastes>>
       \/ reply \notin {"none", "ok"} /\ InspectorRefused(reply)

(* Mutant: the wait for the inspection has no deadline. *)
InspectWithoutDeadline == FALSE /\ UNCHANGED vars

InspectTimesOut ==
    pc = "inspecting" /\ reply = "none" /\ InspectorRefused("Unsupported")

write_focused ==
    /\ pc = "submit"
    /\ IF Len(commits) < CommitQueue
       THEN /\ commits' = Append(commits, [d |-> job, seen |-> seen]) /\ pc' = "committing"
            /\ UNCHANGED <<refusal, target>>
       ELSE /\ refusal' = "Unsupported" /\ pc' = "fallback" /\ UNCHANGED commits
            /\ target' = classify_committed_refusal("Unsupported")
    /\ UNCHANGED <<desktop, job, seen, reply, inspection, committer, expired, judged, clipboards,
                   record, pastes>>

CommitDeadline ==
    /\ pc = "committing" /\ job \notin expired /\ expired' = expired \cup {job}
    /\ UNCHANGED <<desktop, caller, inspection, commits, committer, judged, clipboards, record,
                   pastes>>

CommitAnswered ==
    /\ pc = "committing" /\ (reply # "none" \/ job \in expired)
    /\ LET r == IF reply = "none" THEN "Unsupported" ELSE reply
       IN  IF r = "ok"
           THEN /\ outcome' = [outcome EXCEPT ![job] = "inserted"]
                /\ target' = "Cleared" /\ pc' = "persist" /\ UNCHANGED refusal
           ELSE /\ refusal' = r /\ target' = classify_committed_refusal(r)
                /\ pc' = "fallback" /\ UNCHANGED outcome
    /\ reply' = "none"
    /\ UNCHANGED <<desktop, job, seen, inspection, committing, clipboards, stored, pastes>>



deliver_via_clipboard_fallback ==
    /\ pc = "fallback"
    /\ IF refusal_is_sensitive(refusal) \/ Len(copies["app"]) = ClipboardQueue
       THEN /\ outcome' = [outcome EXCEPT ![job] = "refused"] /\ pc' = "persist"
            /\ UNCHANGED copies
       ELSE /\ copies' = [copies EXCEPT !["app"] = Append(@, [d |-> job, by |-> "fallback"])]
            /\ pc' = "copying" /\ UNCHANGED outcome
    /\ refusal' = "none"
    /\ UNCHANGED <<desktop, job, seen, reply, target, inspection, committing, clipboard, placed,
                   written, stored, pastes>>

(* An answer, or the wait of three seconds is over. *)
CopyAnswered ==
    /\ pc = "copying"
    /\ outcome' = [outcome EXCEPT ![job] = IF reply = "ok" THEN "copied" ELSE "refused"]
    /\ pc' = "persist" /\ reply' = "none"
    /\ UNCHANGED <<desktop, job, seen, refusal, target, inspection, committing, clipboards, stored,
                   pastes>>

permits_history(t) == t \in {"NotAttempted", "Cleared"}

persist_delivered_history ==
    /\ pc = "persist" /\ pc' = "idle" /\ seen' = Unseen /\ target' = "none" /\ judged' = FALSE
    /\ stored' = stored \cup (IF permits_history(target)
                              THEN {[d |-> job, target |-> target, seen |-> seen]} ELSE {})
    /\ UNCHANGED <<desktop, job, reply, refusal, inspection, commits, committer, expired,
                   clipboards, outcome, pastes>>

-----------------------------------------------------------------------------
(* The UI Automation worker.  It reads the foreground window, and after that  *)
(* the element that has the focus by then.                                    *)
(* Mutant: an answer reaches whoever waits for one. *)
HearsAny(d, waiting) == pc = waiting

Hears(d, waiting) == pc = waiting /\ job = d

AnswerInspect(d, r, s) ==
    IF Hears(d, "inspecting") THEN reply' = r /\ seen' = s ELSE UNCHANGED <<reply, seen>>

inspect_current ==
    /\ inspector.d = 0 /\ inspects # <<>> /\ inspects' = Tail(inspects)
    /\ \/ /\ focus.window.accessible
          /\ inspector' = [d |-> Head(inspects), window |-> focus.window]
          /\ UNCHANGED <<reply, seen>>
       \/ /\ ~focus.window.accessible /\ AnswerInspect(Head(inspects), "TargetInaccessible", Unseen)
          /\ UNCHANGED inspector
    /\ UNCHANGED <<desktop, job, pc, refusal, target, committing, clipboards, record, pastes>>

inspect_element ==
    /\ inspector.d # 0
    /\ \/ AnswerInspect(inspector.d, "Unsupported", Unseen)
       \/ /\ focus.window.process # inspector.window.process
          /\ AnswerInspect(inspector.d, "ElementChanged", Unseen)
       \/ /\ focus.window.process = inspector.window.process
          /\ AnswerInspect(inspector.d, "ok", [window |-> inspector.window, field |-> focus.field,
                                               secure |-> secure])
    /\ inspector' = [d |-> 0, window |-> Editor]
    /\ UNCHANGED <<desktop, job, pc, refusal, target, inspects, committing, clipboards, record,
                   pastes>>

-----------------------------------------------------------------------------
(* The commit worker.  It checks the snapshot and the window in front before  *)
(* and after it waits for the modifier keys and again after its writer has    *)
(* set the text, and then types the paste shortcut.                           *)
Identified ==
    IF ~focus.window.accessible THEN "TargetInaccessible"
    ELSE validate_foreground_identity(snapshot_of(committer.seen),
            [foreground |-> TRUE, handle |-> focus.window.handle,
             process |-> focus.window.process, start |-> focus.window.start])

AnswerCommit(d, r) == IF Hears(d, "committing") THEN reply' = r ELSE UNCHANGED reply

CommitRefused(r) ==
    /\ AnswerCommit(committer.d, r) /\ committer' = Idle
    /\ UNCHANGED <<copies, pastes>>

CommitUnchanged ==
    UNCHANGED <<desktop, job, pc, seen, refusal, target, inspection, expired, clipboard, placed,
                written, record>>

TakeCommit ==
    /\ committer.step = "idle" /\ commits # <<>> /\ commits' = Tail(commits)
    /\ LET c == Head(commits)
       IN  IF WriterSpawned
           THEN /\ committer' = [Idle EXCEPT !.step = "preflight", !.d = c.d, !.seen = c.seen]
                /\ UNCHANGED reply
           ELSE AnswerCommit(c.d, "Unsupported") /\ UNCHANGED committer
    /\ UNCHANGED <<copies, pastes, judged>> /\ CommitUnchanged

Preflight ==
    /\ committer.step = "preflight"
    /\ LET guard == validate_focused_preflight(snapshot_of(committer.seen))
           r == IF guard = "ok" THEN Identified ELSE guard
       IN  IF r # "ok" THEN CommitRefused(r)
           ELSE /\ committer' = [committer EXCEPT !.step = "modifiers"]
                /\ UNCHANGED <<reply, copies, pastes>>
    /\ judged' = (judged \/ Hears(committer.d, "committing"))
    /\ UNCHANGED commits /\ CommitUnchanged

wait_for_activation_modifiers ==
    /\ committer.step = "modifiers"
    /\ \/ /\ ~held /\ committer' = [committer EXCEPT !.step = "recheck"]
          /\ UNCHANGED <<reply, copies, pastes>>
       \/ held /\ committer.d \in expired /\ CommitRefused("ModifierHeld")
    /\ UNCHANGED <<commits, judged>> /\ CommitUnchanged

(* The window again, and the request to the clipboard writer.                 *)
Recheck ==
    /\ committer.step = "recheck"
    /\ IF Identified # "ok" THEN CommitRefused(Identified)
       ELSE IF Len(copies["commit"]) = ClipboardQueue THEN CommitRefused("ClipboardBusy")
       ELSE /\ copies' = [copies EXCEPT !["commit"] = Append(@, [d |-> committer.d, by |-> "commit"])]
            /\ committer' = [committer EXCEPT !.step = "writing"]
            /\ UNCHANGED <<reply, pastes>>
    /\ UNCHANGED <<commits, judged>> /\ CommitUnchanged

(* Mutant: the window is not looked at again. *)
SendUnverified ==
    /\ committer.step = "writing" /\ committer.receipt = "ok"
    /\ committer' = [committer EXCEPT !.step = "send", !.moved = FALSE]
    /\ UNCHANGED <<reply, copies, pastes, commits, judged>> /\ CommitUnchanged

(* The writer's answer, or none by the deadline; the window a third time.     *)
Verify ==
    /\ committer.step = "writing" /\ (committer.receipt # "none" \/ committer.d \in expired)
    /\ LET receipt == IF committer.receipt = "none" THEN "Unsupported" ELSE committer.receipt
           r == IF receipt = "ok" THEN Identified ELSE receipt
       IN  IF r # "ok" THEN CommitRefused(r)
           ELSE /\ committer' = [committer EXCEPT !.step = "send", !.moved = FALSE]
                /\ UNCHANGED <<reply, copies, pastes>>
    /\ UNCHANGED <<commits, judged>> /\ CommitUnchanged

(* Four key events, or fewer: the target may have taken them for a paste.     *)
send_paste_shortcut ==
    /\ committer.step = "send"
    /\ \E accepted \in 0..4 :
          /\ AnswerCommit(committer.d, IF accepted = 4 THEN "ok" ELSE "AmbiguousInput")
          /\ pastes' = pastes \cup
                (IF accepted < 2 THEN {}
                 ELSE {[d |-> committer.d, text |-> clipboard, place |-> focus,
                        seen |-> committer.seen, moved |-> committer.moved]})
    /\ committer' = Idle
    /\ UNCHANGED <<commits, copies, judged>> /\ CommitUnchanged

-----------------------------------------------------------------------------
(* A clipboard writer.  It reads the sequence number, sets the text and reads *)
(* the number again; any of the three may find the clipboard busy.            *)
AnswerCopy(w, r) ==
    LET c == Head(copies[w])
    IN  /\ IF w = "app" /\ c.by = "fallback" /\ Hears(c.d, "copying")
           THEN reply' = r ELSE UNCHANGED reply
        /\ IF w = "commit" /\ committer.step = "writing" /\ committer.d = c.d
           THEN committer' = [committer EXCEPT !.receipt = r] ELSE UNCHANGED committer
        /\ copies' = [copies EXCEPT ![w] = Tail(@)]
        /\ placed' = [placed EXCEPT ![w] = FALSE]

SetText(w) ==
    /\ copies[w] # <<>> /\ ~placed[w] /\ placed' = [placed EXCEPT ![w] = TRUE]
    /\ clipboard' = Head(copies[w])
    /\ written' = written \cup ({clipboard'} \ {[d |-> d, by |-> "commit"] : d \in 1..job})
    /\ UNCHANGED <<desktop, caller, inspection, committing, copies, record, pastes>>

write_clipboard(w) ==
    /\ copies[w] # <<>>
    /\ \/ placed[w] /\ AnswerCopy(w, "ok")
       \/ AnswerCopy(w, "ClipboardBusy")
    /\ UNCHANGED <<desktop, job, pc, seen, refusal, target, inspection, commits, expired, judged,
                   clipboard, written, record, pastes>>

-----------------------------------------------------------------------------
Caller ==
    \/ AskInspector \/ InspectAnswered \/ InspectTimesOut \/ write_focused \/ CommitDeadline
    \/ CommitAnswered \/ deliver_via_clipboard_fallback \/ CopyAnswered
    \/ persist_delivered_history

Next ==
    \/ MoveFocus \/ SecureDesktop \/ ReleaseModifiers \/ OtherProgramCopies \/ UserCopies
    \/ Transcribed \/ Caller
    \/ inspect_current \/ inspect_element
    \/ TakeCommit \/ Preflight \/ wait_for_activation_modifiers \/ Recheck \/ Verify
    \/ send_paste_shortcut
    \/ \E w \in Writers : SetText(w) \/ write_clipboard(w)

Spec == Init /\ [][Next]_vars

(* The finalization thread runs and its deadlines pass; a worker may hang.    *)
FairSpec == Spec /\ WF_vars(Caller)

-----------------------------------------------------------------------------
(* Domains and bounds: the queues hold no more than their channels.           *)
TypeOK ==
    /\ focus \in Places /\ moves \in 0..Moves /\ {secure, held} \subseteq BOOLEAN
    /\ pc \in {"idle", "inspect", "inspecting", "submit", "committing", "fallback", "copying",
               "persist"}
    /\ job \in 0..Dictations /\ clipboard.d \in 0..job
    /\ Len(inspects) <= InspectQueue /\ Len(commits) <= CommitQueue
    /\ \A w \in Writers : Len(copies[w]) <= ClipboardQueue /\ (placed[w] => copies[w] # <<>>)
    /\ expired \subseteq 1..job /\ committer.d \in 0..job

(* What the HUD says was done was done by this dictation's own request:       *)
(* inserted after its paste was sent, copied after its text was set.  An      *)
(* answer to an earlier dictation that comes late is not taken for it.        *)
ReportedIsDone ==
    \A d \in 1..Dictations :
        /\ outcome[d] = "inserted" => \E p \in pastes : p.d = d
        /\ outcome[d] = "copied" => [d |-> d, by |-> "fallback"] \in written

(* A paste is sent only for a target the guard passed, and into the process   *)
(* and window that were inspected unless the focus moved after the last look. *)
PasteIsGuarded ==
    \A p \in pastes :
        /\ classify_guard(snapshot_of(p.seen)) = "ok"
        /\ p.moved \/ p.place.window = p.seen.window

(* Once the guard has judged a target sensitive, and the caller was still     *)
(* listening, the dictation's text is not pasted, nor in the clipboard or a   *)
(* queue on its way there unless the user copied it, nor said to be either.   *)
Untouchable(s) ==
    classify_guard(snapshot_of(s)) \in {"Password", "SecureDesktop", "ElevatedTarget",
                                        "UnknownSensitive"}

SensitiveGetsNothing ==
    judged /\ Untouchable(seen) =>
        /\ \A p \in pastes : p.d # job
        /\ [d |-> job, by |-> "fallback"] \notin written
        /\ \A w \in Writers, i \in 1..ClipboardQueue :
              i <= Len(copies[w]) /\ copies[w][i].d = job => copies[w][i].by = "user"
        /\ outcome[job] \notin {"inserted", "copied"}

(* A paste types its own dictation's text, unless a copy button, a fallback   *)
(* or another program set the clipboard between: never what was there before, *)
(* nor what an earlier commit left in the commit worker's own writer.         *)
PasteCarriesTheText ==
    \A p \in pastes : p.text.d = p.d \/ p.text.by \in {"user", "fallback", "other"}

(* A row of the history whose delivery was attempted, however it ended: its   *)
(* target was seen, and was no password field, not the secure desktop and not *)
(* in an elevated window, but for a read-only element of one, which the guard *)
(* refuses as read-only before it looks at the window's integrity.            *)
StoredWasSeen ==
    \A r \in stored :
        r.target = "Cleared" =>
            /\ r.seen # Unseen /\ r.seen.field # "password" /\ ~r.seen.secure
            /\ r.seen.window = Elevated => r.seen.field = "read_only"

(* Delivery ends and the next dictation's turn comes, whatever the workers do. *)
DeliveryEnds == [](pc # "idle" => <>(pc = "idle"))

(* No paste goes where the guard did not look, or brings what is not the      *)
(* dictation's text or what somebody else copied since.                       *)
CommitIsGuarded == PasteIsGuarded /\ PasteCarriesTheText

(* The text of a dictation into a target the guard judges sensitive is not    *)
(* handed to anything, provided the commit worker comes to judge it before    *)
(* the caller gives up: a full queue, a missing writer and a passed deadline  *)
(* answer with the code of an unsupported target, and that text is copied.    *)
(* No dictation whose delivery was attempted is stored unless its target was  *)
(* seen and is one that may be kept; one whose delivery was not attempted is. *)
SensitiveStaysOut == SensitiveGetsNothing /\ StoredWasSeen
=============================================================================
