----------------------------- MODULE PackStore -----------------------------
(* What the model store promises the rest of the program about one pack: its  *)
(* directory becomes visible whole, in one step, or not at all; a directory   *)
(* that is replaced is put aside first; and of a pack that was installed and  *)
(* not removed since, the last whole copy is never given up.                  *)

VARIABLES
    visible,   \* the pack's final path: "absent", "partial" or "whole"
    aside,     \* the copy an activation keeps
    kept       \* the pack was visible whole and nobody asked to remove it

vars == <<visible, aside, kept>>

Init == visible \in {"absent", "whole"} /\ aside = "absent"
        /\ kept = (visible = "whole")

(* An activation moves the old directory out of the way. *)
PutAside == /\ visible # "absent"
            /\ visible' = "absent"
            /\ aside' = visible
            /\ UNCHANGED kept

(* A staged directory takes the pack's place: never a part of one. *)
Publish == /\ visible = "absent"
           /\ visible' = "whole" /\ kept' = TRUE
           /\ UNCHANGED aside

(* The activation failed: the old directory comes back. *)
Restore == /\ visible = "absent"
           /\ aside # "absent"
           /\ visible' = aside
           /\ aside' = "absent"
           /\ UNCHANGED kept

(* The old directory is given up, but not for less than a whole new one. *)
Discard == /\ kept => visible = "whole"
           /\ aside # "absent"
           /\ aside' = "absent"
           /\ UNCHANGED <<visible, kept>>

(* The user asks for the pack to be removed; then it goes file by file. *)
Forget == kept' = FALSE /\ UNCHANGED <<visible, aside>>

Remove == /\ visible # "absent" /\ ~kept
          /\ visible' \in {"partial", "absent"}
          /\ UNCHANGED <<aside, kept>>

Next == PutAside \/ Publish \/ Restore \/ Discard \/ Forget \/ Remove

Spec == Init /\ [][Next]_vars

(* What the promise is worth: a kept pack is visible whole, or put aside      *)
(* whole while its place is empty.                                            *)
KeptIsSomewhere ==
    kept => \/ visible = "whole"
            \/ visible = "absent" /\ aside = "whole"
=============================================================================
