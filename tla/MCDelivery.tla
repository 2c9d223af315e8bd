----------------------------- MODULE MCDelivery -----------------------------
(* Delivery, with the text transformations whose result it delivers.          *)
EXTENDS Delivery, Transforms

(* Between the words heard and the keys sent nothing is lost that nobody      *)
(* asked to drop: the dictionary passes a candidate over only for a better    *)
(* one, a protected term is always accepted, a literal stays, cleanup drops   *)
(* words and adds only the dashes of a spoken list, an import keeps every     *)
(* entry it did not show as a conflict, and a plan to paste is one the writer *)
(* accepts.  Every variable of the delivery keeps its type.                   *)
RewritingIsSafe ==
    /\ TypeOK
    /\ PassedOverForABetter
    /\ ProtectedTermsAreAccepted
    /\ LiteralModesKeepTheText
    /\ RulesOnlyDrop
    /\ SpokenListsAreWritten
    /\ ImportKeepsWhatItDidNotShow
    /\ PlansAreAccepted
=============================================================================
