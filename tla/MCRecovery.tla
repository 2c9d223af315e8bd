----------------------------- MODULE MCRecovery -----------------------------
(* Recovery for TLC: the three collision policies, one of them without the    *)
(* settings.                                                                  *)
EXTENDS Recovery, TLC

MCChoices ==
    {[settings |-> p # "replace_from_v1", presets |-> TRUE, collision_policy |-> p] :
        p \in CollisionPolicies}

(* The contents of a file are only compared with each other. *)
Symmetry == Permutations(Contents)
=============================================================================
