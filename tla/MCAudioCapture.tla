--------------------------- MODULE MCAudioCapture ---------------------------
(* Three plans: down to two thirds and to a third of the native rate, and up  *)
(* to twice; limited by the bytes, by nothing a recording reaches, and by the *)
(* duration and the buffer at once.                                           *)
EXTENDS AudioCapture

MCPlans == {
    [source |-> 3, target |-> 2, duration |-> 5, capacity |-> 5, bytes |-> 2],
    [source |-> 3, target |-> 1, duration |-> 9, capacity |-> 9, bytes |-> 9],
    [source |-> 1, target |-> 2, duration |-> 4, capacity |-> 4, bytes |-> 7] }

(* The decisions before and beside a capture: any usable microphone is found, *)
(* a sample survives its conversion, and the speech detector turns over       *)
(* exactly when its profile says.  Every variable of the capture keeps its    *)
(* type.                                                                      *)
AudioRulesHold ==
    /\ TypeOK
    /\ AnyUsableMicrophoneIsFound
    /\ QuantizedIsFaithful
    /\ VadFollowsItsProfile
============================================================================
