--------------------------- MODULE MCGraniteEngine ---------------------------
(* Instances of GraniteEngine for TLC. *)
EXTENDS GraniteEngine, PassProtocol

(* A GPU install with a CPU alternate, and two installs on which the gates  *)
(* refuse.                                                                  *)
GpuMachine == [staged |-> TRUE, alternate |-> TRUE, memory |-> TRUE,
               installed |-> "cuda", cuda |-> TRUE,
               probe |-> {"holding"}]
SmallMachine == [GpuMachine EXCEPT !.memory = FALSE]
UnstagedMachine == [GpuMachine EXCEPT !.staged = FALSE]

MCMachines == {GpuMachine, SmallMachine, UnstagedMachine}

(* From the bytes of a frame to the verdict nothing is delivered that is     *)
(* less than what was said: frames read back as they were written and a cut  *)
(* stream yields whole frames only, a transcript is that of a finished       *)
(* stream of this session, and no budget shortens one unnoticed.  Every      *)
(* variable of the engine keeps its type.                                    *)
DeliveredIsWhole ==
  /\ TypeOK
  /\ FramesReadBack
  /\ TranscriptsAreFinished
  /\ TruncatedIsNotDelivered
=============================================================================
