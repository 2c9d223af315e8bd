--------------------------- MODULE MCModelInstall ---------------------------
(* A pack of two files, read in three units with a checkpoint every two. *)
EXTENDS ModelInstall, PackArchive

CONSTANTS f1, f2

MCRequiredFiles == <<f1, f2>>

(* A pack that passed the checks made before its download is one the install  *)
(* can lay out, and an archive that is accepted is laid out whole.  Every     *)
(* variable of the store keeps its type.                                      *)
PacksInstallWhole == TypeOK /\ ExtractionIsWhole /\ AcceptedPacksInstall
=============================================================================
