---------------------------- MODULE MCCheckpointer ----------------------------
(* Small instances of Checkpointer for TLC.                                  *)
EXTENDS Checkpointer, TLC

CONSTANTS k1, k2

MCKeys == {k1, k2}
MCSymmetry == Permutations(MCKeys)

(* The faults under which an acknowledged state must survive: every call of  *)
(* write_checkpoints may fail, reading the files back may not.               *)
WriteFaults == {"create", "write", "sync", "rename"}
RecoverFaults == {"recover"}
===============================================================================
