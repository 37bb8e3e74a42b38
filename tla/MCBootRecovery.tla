--------------------------- MODULE MCBootRecovery ---------------------------
(***************************************************************************)
(* Instances of the kernel with restarts for TLC.                          *)
(***************************************************************************)
EXTENDS BootRecovery, TLC

SharedOwner == [t \in Tasks |-> CHOOSE o \in Owners : TRUE]

TaskSymmetry == Permutations(Tasks)
=============================================================================
