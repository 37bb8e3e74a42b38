---------------------------- MODULE MCTaskKernel ----------------------------
(***************************************************************************)
(* Instances of the task kernel for TLC.                                   *)
(***************************************************************************)
EXTENDS TaskKernelSafety, TaskKernelLiveness, TLC

\* One owner for all tasks: they compete for one queue account.
SharedOwner == [t \in Tasks |-> CHOOSE o \in Owners : TRUE]

InstanceSymmetry == Permutations(Instances)
=============================================================================
