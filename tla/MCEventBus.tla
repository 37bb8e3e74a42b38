----------------------------- MODULE MCEventBus ------------------------------
(***************************************************************************)
(* Instances of the event bus for TLC.                                     *)
(***************************************************************************)
EXTENDS EventBus
=============================================================================
