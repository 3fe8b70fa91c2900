-------------------------- MODULE MCEventPublisher --------------------------
(* Instances of EventPublisher for TLC: the constants are given in the .cfg. *)
EXTENDS EventPublisher
=============================================================================
