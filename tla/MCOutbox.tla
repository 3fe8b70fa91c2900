------------------------------ MODULE MCOutbox ------------------------------
(* Instances of Outbox for TLC: the constants are given in the .cfg files. *)
EXTENDS Outbox, TLC

\* Workers are interchangeable: no action or property names one of them.
WorkerSymmetry == Permutations(Worker)

=============================================================================
