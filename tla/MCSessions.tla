------------------------------ MODULE MCSessions ------------------------------
(* A small instance of Sessions: one user with two tokens. *)
EXTENDS Sessions

CONSTANT u1

MCOwnerOf == [t \in Token |-> u1]
=============================================================================
