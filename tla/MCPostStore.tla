---------------------------- MODULE MCPostStore ----------------------------
(* A small instance of PostStore: two titles that make the same slug. *)
EXTENDS PostStore

CONSTANTS t1, t2, s1

MCSlugOf == [t \in {t1, t2} |-> s1]
=============================================================================
