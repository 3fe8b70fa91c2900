---------------------------- MODULE MCPostCache ----------------------------
(* A small instance of PostCache: one title, and a slug of its own besides. *)
EXTENDS PostCache

CONSTANTS t1, s1

MCSlugOf == [t \in {t1} |-> s1]
=============================================================================
