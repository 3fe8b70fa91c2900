------------------------------ MODULE MCAccounts ------------------------------
(***************************************************************************)
(* Small instances of what stands behind a user: the table of users with   *)
(* its cache entries and tokens, and the sessions in the cache.  The two   *)
(* share no state, and neither calls the other: a behaviour is one of the  *)
(* part `focus' names.                                                     *)
(*                                                                         *)
(* Two addresses, one in two spellings, and one password, which is also    *)
(* the generated one: the two columns are saved alike.  One user with two  *)
(* sessions, whose keys go with them, after them, or never.                *)
(***************************************************************************)
EXTENDS Accounts, Sessions, TLC

CONSTANTS a, aUpper, b, q1, q2, k1, k2, u1

VARIABLE focus

MCLowerCase == [s \in {a, aUpper, b} |-> IF s = aUpper THEN a ELSE s]
MCOwnerOf == [t \in Token |-> u1]
Symmetric == Permutations({q1, q2}) \union Permutations({k1, k2})

AccountsInit ==
  /\ focus \in {"users", "sessions"}
  /\ AccountInit /\ SessionInit

AccountsNext ==
  /\ focus' = focus
  /\ \/ focus = "users" /\ AccountNext /\ UNCHANGED sessionVars
     \/ focus = "sessions" /\ SessionNext /\ UNCHANGED accountVars

AccountsSpec == AccountsInit /\ [][AccountsNext]_<<focus, accountVars, sessionVars>>
=============================================================================
