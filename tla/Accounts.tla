------------------------------- MODULE Accounts -------------------------------
(***************************************************************************)
(* The users of module UserStore with what outlives a request: the cache   *)
(* entries user:<id> of UserController, and the tokens that AuthController *)
(* hands out.  A token is its claims; access and refresh tokens are signed *)
(* with the same key and verified alike, and logging out changes nothing   *)
(* on the server.  A login with a wrong password changes nothing, nor does *)
(* one with another spelling of the address: neither is an action.         *)
(***************************************************************************)
EXTENDS UserStore, FiniteSets

CONSTANTS
  Viewed,      \* bound: users whose page is requested
  MaxTokens    \* bound: tokens that have not expired

ASSUME AccountAssumption == Viewed \subseteq User /\ MaxTokens \in Nat

VARIABLES
  cached,      \* user -> the row cached under user:<id>
  late,        \* history: users whose entry was filled from an old copy, or
               \* outlived a write that nobody invalidated
  tokens       \* claims of the tokens that have not expired

accountVars == <<users, req, faults, free, cached, late, tokens>>
outside     == <<cached, late, tokens>>

Claims == [sub : User, email : Email]

ClaimsOf(u, row) == [sub |-> u, email |-> row.email]

-----------------------------------------------------------------------------
(* Variants with a bug, to show that the properties can fail. *)

\* update and delete leave the cache alone.
LeftInCacheAnyway(u) == cached[u]

-----------------------------------------------------------------------------
(* GET /users/:id *)

\* A hit answers; a miss, or an error of the store, goes on to the table.
GetUser(q, u) ==
  /\ At(q, "idle")
  /\ IF cached[u] # NoRow THEN Fault ELSE UNCHANGED faults
  /\ Become(q, [Idle EXCEPT !.pc = "fetch", !.user = u])
  /\ UNCHANGED <<users, free, outside>>

Fetch(q) ==
  /\ At(q, "fetch")
  /\ IF Alive(req[q].user)
     THEN req' = [req EXCEPT ![q].pc = "fill", ![q].held = users[req[q].user],
                             ![q].overtaken = FALSE]
     ELSE Become(q, Idle)
  /\ UNCHANGED <<users, faults, free, outside>>

Fill(q) ==
  LET u == req[q].user
  IN /\ At(q, "fill")
     /\ cached' = [cached EXCEPT ![u] = req[q].held]
     /\ late' = IF req[q].overtaken THEN late \union {u} ELSE late \ {u}
     /\ Become(q, Idle)
     /\ UNCHANGED <<users, faults, free, tokens>>

(* What PATCH and DELETE /users/:id do after the save *)

LeftInCache(u) == NoRow

Invalidate(q) ==
  LET u == req[q].user
  IN /\ At(q, "saved")
     /\ cached' = [cached EXCEPT ![u] = LeftInCache(u)]
     /\ late' = late \ {u}
     /\ Become(q, Idle)
     /\ UNCHANGED <<users, faults, free, tokens>>

\* CacheService.delete swallows the error of the store.
InvalidateFails(q) ==
  /\ At(q, "saved")
  /\ Fault
  /\ late' = late \union {req[q].user}
  /\ Become(q, Idle)
  /\ UNCHANGED <<users, free, cached, tokens>>

\* set is always called with a TTL.
Expire(u) ==
  /\ cached[u] # NoRow
  /\ cached' = [cached EXCEPT ![u] = NoRow]
  /\ UNCHANGED <<users, req, faults, free, late, tokens>>

-----------------------------------------------------------------------------
(* AuthController *)

\* LoginUseCase: the user is read, then bcrypt compares, then the claims are signed.
Login(q, u) ==
  /\ At(q, "idle")
  /\ Alive(u)
  /\ Become(q, [Idle EXCEPT !.pc = "sign", !.user = u, !.held = users[u]])
  /\ UNCHANGED <<users, faults, free, outside>>

\* exchangeCodeForProfile: the address in the ID token, in Google's spelling.  If it
\* throws, the callback ends without a change.
ProfileEmail == Spelling

\* googleAuthCallback, with the profile that Google returned.
GoogleCallback(q) ==
  /\ At(q, "idle")
  /\ \E s \in ProfileEmail :
       \/ \E u \in FoundByEmail(s) :
            /\ Become(q, [Idle EXCEPT !.pc = "sign", !.user = u, !.held = users[u]])
            /\ UNCHANGED free
       \/ /\ FoundByEmail(s) = {}
          /\ Become(q, [Idle EXCEPT !.pc = "insertGoogle", !.held = NewRow(s, Generated)])
          /\ free' = Checks(q, s)
  /\ UNCHANGED <<users, faults, outside>>

InsertGoogle(q) ==
  /\ At(q, "insertGoogle")
  /\ \E u \in User :
       Inserted(q, u, [Idle EXCEPT !.pc = "sign", !.user = u, !.held = req[q].held])
  /\ UNCHANGED <<faults, outside>>

Minted(q) == ClaimsOf(req[q].user, req[q].held)

Sign(q) ==
  /\ At(q, "sign")
  /\ Minted(q) \in tokens \/ Cardinality(tokens) < MaxTokens
  /\ tokens' = tokens \union {Minted(q)}
  /\ Become(q, Idle)
  /\ UNCHANGED <<users, faults, free, cached, late>>

\* RefreshTokenUseCase signs the claims of any valid token again, without a look
\* at the user: as claims go, nothing is new.  What ends a chain of refreshes is a
\* token that expires before its holder refreshes it.
TokenExpires(c) ==
  /\ c \in tokens
  /\ tokens' = tokens \ {c}
  /\ UNCHANGED <<users, req, faults, free, cached, late>>

-----------------------------------------------------------------------------
StoreMoves(q) ==
  /\ UserStart(q) \/ UserStep(q)
  /\ UNCHANGED <<cached, late, tokens>>

DieAnywhere(q) ==
  /\ Die(q)
  /\ late' = IF At(q, "saved") THEN late \union {req[q].user} ELSE late
  /\ UNCHANGED <<cached, tokens>>

AccountInit ==
  /\ UserInit
  /\ cached = [u \in User |-> NoRow]
  /\ late = {} /\ tokens = {}

Answer(q) ==
  \/ Fetch(q) \/ Fill(q) \/ Invalidate(q) \/ InvalidateFails(q)
  \/ InsertGoogle(q) \/ Sign(q)

AccountNext ==
  \/ \E q \in Request :
       \/ StoreMoves(q) \/ Answer(q) \/ GoogleCallback(q) \/ DieAnywhere(q)
       \/ \E u \in User : Login(q, u)
       \/ \E u \in Viewed : GetUser(q, u)
  \/ \E u \in User : Expire(u)
  \/ \E c \in tokens : TokenExpires(c)

AccountSpec == AccountInit /\ [][AccountNext]_accountVars

-----------------------------------------------------------------------------
(* Properties *)

Waiting == {"idle", "insert", "emailCheck", "load", "write", "softDelete", "saved",
            "fetch", "fill", "insertGoogle", "sign"}

\* Types of the table, the requests, the cache and the tokens.
AccountTypeOK ==
  /\ users \in [User -> Row \union {NoRow}]
  /\ req \in [Request -> [pc : Waiting, user : User \union {NoUser},
                          spelling : Spelling \union {NoSpelling},
                          held : Row \union {NoRow}, dirty : SUBSET Column, asked : SUBSET Column,
                          overtaken : BOOLEAN]]
  /\ faults \in 0..MaxFaults
  /\ free \subseteq Request
  /\ cached \in [User -> Row \union {NoRow}]
  /\ late \subseteq User
  /\ tokens \subseteq Claims

\* A cached user differs from the table, or is deleted, only while the request that
\* wrote has not invalidated yet, or when a slow reader or a lost invalidation left it.
StaleUserOnlyIfRaced ==
  \A u \in User : cached[u] # NoRow /\ u \notin late =>
    \/ cached[u] = users[u] /\ Alive(u)
    \/ \E q \in Request : At(q, "saved") /\ req[q].user = u

\* Every token names an account that was stored: also one of a Google sign-in, whose
\* INSERT may lose against another one for the same address.
TokensNameAccounts == \A c \in tokens : users[c.sub] # NoRow

\* Nobody signs in to a deleted account but a request that read it before the
\* deletion: bcrypt runs between the two.
DeletedCannotSignIn ==
  [][\A c \in tokens' \ tokens :
       users[c.sub].deleted =>
         \E q \in Request : At(q, "sign") /\ req[q].user = c.sub /\ req[q].overtaken]_accountVars

=============================================================================
