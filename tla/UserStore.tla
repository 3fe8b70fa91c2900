------------------------------ MODULE UserStore ------------------------------
(***************************************************************************)
(* The users: the table behind UserRepository, and the requests that       *)
(* register, update and soft-delete users through it.                      *)
(*                                                                         *)
(* An e-mail is stored in lower case (Email.create) but looked up in the   *)
(* spelling the caller used.  Deletion sets a column: finds skip such a    *)
(* row, the unique column still counts it, and save writes to it.          *)
(*                                                                         *)
(* A request finds, changes an object in memory and saves all of it, as in *)
(* PostStore, and moves at every await; its first one is part of the       *)
(* action that starts it.  User name, role and isActive are left out: they *)
(* travel with the password and decide nothing.  Every user the code makes *)
(* has the provider "local".                                               *)
(***************************************************************************)
EXTENDS Naturals

CONSTANTS
  Request,       \* requests in progress at a time
  User,          \* user ids
  Spelling,      \* e-mail addresses as callers write them
  LowerCase,     \* spelling -> the stored form of it
  Password,      \* hashes
  Generated,     \* the password of an account made by a Google sign-in
  MaxFaults,     \* bound: rejections and deaths in a behaviour
  NoUser, NoSpelling, NoPassword, NoRow

ASSUME UserAssumption ==
  /\ LowerCase \in [Spelling -> Spelling]
  /\ \A s \in Spelling : LowerCase[LowerCase[s]] = LowerCase[s]
  /\ MaxFaults \in Nat
  /\ NoUser \notin User /\ NoSpelling \notin Spelling
  /\ NoPassword \notin Password \union {Generated}

VARIABLES
  users,         \* the table: id -> row
  req,           \* request -> what it awaits, and the objects it holds
  faults,        \* history: rejections and deaths
  free           \* history: requests that know their address to be free: they found
                 \* it so in its stored form, or it is their user's, and no other
                 \* request has stored it since

userVars == <<users, req, faults, free>>

Email  == {LowerCase[s] : s \in Spelling}
Column == {"email", "password"}
Row    == [email : Email, password : Password \union {Generated}, deleted : BOOLEAN]

ASSUME NoUserRowAssumption == NoRow \notin Row

\* dirty: columns in which the object differs from what save loaded.  asked and
\* overtaken are history: the columns the caller wants changed, and whether the row
\* has changed since the request took its copy.
Idle == [pc |-> "idle", user |-> NoUser, spelling |-> NoSpelling, held |-> NoRow,
         dirty |-> {}, asked |-> {}, overtaken |-> FALSE]

At(q, pc) == req[q].pc = pc
Become(q, r) == req' = [req EXCEPT ![q] = r]
Goto(q, pc) == req' = [req EXCEPT ![q].pc = pc]
Fault == faults < MaxFaults /\ faults' = faults + 1

-----------------------------------------------------------------------------
(* Variants with a bug, to show that the properties can fail. *)

\* The check of the use cases is left out.
EmailTakenNever(s) == FALSE

\* The UPDATE has lost its WHERE id.
PutEverywhere(q, u, r, next) ==
  /\ users' = [o \in User |-> IF o = u \/ users[o] # NoRow THEN r ELSE users[o]]
  /\ Become(q, next)

\* toOrmEntity copies an empty deletedAt as well.
MergedWithDeleted(current, dirty, held) ==
  [c \in DOMAIN current |->
     IF c \in dirty \union {"deleted"} THEN held[c] ELSE current[c]]

\* create stores the address as it was written.
NewRowAsWritten(s, w) == [email |-> s, password |-> w, deleted |-> FALSE]

\* The finds return deleted rows too.
AliveOrDeleted(u) == users[u] # NoRow

-----------------------------------------------------------------------------
(* User and UserRepository *)

NewRow(s, w) == [email |-> LowerCase[s], password |-> w, deleted |-> FALSE]

\* toDomain: the object keeps the row's columns.
Reconstituted(row) == row

\* updateProfile and changePassword
Edited(row, s, w) ==
  [row EXCEPT !.email = IF s = NoSpelling THEN @ ELSE LowerCase[s],
              !.password = IF w = NoPassword THEN @ ELSE w]

\* What the finds see.
Alive(u) == users[u] # NoRow /\ ~users[u].deleted

FoundByEmail(s) == {u \in User : Alive(u) /\ users[u].email = s}

\* The check of the use cases: the address is looked up as it was written.
EmailTaken(s) == FoundByEmail(s) # {}

\* The check told the caller something about the address that will be stored.
Checks(q, s) == IF s = LowerCase[s] THEN free \union {q} ELSE free

\* Once q has ended, having stored a row with the address.
FreeWithout(q, e) == {o \in free \ {q} : req[o].held.email # e}

\* The unique column rejects the e-mail.
Collides(e, u) == \E o \in User \ {u} : users[o] # NoRow /\ users[o].email = e

\* save, second statement: the columns that differed from the row it loaded.
Merged(current, dirty, held) ==
  [c \in DOMAIN current |-> IF c \in dirty THEN held[c] ELSE current[c]]

\* The row of u becomes r, and whoever holds a copy of it holds an old one.
Put(q, u, r, next) ==
  /\ users' = [users EXCEPT ![u] = r]
  /\ req' = [o \in Request |->
               IF o = q THEN next
               ELSE [req[o] EXCEPT !.overtaken =
                       @ \/ (req[o].user = u /\ req[o].held # NoRow /\ r # users[u])]]

-----------------------------------------------------------------------------
(* CreateUserUseCase: the check, then bcrypt and the INSERT *)

Register(q) ==
  /\ At(q, "idle")
  /\ \E s \in Spelling, w \in Password :
       /\ ~EmailTaken(s)
       /\ Become(q, [Idle EXCEPT !.pc = "insert", !.held = NewRow(s, w)])
       /\ free' = Checks(q, s)
  /\ UNCHANGED <<users, faults>>

\* A variant with a bug: the rejection of the INSERT is not awaited.
InsertedUnawaited(q, u, next) ==
  /\ users[u] = NoRow
  /\ IF Collides(req[q].held.email, u)
     THEN Become(q, next) /\ UNCHANGED users /\ free' = free \ {q}
     ELSE Put(q, u, req[q].held, next) /\ free' = FreeWithout(q, req[q].held.email)

Inserted(q, u, next) ==
  /\ users[u] = NoRow
  /\ IF Collides(req[q].held.email, u)
     THEN Become(q, Idle) /\ UNCHANGED users /\ free' = free \ {q}
     ELSE Put(q, u, req[q].held, next) /\ free' = FreeWithout(q, req[q].held.email)

Insert(q) ==
  /\ At(q, "insert")
  /\ \E u \in User : Inserted(q, u, Idle)
  /\ UNCHANGED faults

(* UpdateUserUseCase *)

UpdateFind(q, u) ==
  /\ At(q, "idle")
  /\ Alive(u)
  /\ \E s \in Spelling \union {NoSpelling}, w \in Password \union {NoPassword} :
       Become(q, [Idle EXCEPT
         !.pc = IF s \in {NoSpelling, users[u].email} THEN "load" ELSE "emailCheck",
         !.user = u, !.spelling = IF s = users[u].email THEN NoSpelling ELSE s,
         !.held = Edited(Reconstituted(users[u]), s, w),
         !.asked = {c \in Column : IF c = "email" THEN s # NoSpelling ELSE w # NoPassword}])
  /\ free' = IF req'[q].pc = "load" THEN free \union {q} ELSE free
  /\ UNCHANGED <<users, faults>>

EmailCheck(q) ==
  /\ At(q, "emailCheck")
  /\ IF EmailTaken(req[q].spelling)
     THEN Become(q, Idle) /\ UNCHANGED free
     ELSE /\ req' = [req EXCEPT ![q].pc = "load", ![q].spelling = NoSpelling]
          /\ free' = Checks(q, req[q].spelling)
  /\ UNCHANGED <<users, faults>>

\* save: TypeORM loads the row by id, deleted or not, and updates it.
Load(q) ==
  /\ At(q, "load")
  /\ req' = [req EXCEPT ![q].pc = "write", 
                         ![q].dirty = {c \in Column : req[q].held[c] # users[req[q].user][c]}]
  /\ UNCHANGED <<users, faults, free>>

SavedRow(q) == Merged(users[req[q].user], req[q].dirty, req[q].held)

Write(q) ==
  /\ At(q, "write")
  /\ IF Collides(SavedRow(q).email, req[q].user)
     THEN Become(q, Idle) /\ UNCHANGED users /\ free' = free \ {q}
     ELSE /\ Put(q, req[q].user, SavedRow(q), [Idle EXCEPT !.pc = "saved", !.user = req[q].user])
          /\ free' = FreeWithout(q, SavedRow(q).email)
  /\ UNCHANGED faults

(* DeleteUserUseCase *)

DeleteFind(q, u) ==
  /\ At(q, "idle")
  /\ Alive(u)
  /\ Become(q, [Idle EXCEPT !.pc = "softDelete", !.user = u])
  /\ UNCHANGED <<users, faults, free>>

SoftDelete(q) ==
  /\ At(q, "softDelete")
  /\ Put(q, req[q].user, [users[req[q].user] EXCEPT !.deleted = TRUE],
         [Idle EXCEPT !.pc = "saved", !.user = req[q].user])
  /\ UNCHANGED <<faults, free>>

\* The request ends before its time, at any await: its process dies, or the
\* database rejects (a rejected statement may have been committed).
Die(q) ==
  /\ ~At(q, "idle")
  /\ Fault
  /\ Become(q, Idle)
  /\ free' = free \ {q}
  /\ UNCHANGED users

-----------------------------------------------------------------------------
UserInit ==
  /\ users = [u \in User |-> NoRow]
  /\ req = [q \in Request |-> Idle]
  /\ faults = 0
  /\ free = {}

UserStart(q) == Register(q) \/ \E u \in User : UpdateFind(q, u) \/ DeleteFind(q, u)

UserStep(q) == Insert(q) \/ EmailCheck(q) \/ Load(q) \/ Write(q) \/ SoftDelete(q)

-----------------------------------------------------------------------------
(* Properties *)

InUse(e, u) == \E o \in User \ {u} : Alive(o) /\ users[o].email = e

\* The unique column turns an address away only for a reason: it was looked up in
\* another spelling than it is stored in, another request stored it after it was
\* found free, or the row that has it is a deleted one, which no find shows.
AddressRefusedForAReason ==
  \A q \in free :
    /\ req[q].pc \in {"insert", "insertGoogle"} => ~InUse(req[q].held.email, NoUser)
    /\ At(q, "write") => ~InUse(SavedRow(q).email, req[q].user)

\* A deleted user stays deleted, also under an update that found the user before
\* the deletion and saves the whole object after it.
DeletedForGood ==
  [][\A u \in User : users[u] # NoRow /\ users[u].deleted
                     => users'[u] # NoRow /\ users'[u].deleted]_users

\* A column changes without having been asked for only when the object that was
\* saved is a copy older than the row: a lost update needs an overlap.
UnaskedOnlyFromOldCopies ==
  [][\A u \in User, c \in Column :
       users[u] # NoRow /\ users'[u][c] # users[u][c] =>
         \E q \in Request :
           At(q, "write") /\ req[q].user = u /\ (c \in req[q].asked \/ req[q].overtaken)]_users

=============================================================================
