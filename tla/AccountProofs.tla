---------------------------- MODULE AccountProofs ----------------------------
(***************************************************************************)
(* Proofs about UserStore and Accounts, for any sets of requests, users,   *)
(* spellings and passwords and any bounds.                                 *)
(*                                                                         *)
(* What a request holds across an await is either the row as it still is   *)
(* or marked as overtaken; TrueCopy says so, for each thing a request may  *)
(* be about to do.  What it knows of an address is in KeepsItsAddress.     *)
(* Everything else follows from these, from the unique                     *)
(* column, and from no row ever leaving the table.                         *)
(***************************************************************************)
EXTENDS Accounts, TLAPS

Asking == [pc : Waiting, user : User \union {NoUser}, spelling : Spelling \union {NoSpelling},
           held : Row \union {NoRow}, dirty : SUBSET Column, asked : SUBSET Column,
           overtaken : BOOLEAN]

Inserting == {"insert", "insertGoogle"}
Editing   == {"emailCheck", "load", "write"}
Reading   == {"fill", "sign"}
Changing  == {"softDelete", "saved"}

\* A request about to do something has what it needs for that.
WellFormedIn(r, table) ==
  /\ r.pc \in Inserting => r.held \in Row /\ ~r.held.deleted
  /\ r.pc \in Editing \union Reading => r.held \in Row
  /\ r.pc \in Editing \union Reading \union Changing =>
       r.user \in User /\ table[r.user] \in Row
  /\ r.pc = "fetch" => r.user \in User
  /\ r.pc = "emailCheck" => r.held.email = LowerCase[r.spelling]

\* A copy that was not overtaken differs from the row at most in what was asked for.
TrueCopyIn(r, table) ==
  ~r.overtaken =>
    /\ r.pc \in Reading => r.held = table[r.user] /\ ~r.held.deleted
    /\ r.pc \in Editing => \A c \in Column \ r.asked : r.held[c] = table[r.user][c]

SoundIn(r, table) == WellFormedIn(r, table) /\ TrueCopyIn(r, table)

EmailsUnique ==
  \A u, o \in User :
    users[u] # NoRow /\ users[o] # NoRow /\ users[u].email = users[o].email => u = o

Table ==
  /\ users \in [User -> Row \union {NoRow}]
  /\ req \in [Request -> Asking]
  /\ \A q \in Request : SoundIn(req[q], users)
  /\ faults \in 0..MaxFaults
  /\ EmailsUnique

-----------------------------------------------------------------------------
(* What the operators on rows return *)

LEMMA IdleIsSound ==
  ASSUME NEW table
  PROVE  Idle \in Asking /\ SoundIn(Idle, table) /\ Idle.pc = "idle"
BY DEF Idle, Asking, Waiting, SoundIn, WellFormedIn, TrueCopyIn, Inserting, Editing,
       Reading, Changing

LEMMA NewRowIsRow ==
  ASSUME NEW s \in Spelling, NEW w \in Password \union {Generated}
  PROVE  NewRow(s, w) \in Row /\ ~NewRow(s, w).deleted
BY UserAssumption DEF NewRow, Row, Email

LEMMA EditedIsRow ==
  ASSUME NEW row \in Row, NEW s \in Spelling \union {NoSpelling},
         NEW w \in Password \union {NoPassword}
  PROVE  /\ Edited(row, s, w) \in Row
         /\ Edited(row, s, w).email = IF s = NoSpelling THEN row.email ELSE LowerCase[s]
         /\ w = NoPassword => Edited(row, s, w).password = row.password
<1>1. s # NoSpelling => LowerCase[s] \in Email
  BY UserAssumption DEF Email
<1>2. (IF s = NoSpelling THEN row.email ELSE LowerCase[s]) \in Email
  BY <1>1 DEF Row
<1>3. (IF w = NoPassword THEN row.password ELSE w) \in Password \union {Generated}
  BY DEF Row
<1> QED BY <1>2, <1>3 DEF Edited, Row

\* The UPDATE of save changes no column but those that were dirty, and no deletion.
LEMMA MergedIsRow ==
  ASSUME NEW current \in Row, NEW held \in Row, NEW dirty \in SUBSET Column
  PROVE  /\ Merged(current, dirty, held) \in Row
         /\ Merged(current, dirty, held).deleted = current.deleted
         /\ \A c \in Column : Merged(current, dirty, held)[c] =
                                IF c \in dirty THEN held[c] ELSE current[c]
<1> DEFINE m == Merged(current, dirty, held)
<1>1. m = [c \in {"email", "password", "deleted"} |->
             IF c \in dirty THEN held[c] ELSE current[c]]
  BY DEF Merged, Row
<1>2. m = [email |-> m.email, password |-> m.password, deleted |-> m.deleted]
  BY <1>1
<1>3. m.email \in Email /\ m.password \in Password \union {Generated}
  BY <1>1 DEF Row
<1>4. m.deleted = current.deleted /\ m.deleted \in BOOLEAN
  BY <1>1 DEF Row, Column
<1>5. \A c \in Column : m[c] = IF c \in dirty THEN held[c] ELSE current[c]
  BY <1>1 DEF Column
<1> HIDE DEF m
<1>6. m \in Row
  BY <1>2, <1>3, <1>4 DEF Row
<1> QED BY <1>4, <1>5, <1>6 DEF m

-----------------------------------------------------------------------------
(* The two ways in which an action moves: one request alone, or with a write *)

LEMMA OneMoves ==
  ASSUME Table, NEW q \in Request, NEW r \in Asking, SoundIn(r, users),
         req' = [req EXCEPT ![q] = r], users' = users, faults' \in 0..MaxFaults
  PROVE  Table'
<1>1. req' \in [Request -> Asking]
  BY DEF Table
<1>2. ASSUME NEW o \in Request
      PROVE  SoundIn(req[o], users)'
  BY DEF Table, SoundIn, WellFormedIn, TrueCopyIn
<1>3. EmailsUnique'
  BY DEF Table, EmailsUnique
<1> QED BY <1>1, <1>2, <1>3 DEF Table

LEMMA BecomeMoves ==
  ASSUME Table, NEW q \in Request, NEW r \in Asking, SoundIn(r, users),
         Become(q, r), users' = users, faults' \in 0..MaxFaults
  PROVE  Table'
BY OneMoves DEF Become

\* Whoever held a copy of the row is marked, unless the row stayed as it was.
LEMMA PutMoves ==
  ASSUME Table, NEW q \in Request, NEW u \in User, NEW r \in Row, NEW next \in Asking,
         SoundIn(next, users'), Put(q, u, r, next), ~Collides(r.email, u),
         faults' = faults
  PROVE  /\ Table'
         /\ users'[u] = r
         /\ \A o \in User : users[o] \in Row => users'[o] \in Row
<1>1. users' = [users EXCEPT ![u] = r]
  BY DEF Put
<1>2. /\ users' \in [User -> Row \union {NoRow}]
      /\ users'[u] = r
      /\ \A o \in User \ {u} : users'[o] = users[o]
  BY <1>1 DEF Table
<1>3. req' = [o \in Request |->
                IF o = q THEN next
                ELSE [req[o] EXCEPT !.overtaken =
                        @ \/ (req[o].user = u /\ req[o].held # NoRow /\ r # users[u])]]
  BY DEF Put
<1>4. \A o \in Request : req'[o] \in Asking
  BY <1>3 DEF Table, Asking
<1>5. ASSUME NEW o \in Request
      PROVE  SoundIn(req[o], users)'
  <2>1. CASE o = q
    BY <1>3, <2>1 DEF SoundIn, WellFormedIn, TrueCopyIn
  <2>2. CASE o # q
    <3> DEFINE old == req[o]
               new == req'[o]
    <3>1. /\ old \in Asking /\ SoundIn(old, users)
          /\ new.pc = old.pc /\ new.user = old.user /\ new.held = old.held
          /\ new.asked = old.asked /\ new.spelling = old.spelling
          /\ ~new.overtaken =>
               ~old.overtaken /\ ~(old.user = u /\ old.held # NoRow /\ r # users[u])
      BY <1>3, <2>2 DEF Table, Asking
    <3> HIDE DEF old, new
    <3>2. WellFormedIn(new, users')
      BY <1>2, <3>1 DEF SoundIn, WellFormedIn
    <3>3. ASSUME ~new.overtaken, new.pc \in Reading \union Editing
          PROVE  users'[new.user] = users[old.user]
      BY <1>2, <3>1, <3>3, NoUserRowAssumption DEF SoundIn, WellFormedIn
    <3>4. TrueCopyIn(new, users')
      BY <3>1, <3>3 DEF SoundIn, TrueCopyIn
    <3> QED BY <3>2, <3>4 DEF SoundIn, new, WellFormedIn, TrueCopyIn
  <2> QED BY <2>1, <2>2
<1>6. EmailsUnique'
  <2> SUFFICES ASSUME NEW a \in User, NEW b \in User, users'[a] # NoRow, users'[b] # NoRow,
                      users'[a].email = users'[b].email, a # b
               PROVE  FALSE
    BY DEF EmailsUnique
  <2>1. CASE a # u /\ b # u
    BY <1>2, <2>1 DEF Table, EmailsUnique
  <2>2. CASE a = u \/ b = u
    BY <1>2, <2>2 DEF Collides
  <2> QED BY <2>1, <2>2
<1>7. req' \in [Request -> Asking]
  BY <1>3, <1>4
<1>8. \A o \in User : users[o] \in Row => users'[o] \in Row
  BY <1>2
<1> QED BY <1>2, <1>5, <1>6, <1>7, <1>8 DEF Table

-----------------------------------------------------------------------------
(* The actions of the table.  A row stays, a deleted one deleted, and a column that
   changes was asked for or overtaken. *)

RowsStay ==
  \A u \in User : users[u] \in Row =>
    users'[u] \in Row /\ (users[u].deleted => users'[u].deleted)

ChangesHaveReasons ==
  \A u \in User, c \in Column :
    users[u] \in Row /\ users'[u][c] # users[u][c] =>
      \E q \in Request :
        At(q, "write") /\ req[q].user = u /\ (c \in req[q].asked \/ req[q].overtaken)

Kept == Table' /\ RowsStay /\ ChangesHaveReasons

LEMMA NothingWritten ==
  ASSUME Table, users' = users
  PROVE  RowsStay /\ ChangesHaveReasons
BY DEF RowsStay, ChangesHaveReasons

LEMMA RegisterKeeps ==
  ASSUME Table, NEW q \in Request, Register(q)
  PROVE  Kept
<1>1. PICK s \in Spelling, w \in Password :
        Become(q, [Idle EXCEPT !.pc = "insert", !.held = NewRow(s, w)])
  BY DEF Register
<1> DEFINE r == [Idle EXCEPT !.pc = "insert", !.held = NewRow(s, w)]
<1>2. NewRow(s, w) \in Row /\ ~NewRow(s, w).deleted
  BY NewRowIsRow
<1>3. r \in Asking /\ r.pc = "insert" /\ r.held = NewRow(s, w)
  BY <1>2 DEF Idle, Asking, Waiting
<1> HIDE DEF r
<1>4. SoundIn(r, users)
  BY <1>2, <1>3 DEF SoundIn, WellFormedIn, TrueCopyIn, Inserting, Editing, Reading, Changing
<1>5. users' = users /\ faults' \in 0..MaxFaults
  BY DEF Register, Table
<1>6. Become(q, r)
  BY <1>1 DEF r
<1> QED BY <1>3, <1>4, <1>5, <1>6, BecomeMoves, NothingWritten DEF Kept

\* The INSERT of either kind of account, and what the request does then.
LEMMA InsertedKeeps ==
  ASSUME Table, NEW q \in Request, NEW u \in User, NEW next \in Asking,
         req[q].pc \in Inserting, Inserted(q, u, next),
         users'[u] = req[q].held => SoundIn(next, users'), faults' = faults
  PROVE  Kept
<1>1. req[q].held \in Row
  BY DEF Table, SoundIn, WellFormedIn
<1>2. users[u] = NoRow
  BY DEF Inserted
<1>3. CASE Collides(req[q].held.email, u)
  <2>1. Become(q, Idle) /\ users' = users
    BY <1>3 DEF Inserted
  <2> QED BY <2>1, IdleIsSound, BecomeMoves, NothingWritten DEF Kept, Table
<1>4. CASE ~Collides(req[q].held.email, u)
  <2>1. Put(q, u, req[q].held, next)
    BY <1>4 DEF Inserted
  <2>2. users'[u] = req[q].held
    BY <2>1 DEF Put, Table
  <2>3. Table'
    BY <1>1, <1>4, <2>1, <2>2, PutMoves
  <2>4. \A o \in User : users[o] \in Row => users'[o] = users[o]
    BY <1>2, <2>1, NoUserRowAssumption DEF Put, Table
  <2>5. RowsStay /\ ChangesHaveReasons
    BY <2>4 DEF RowsStay, ChangesHaveReasons
  <2> QED BY <2>3, <2>5 DEF Kept
<1> QED BY <1>3, <1>4

LEMMA InsertKeeps ==
  ASSUME Table, NEW q \in Request, Insert(q)
  PROVE  Kept
<1>1. PICK u \in User : Inserted(q, u, Idle)
  BY DEF Insert
<1>2. req[q].pc \in Inserting /\ faults' = faults
  BY DEF Insert, At, Inserting
<1> QED BY <1>1, <1>2, IdleIsSound, InsertedKeeps

LEMMA UpdateFindKeeps ==
  ASSUME Table, NEW q \in Request, NEW u \in User, UpdateFind(q, u)
  PROVE  Kept
<1> DEFINE e == users[u].email
           r(s, w) == [Idle EXCEPT
             !.pc = IF s \in {NoSpelling, e} THEN "load" ELSE "emailCheck",
             !.user = u, !.spelling = IF s = e THEN NoSpelling ELSE s,
             !.held = Edited(Reconstituted(users[u]), s, w),
             !.asked = {c \in Column : IF c = "email" THEN s # NoSpelling ELSE w # NoPassword}]
<1>1. PICK s \in Spelling \union {NoSpelling}, w \in Password \union {NoPassword} :
        Become(q, r(s, w))
  BY DEF UpdateFind
<1>2. users[u] \in Row
  BY DEF UpdateFind, Alive, Table
<1>3. /\ Edited(users[u], s, w) \in Row
      /\ Edited(users[u], s, w).email = IF s = NoSpelling THEN users[u].email ELSE LowerCase[s]
      /\ w = NoPassword => Edited(users[u], s, w).password = users[u].password
  BY <1>2, EditedIsRow
<1>4. /\ r(s, w) \in Asking
      /\ r(s, w).pc \in Editing
      /\ r(s, w).user = u /\ r(s, w).held = Edited(users[u], s, w)
      /\ r(s, w).pc = "emailCheck" => s # NoSpelling /\ r(s, w).spelling = s
      /\ r(s, w).asked = {c \in Column : IF c = "email" THEN s # NoSpelling ELSE w # NoPassword}
  BY <1>3 DEF Idle, Asking, Waiting, Editing, Reconstituted
<1> HIDE DEF r
<1>5. \A c \in Column \ r(s, w).asked : r(s, w).held[c] = users[u][c]
  BY <1>3, <1>4 DEF Column
<1>6. SoundIn(r(s, w), users)
  BY <1>2, <1>3, <1>4, <1>5
     DEF SoundIn, WellFormedIn, TrueCopyIn, Inserting, Editing, Reading, Changing
<1>7. users' = users /\ faults' \in 0..MaxFaults
  BY DEF UpdateFind, Table
<1> QED BY <1>1, <1>4, <1>6, <1>7, BecomeMoves, NothingWritten DEF Kept

LEMMA EmailCheckKeeps ==
  ASSUME Table, NEW q \in Request, EmailCheck(q)
  PROVE  Kept
<1>1. users' = users /\ faults' \in 0..MaxFaults /\ req[q].pc = "emailCheck"
  BY DEF EmailCheck, Table, At
<1>2. CASE Become(q, Idle)
  BY <1>1, <1>2, IdleIsSound, BecomeMoves, NothingWritten DEF Kept
<1>3. CASE req' = [req EXCEPT ![q].pc = "load", ![q].spelling = NoSpelling]
  <2> DEFINE r == [req[q] EXCEPT !.pc = "load", !.spelling = NoSpelling]
  <2>1. r \in Asking /\ req' = [req EXCEPT ![q] = r]
    BY <1>3 DEF Table, Asking, Waiting
  <2>2. /\ r.pc = "load" /\ r.held = req[q].held /\ r.user = req[q].user
        /\ r.asked = req[q].asked /\ r.overtaken = req[q].overtaken
    BY DEF Table, Asking
  <2> HIDE DEF r
  <2>3. SoundIn(r, users)
    BY <1>1, <2>2 DEF Table, SoundIn, WellFormedIn, TrueCopyIn, Inserting, Editing, Reading, Changing
  <2> QED BY <1>1, <2>1, <2>3, OneMoves, NothingWritten DEF Kept
<1>4. \/ Become(q, Idle)
      \/ req' = [req EXCEPT ![q].pc = "load", ![q].spelling = NoSpelling]
  BY DEF EmailCheck
<1> QED BY <1>2, <1>3, <1>4

LEMMA LoadKeeps ==
  ASSUME Table, NEW q \in Request, Load(q)
  PROVE  Kept
<1>1. users' = users /\ faults' \in 0..MaxFaults /\ req[q].pc = "load"
  BY DEF Load, Table, At
<1> DEFINE d == {c \in Column : req[q].held[c] # users[req[q].user][c]}
           r == [req[q] EXCEPT !.pc = "write", !.dirty = d]
<1>2. r \in Asking /\ req' = [req EXCEPT ![q] = r]
  BY DEF Load, Table, Asking, Waiting
<1>3. /\ r.pc = "write" /\ r.held = req[q].held /\ r.user = req[q].user
      /\ r.asked = req[q].asked /\ r.overtaken = req[q].overtaken
  BY DEF Table, Asking
<1> HIDE DEF r
<1>4. SoundIn(r, users)
  BY <1>1, <1>3 DEF Table, SoundIn, WellFormedIn, TrueCopyIn, Inserting, Editing, Reading, Changing
<1> QED BY <1>1, <1>2, <1>4, OneMoves, NothingWritten DEF Kept

\* What a request is left with after its write: its user, and nothing else.
LEMMA SavedIsSound ==
  ASSUME NEW u \in User, NEW table, table[u] \in Row
  PROVE  LET r == [Idle EXCEPT !.pc = "saved", !.user = u] IN
         r \in Asking /\ SoundIn(r, table) /\ r.pc = "saved" /\ r.user = u
BY DEF Idle, Asking, Waiting, SoundIn, WellFormedIn, TrueCopyIn, Inserting, Editing,
       Reading, Changing

LEMMA WriteKeeps ==
  ASSUME Table, NEW q \in Request, Write(q)
  PROVE  Kept
<1> DEFINE u == req[q].user
           r == SavedRow(q)
           next == [Idle EXCEPT !.pc = "saved", !.user = u]
<1>1. req[q].pc = "write" /\ faults' = faults
  BY DEF Write, At
<1>2. /\ u \in User /\ users[u] \in Row /\ req[q].held \in Row
      /\ req[q].dirty \in SUBSET Column /\ req[q].asked \in SUBSET Column
      /\ ~req[q].overtaken => \A c \in Column \ req[q].asked : req[q].held[c] = users[u][c]
  BY <1>1 DEF Table, Asking, SoundIn, WellFormedIn, TrueCopyIn, Editing
<1>3. /\ r \in Row /\ r.deleted = users[u].deleted
      /\ \A c \in Column : r[c] = IF c \in req[q].dirty THEN req[q].held[c] ELSE users[u][c]
  BY <1>2, MergedIsRow DEF SavedRow
<1>4. \/ Collides(r.email, u) /\ Become(q, Idle) /\ users' = users
      \/ ~Collides(r.email, u) /\ Put(q, u, r, next)
  BY DEF Write
<1> HIDE DEF u, r, next
<1>5. CASE Become(q, Idle) /\ users' = users
  BY <1>1, <1>5, IdleIsSound, BecomeMoves, NothingWritten DEF Kept, Table
<1>6. CASE ~Collides(r.email, u) /\ Put(q, u, r, next)
  <2>1. users' = [users EXCEPT ![u] = r]
    BY <1>6 DEF Put
  <2>2. users'[u] = r /\ \A o \in User \ {u} : users'[o] = users[o]
    BY <1>2, <2>1 DEF Table
  <2>3. next \in Asking /\ SoundIn(next, users')
    BY <1>2, <1>3, <2>2, SavedIsSound DEF next
  <2>4. Table'
    BY <1>1, <1>2, <1>3, <1>6, <2>3, PutMoves
  <2>5. RowsStay
    BY <1>2, <1>3, <2>2 DEF RowsStay
  <2>6. ChangesHaveReasons
    <3> SUFFICES ASSUME NEW o \in User, NEW c \in Column, users[o] \in Row,
                        users'[o][c] # users[o][c]
                 PROVE  o = u /\ (c \in req[q].asked \/ req[q].overtaken)
      BY <1>1 DEF ChangesHaveReasons, At, u
    <3>1. o = u
      BY <2>2
    <3>2. req[q].held[c] # users[u][c]
      BY <1>3, <2>2, <3>1
    <3> QED BY <1>2, <3>1, <3>2
  <2> QED BY <2>4, <2>5, <2>6 DEF Kept
<1> QED BY <1>4, <1>5, <1>6

LEMMA DeleteFindKeeps ==
  ASSUME Table, NEW q \in Request, NEW u \in User, DeleteFind(q, u)
  PROVE  Kept
<1> DEFINE r == [Idle EXCEPT !.pc = "softDelete", !.user = u]
<1>1. users[u] \in Row /\ Become(q, r) /\ users' = users /\ faults' \in 0..MaxFaults
  BY DEF DeleteFind, Alive, Table
<1>2. r \in Asking /\ SoundIn(r, users)
  BY <1>1 DEF Idle, Asking, Waiting, SoundIn, WellFormedIn, TrueCopyIn, Inserting,
     Editing, Reading, Changing
<1> HIDE DEF r
<1> QED BY <1>1, <1>2, BecomeMoves, NothingWritten DEF Kept

LEMMA SoftDeleteKeeps ==
  ASSUME Table, NEW q \in Request, SoftDelete(q)
  PROVE  Kept
<1> DEFINE u == req[q].user
           r == [users[u] EXCEPT !.deleted = TRUE]
           next == [Idle EXCEPT !.pc = "saved", !.user = u]
<1>1. req[q].pc = "softDelete" /\ Put(q, u, r, next) /\ faults' = faults
  BY DEF SoftDelete, At
<1>2. u \in User /\ users[u] \in Row
  BY <1>1 DEF Table, SoundIn, WellFormedIn, Changing
<1>3. /\ r \in Row /\ r.deleted = TRUE
      /\ \A c \in Column : r[c] = users[u][c]
      /\ r.email = users[u].email
  BY <1>2 DEF Row, Column
<1>4. ~Collides(r.email, u)
  BY <1>2, <1>3, NoUserRowAssumption DEF Collides, Table, EmailsUnique
<1> HIDE DEF u, r, next
<1>5. users' = [users EXCEPT ![u] = r]
  BY <1>1 DEF Put
<1>6. users'[u] = r /\ \A o \in User \ {u} : users'[o] = users[o]
  BY <1>2, <1>5 DEF Table
<1>7. next \in Asking /\ SoundIn(next, users')
  BY <1>2, <1>3, <1>6, SavedIsSound DEF next
<1>8. Table'
  BY <1>1, <1>2, <1>3, <1>4, <1>7, PutMoves
<1>9. RowsStay /\ ChangesHaveReasons
  BY <1>3, <1>6 DEF RowsStay, ChangesHaveReasons
<1> QED BY <1>8, <1>9 DEF Kept

LEMMA FaultIsBounded ==
  ASSUME Table, Fault
  PROVE  faults' \in 0..MaxFaults
BY UserAssumption, SMT DEF Fault, Table

LEMMA DieKeeps ==
  ASSUME Table, NEW q \in Request, Die(q)
  PROVE  Kept
<1>1. users' = users /\ Become(q, Idle) /\ faults' \in 0..MaxFaults
  BY FaultIsBounded DEF Die
<1> QED BY <1>1, IdleIsSound, BecomeMoves, NothingWritten DEF Kept

\* All that requests of UserController and CreateUserUseCase do to the table.
LEMMA StoreMovesKeep ==
  ASSUME Table, NEW q \in Request, UserStart(q) \/ UserStep(q)
  PROVE  Kept
<1>1. CASE UserStart(q)
  BY <1>1, RegisterKeeps, UpdateFindKeeps, DeleteFindKeeps DEF UserStart
<1>2. CASE UserStep(q)
  BY <1>2, InsertKeeps, EmailCheckKeeps, LoadKeeps, WriteKeeps, SoftDeleteKeeps DEF UserStep
<1> QED BY <1>1, <1>2

-----------------------------------------------------------------------------
(* What the requests of the two controllers do besides *)

LEMMA GetUserKeeps ==
  ASSUME Table, NEW q \in Request, NEW u \in User, GetUser(q, u)
  PROVE  Kept
<1> DEFINE r == [Idle EXCEPT !.pc = "fetch", !.user = u]
<1>1. users' = users /\ Become(q, r)
  BY DEF GetUser
<1>2. faults' \in 0..MaxFaults
  BY FaultIsBounded DEF GetUser, Table
<1>3. r \in Asking /\ SoundIn(r, users)
  BY DEF Idle, Asking, Waiting, SoundIn, WellFormedIn, TrueCopyIn, Inserting,
     Editing, Reading, Changing
<1> HIDE DEF r
<1> QED BY <1>1, <1>2, <1>3, BecomeMoves, NothingWritten DEF Kept

LEMMA FetchKeeps ==
  ASSUME Table, NEW q \in Request, Fetch(q)
  PROVE  Kept
<1>1. /\ users' = users /\ faults' \in 0..MaxFaults
      /\ req[q].pc = "fetch" /\ req[q].user \in User
  BY DEF Fetch, Table, At, SoundIn, WellFormedIn
<1>2. CASE ~Alive(req[q].user)
  BY <1>1, <1>2, IdleIsSound, BecomeMoves, NothingWritten DEF Kept, Fetch
<1>3. CASE Alive(req[q].user)
  <2> DEFINE row == users[req[q].user]
             r == [req[q] EXCEPT !.pc = "fill", !.held = row, !.overtaken = FALSE]
  <2>1. row \in Row /\ ~row.deleted
    BY <1>1, <1>3 DEF Alive, Table
  <2>2. r \in Asking
    BY <2>1 DEF Table, Asking, Waiting
  <2>3. req' = [req EXCEPT ![q].pc = "fill", ![q].held = row, ![q].overtaken = FALSE]
    BY <1>3 DEF Fetch
  <2>4. req' = [req EXCEPT ![q] = r]
    BY <2>3 DEF Table, Asking
  <2>5. r.pc = "fill" /\ r.held = row /\ r.user = req[q].user /\ r.overtaken = FALSE
    BY DEF Table, Asking
  <2> HIDE DEF r
  <2>6. SoundIn(r, users)
    BY <1>1, <2>1, <2>5 DEF SoundIn, WellFormedIn, TrueCopyIn, Inserting, Editing, Reading, Changing
  <2> QED BY <1>1, <2>2, <2>4, <2>6, OneMoves, NothingWritten DEF Kept
<1> QED BY <1>2, <1>3


LEMMA FillKeeps ==
  ASSUME Table, NEW q \in Request, Become(q, Idle), users' = users,
         faults' = faults \/ Fault
  PROVE  Kept
<1>1. faults' \in 0..MaxFaults
  BY FaultIsBounded DEF Table
<1> QED BY <1>1, IdleIsSound, BecomeMoves, NothingWritten DEF Kept

LEMMA SignInKeeps ==
  ASSUME Table, NEW q \in Request, NEW u \in User, Alive(u),
         Become(q, [Idle EXCEPT !.pc = "sign", !.user = u, !.held = users[u]]),
         users' = users, faults' = faults
  PROVE  Kept
<1> DEFINE r == [Idle EXCEPT !.pc = "sign", !.user = u, !.held = users[u]]
<1>1. users[u] \in Row /\ ~users[u].deleted
  BY DEF Alive, Table
<1>2. r \in Asking /\ r.pc = "sign" /\ r.user = u /\ r.held = users[u]
  BY <1>1 DEF Idle, Asking, Waiting
<1>3. Become(q, r)
  OBVIOUS
<1> HIDE DEF r
<1>4. SoundIn(r, users)
  BY <1>1, <1>2 DEF SoundIn, WellFormedIn, TrueCopyIn, Inserting, Editing, Reading, Changing
<1>5. faults' \in 0..MaxFaults
  BY DEF Table
<1> QED BY <1>2, <1>3, <1>4, <1>5, BecomeMoves, NothingWritten DEF Kept

LEMMA GoogleCallbackKeeps ==
  ASSUME Table, NEW q \in Request, GoogleCallback(q)
  PROVE  Kept
<1>1. users' = users /\ faults' = faults /\ faults' \in 0..MaxFaults
  BY DEF GoogleCallback, Table
<1>2. PICK s \in Spelling :
        \/ \E u \in FoundByEmail(s) :
             Become(q, [Idle EXCEPT !.pc = "sign", !.user = u, !.held = users[u]])
        \/ Become(q, [Idle EXCEPT !.pc = "insertGoogle", !.held = NewRow(s, Generated)])
  BY DEF GoogleCallback, ProfileEmail
<1>3. ASSUME NEW u \in FoundByEmail(s),
             Become(q, [Idle EXCEPT !.pc = "sign", !.user = u, !.held = users[u]])
      PROVE  Kept
  BY <1>1, <1>3, SignInKeeps DEF FoundByEmail
<1>4. CASE Become(q, [Idle EXCEPT !.pc = "insertGoogle", !.held = NewRow(s, Generated)])
  <2> DEFINE r == [Idle EXCEPT !.pc = "insertGoogle", !.held = NewRow(s, Generated)]
  <2>1. NewRow(s, Generated) \in Row /\ ~NewRow(s, Generated).deleted
    BY NewRowIsRow
  <2>2. r \in Asking /\ r.pc = "insertGoogle" /\ r.held = NewRow(s, Generated)
    BY <2>1 DEF Idle, Asking, Waiting
  <2>3. Become(q, r)
    BY <1>4
  <2> HIDE DEF r
  <2>4. SoundIn(r, users)
    BY <2>1, <2>2 DEF SoundIn, WellFormedIn, TrueCopyIn, Inserting, Editing, Reading, Changing
  <2> QED BY <1>1, <2>2, <2>3, <2>4, BecomeMoves, NothingWritten DEF Kept
<1> QED BY <1>2, <1>3, <1>4

LEMMA InsertGoogleKeeps ==
  ASSUME Table, NEW q \in Request, InsertGoogle(q)
  PROVE  Kept
<1>1. req[q].pc = "insertGoogle" /\ faults' = faults
  BY DEF InsertGoogle, At
<1> DEFINE r(u) == [Idle EXCEPT !.pc = "sign", !.user = u, !.held = req[q].held]
<1>2. PICK u \in User : Inserted(q, u, r(u))
  BY DEF InsertGoogle
<1>3. req[q].held \in Row /\ ~req[q].held.deleted
  BY <1>1 DEF Table, SoundIn, WellFormedIn, Inserting
<1>4. r(u) \in Asking /\ r(u).pc = "sign" /\ r(u).user = u /\ r(u).held = req[q].held
  BY <1>3 DEF Idle, Asking, Waiting
<1> HIDE DEF r
<1>5. users'[u] = req[q].held => SoundIn(r(u), users')
  BY <1>3, <1>4 DEF SoundIn, WellFormedIn, TrueCopyIn, Inserting, Editing, Reading, Changing
<1>6. req[q].pc \in Inserting
  BY <1>1 DEF Inserting
<1> QED BY <1>1, <1>2, <1>4, <1>5, <1>6, InsertedKeeps

\* Steps of the cache and of the tokens alone.
LEMMA RequestsRestKeep ==
  ASSUME Table, UNCHANGED <<users, req, faults>>
  PROVE  Kept
<1>1. Table'
  BY DEF Table, SoundIn, WellFormedIn, TrueCopyIn, EmailsUnique
<1> QED BY <1>1, NothingWritten DEF Kept

LEMMA AnswerKeeps ==
  ASSUME Table, NEW q \in Request, Answer(q)
  PROVE  Kept
<1>1. CASE Fill(q) \/ Invalidate(q) \/ InvalidateFails(q) \/ Sign(q)
  BY <1>1, FillKeeps DEF Fill, Invalidate, InvalidateFails, Sign
<1>2. CASE Fetch(q) \/ InsertGoogle(q)
  BY <1>2, FetchKeeps, InsertGoogleKeeps
<1> QED BY <1>1, <1>2 DEF Answer

LEMMA NextKeeps ==
  ASSUME Table, [AccountNext]_accountVars
  PROVE  Kept
<1>1. ASSUME NEW q \in Request, StoreMoves(q)
      PROVE  Kept
  BY <1>1, StoreMovesKeep DEF StoreMoves
<1>2. ASSUME NEW q \in Request, Answer(q)
      PROVE  Kept
  BY <1>2, AnswerKeeps
<1>3. ASSUME NEW q \in Request, GoogleCallback(q)
      PROVE  Kept
  BY <1>3, GoogleCallbackKeeps
<1>4. ASSUME NEW q \in Request, DieAnywhere(q)
      PROVE  Kept
  BY <1>4, DieKeeps DEF DieAnywhere
<1>5. ASSUME NEW q \in Request, NEW u \in User, Login(q, u)
      PROVE  Kept
  BY <1>5, SignInKeeps DEF Login
<1>6. ASSUME NEW q \in Request, NEW u \in Viewed, GetUser(q, u)
      PROVE  Kept
  BY <1>6, GetUserKeeps, AccountAssumption
<1>7. CASE \/ \E u \in User : Expire(u)
           \/ \E c \in tokens : TokenExpires(c)
           \/ UNCHANGED accountVars
  <2>1. UNCHANGED <<users, req, faults>>
    BY <1>7 DEF Expire, TokenExpires, accountVars
  <2> QED BY <2>1, RequestsRestKeep
<1> QED BY <1>1, <1>2, <1>3, <1>4, <1>5, <1>6, <1>7 DEF AccountNext

LEMMA InitTable == AccountInit => Table
<1> SUFFICES ASSUME AccountInit PROVE Table
  OBVIOUS
<1>1. /\ users = [u \in User |-> NoRow] /\ req = [q \in Request |-> Idle]
      /\ faults \in 0..MaxFaults
  BY UserAssumption DEF AccountInit, UserInit
<1> QED BY <1>1, IdleIsSound DEF Table, EmailsUnique

LEMMA TableAlways == AccountSpec => []Table
<1>1. Table /\ [AccountNext]_accountVars => Table'
  BY NextKeeps DEF Kept
<1> QED BY <1>1, InitTable, PTL DEF AccountSpec

\* No update, however old the object it saves, undoes a deletion.
THEOREM DeletionsLast == AccountSpec => DeletedForGood
<1>1. Table /\ [AccountNext]_accountVars =>
        [\A u \in User : users[u] # NoRow /\ users[u].deleted
                         => users'[u] # NoRow /\ users'[u].deleted]_users
  BY NextKeeps, NoUserRowAssumption DEF Table, Kept, RowsStay
<1> QED BY <1>1, TableAlways, PTL DEF AccountSpec, DeletedForGood

\* A column that its caller did not name changes only under a request whose copy
\* was overtaken between its find and its write.
THEOREM LostUpdatesNeedOverlap == AccountSpec => UnaskedOnlyFromOldCopies
<1>1. Table /\ [AccountNext]_accountVars =>
        [\A u \in User, c \in Column :
           users[u] # NoRow /\ users'[u][c] # users[u][c] =>
             \E q \in Request :
               At(q, "write") /\ req[q].user = u /\ (c \in req[q].asked \/ req[q].overtaken)]_users
  BY NextKeeps DEF Table, Kept, ChangesHaveReasons
<1> QED BY <1>1, TableAlways, PTL DEF AccountSpec, UnaskedOnlyFromOldCopies

-----------------------------------------------------------------------------
(* The cache and the tokens *)

Outside ==
  /\ cached \in [User -> Row \union {NoRow}]
  /\ late \subseteq User
  /\ tokens \subseteq Claims
  /\ StaleUserOnlyIfRaced
  /\ TokensNameAccounts

Saving(u) == \E q \in Request : At(q, "saved") /\ req[q].user = u

\* A request moves without the others forgetting what they are at.
OthersStay(q) ==
  \A o \in Request \ {q} :
    req'[o].pc = req[o].pc /\ req'[o].user = req[o].user /\ req'[o].held = req[o].held

LEMMA BecomeLeavesOthers ==
  ASSUME Table, NEW q \in Request, NEW r, Become(q, r)
  PROVE  OthersStay(q) /\ req'[q] = r
BY DEF Table, Become, OthersStay

LEMMA PutLeavesOthers ==
  ASSUME Table, NEW q \in Request, NEW u, NEW r, NEW next, Put(q, u, r, next)
  PROVE  OthersStay(q) /\ req'[q] = next
BY DEF Table, Put, OthersStay, Asking

\* A request that writes a row that was there is at its invalidation next; whoever
\* was there already stays there.
Writes ==
  /\ \A u \in User : users[u] \in Row /\ users'[u] # users[u] => Saving(u)'
  /\ \A u \in User : Saving(u) => Saving(u)'

LEMMA QuietMoveWrites ==
  ASSUME Table, NEW q \in Request, OthersStay(q), ~At(q, "saved"),
         \A u \in User : users[u] \in Row => users'[u] = users[u]
  PROVE  Writes
BY DEF OthersStay, Writes, Saving, At

LEMMA InsertedWrites ==
  ASSUME Table, NEW q \in Request, NEW u \in User, NEW next, Inserted(q, u, next),
         ~At(q, "saved")
  PROVE  Writes
<1>1. OthersStay(q)
  BY BecomeLeavesOthers, PutLeavesOthers DEF Inserted
<1>2. \A o \in User : users[o] \in Row => users'[o] = users[o]
  BY NoUserRowAssumption DEF Inserted, Put, Table
<1> QED BY <1>1, <1>2, QuietMoveWrites

LEMMA SavingPutWrites ==
  ASSUME Table, NEW q \in Request, NEW u \in User, NEW r,
         Put(q, u, r, [Idle EXCEPT !.pc = "saved", !.user = u]), ~At(q, "saved")
  PROVE  Writes
<1> DEFINE next == [Idle EXCEPT !.pc = "saved", !.user = u]
<1>0. next.pc = "saved" /\ next.user = u /\ Put(q, u, r, next)
  BY DEF Idle
<1> HIDE DEF next
<1>1. OthersStay(q) /\ req'[q].pc = "saved" /\ req'[q].user = u
  BY <1>0, PutLeavesOthers
<1>2. \A o \in User \ {u} : users'[o] = users[o]
  BY <1>0 DEF Put, Table
<1>3. Saving(u)'
  BY <1>1 DEF Saving, At
<1>4. \A o \in User : Saving(o) => Saving(o)'
  BY <1>1 DEF Saving, At, OthersStay
<1> QED BY <1>2, <1>3, <1>4 DEF Writes

LEMMA StoreMovesWrite ==
  ASSUME Table, NEW q \in Request, UserStart(q) \/ UserStep(q)
  PROVE  Writes
<1>1. CASE Register(q) \/ \E u \in User : UpdateFind(q, u) \/ DeleteFind(q, u)
  <2>1. users' = users /\ ~At(q, "saved")
    BY <1>1 DEF Register, UpdateFind, DeleteFind, At
  <2>2. OthersStay(q)
    BY <1>1, BecomeLeavesOthers DEF Register, UpdateFind, DeleteFind
  <2> QED BY <2>1, <2>2, QuietMoveWrites
<1>2. CASE Insert(q)
  <2>1. ~At(q, "saved") /\ \E u \in User : Inserted(q, u, Idle)
    BY <1>2 DEF Insert, At
  <2> QED BY <2>1, InsertedWrites
<1>3. CASE EmailCheck(q) \/ Load(q)
  <2>1. users' = users /\ ~At(q, "saved")
    BY <1>3 DEF EmailCheck, Load, At
  <2>2. OthersStay(q)
    BY <1>3 DEF EmailCheck, Load, Become, OthersStay, Table
  <2> QED BY <2>1, <2>2, QuietMoveWrites
<1>4. CASE Write(q)
  <2> DEFINE u == req[q].user
             r == SavedRow(q)
  <2>1. u \in User /\ ~At(q, "saved")
    BY <1>4 DEF Write, At, Table, SoundIn, WellFormedIn, Editing
  <2>2. \/ Become(q, Idle) /\ users' = users
        \/ Put(q, u, r, [Idle EXCEPT !.pc = "saved", !.user = u])
    BY <1>4 DEF Write
  <2> HIDE DEF u, r
  <2>3. CASE Become(q, Idle) /\ users' = users
    BY <2>1, <2>3, BecomeLeavesOthers, QuietMoveWrites
  <2> QED BY <2>1, <2>2, <2>3, SavingPutWrites
<1>5. CASE SoftDelete(q)
  <2> DEFINE u == req[q].user
             r == [users[u] EXCEPT !.deleted = TRUE]
  <2>1. u \in User /\ ~At(q, "saved")
    BY <1>5 DEF SoftDelete, At, Table, SoundIn, WellFormedIn, Changing
  <2>2. Put(q, u, r, [Idle EXCEPT !.pc = "saved", !.user = u])
    BY <1>5 DEF SoftDelete
  <2> HIDE DEF u, r
  <2> QED BY <2>1, <2>2, SavingPutWrites
<1> QED BY <1>1, <1>2, <1>3, <1>4, <1>5 DEF UserStart, UserStep

\* Nothing but the table and the requests moves.
LEMMA WritesKeepOutside ==
  ASSUME Table, Kept, Outside, Writes, UNCHANGED outside
  PROVE  Outside'
<1>1. StaleUserOnlyIfRaced'
  <2> SUFFICES ASSUME NEW u \in User, cached[u] # NoRow, u \notin late
               PROVE  (cached[u] = users'[u] /\ Alive(u)') \/ Saving(u)'
    BY DEF StaleUserOnlyIfRaced, Saving, outside
  <2>1. CASE Saving(u)
    BY <2>1 DEF Writes
  <2>2. CASE cached[u] = users[u] /\ Alive(u)
    <3>1. users[u] \in Row
      BY <2>2 DEF Alive, Table
    <3>2. CASE users'[u] = users[u]
      BY <2>2, <3>2 DEF Alive
    <3>3. CASE users'[u] # users[u]
      BY <3>1, <3>3 DEF Writes
    <3> QED BY <3>2, <3>3
  <2> QED BY <2>1, <2>2 DEF Outside, StaleUserOnlyIfRaced, Saving
<1>2. TokensNameAccounts'
  <2> SUFFICES ASSUME NEW c \in tokens PROVE users'[c.sub] # NoRow
    BY DEF TokensNameAccounts, outside
  <2>1. c.sub \in User /\ users[c.sub] \in Row
    BY DEF Outside, TokensNameAccounts, Claims, Table
  <2> QED BY <2>1, NoUserRowAssumption DEF Kept, RowsStay
<1> QED BY <1>1, <1>2 DEF Outside, outside

\* The table rests, and so do the tokens: what becomes of the entries decides.
LEMMA EntriesKeepOutside ==
  ASSUME Table, Outside, users' = users, tokens' \subseteq tokens,
         cached' \in [User -> Row \union {NoRow}], late' \subseteq User,
         \A u \in User : cached'[u] # NoRow /\ u \notin late' =>
           (cached'[u] = users[u] /\ Alive(u)) \/ Saving(u)'
  PROVE  Outside'
<1>1. StaleUserOnlyIfRaced'
  BY DEF StaleUserOnlyIfRaced, Saving, Alive
<1>2. TokensNameAccounts' /\ tokens' \subseteq Claims
  BY DEF Outside, TokensNameAccounts
<1> QED BY <1>1, <1>2 DEF Outside

\* Nobody is saving u but requests that go on doing so, unless q was the one.
LEMMA OthersGoOnSaving ==
  ASSUME Table, NEW q \in Request, OthersStay(q), NEW u \in User, Saving(u),
         ~(At(q, "saved") /\ req[q].user = u)
  PROVE  Saving(u)'
BY DEF OthersStay, Saving, At

LEMMA FillKeepsOutside ==
  ASSUME Table, Outside, NEW q \in Request, Fill(q)
  PROVE  Outside'
<1> DEFINE v == req[q].user
           h == req[q].held
<1>1. /\ v \in User /\ h \in Row
      /\ ~req[q].overtaken => h = users[v] /\ ~h.deleted
  BY DEF Fill, At, Table, SoundIn, WellFormedIn, TrueCopyIn, Reading
<1>2. OthersStay(q) /\ ~At(q, "saved")
  BY BecomeLeavesOthers DEF Fill, At
<1>3. /\ users' = users /\ tokens' = tokens
      /\ cached' = [cached EXCEPT ![v] = h]
      /\ late' = IF req[q].overtaken THEN late \union {v} ELSE late \ {v}
  BY DEF Fill
<1> HIDE DEF v, h
<1>4. cached' \in [User -> Row \union {NoRow}] /\ late' \subseteq User
  BY <1>1, <1>3 DEF Outside
<1>5. ASSUME NEW u \in User, cached'[u] # NoRow, u \notin late'
      PROVE  (cached'[u] = users[u] /\ Alive(u)) \/ Saving(u)'
  <2>1. CASE u = v
    <3>1. cached'[u] = h /\ ~req[q].overtaken
      BY <1>1, <1>3, <1>5, <2>1 DEF Outside
    <3> QED BY <1>1, <2>1, <3>1, NoUserRowAssumption DEF Alive
  <2>2. CASE u # v
    <3>1. cached'[u] = cached[u] /\ u \notin late
      BY <1>1, <1>3, <1>5, <2>2 DEF Outside
    <3>2. (cached[u] = users[u] /\ Alive(u)) \/ Saving(u)
      BY <1>5, <3>1 DEF Outside, StaleUserOnlyIfRaced, Saving
    <3> QED BY <1>2, <3>1, <3>2, OthersGoOnSaving
  <2> QED BY <2>1, <2>2
<1> QED BY <1>3, <1>4, <1>5, EntriesKeepOutside

\* A request leaves "saved" with its entry gone, or with its user among the late.
LEMMA SavedEndsKeepOutside ==
  ASSUME Table, Outside, NEW q \in Request, Invalidate(q) \/ InvalidateFails(q) \/ DieAnywhere(q)
  PROVE  Outside'
<1> DEFINE v == req[q].user
<1>1. users' = users /\ tokens' = tokens /\ Become(q, Idle)
  BY DEF Invalidate, InvalidateFails, DieAnywhere, Die
<1>2. At(q, "saved") => v \in User
  BY DEF At, Table, SoundIn, WellFormedIn, Changing
<1>3. \/ /\ At(q, "saved") /\ cached' = [cached EXCEPT ![v] = NoRow] /\ late' = late \ {v}
      \/ /\ cached' = cached
         /\ late' = IF At(q, "saved") THEN late \union {v} ELSE late
  BY DEF Invalidate, InvalidateFails, DieAnywhere, LeftInCache
<1> HIDE DEF v
<1>4. cached' \in [User -> Row \union {NoRow}] /\ late' \subseteq User
  BY <1>2, <1>3 DEF Outside
<1>5. ASSUME NEW u \in User, cached'[u] # NoRow, u \notin late'
      PROVE  (cached'[u] = users[u] /\ Alive(u)) \/ Saving(u)'
  <2>1. /\ cached'[u] = cached[u] /\ u \notin late
        /\ ~(At(q, "saved") /\ v = u)
    BY <1>2, <1>3, <1>5 DEF Outside
  <2>2. (cached[u] = users[u] /\ Alive(u)) \/ Saving(u)
    BY <1>5, <2>1 DEF Outside, StaleUserOnlyIfRaced, Saving
  <2>3. Saving(u) => Saving(u)'
    BY <1>1, <2>1, BecomeLeavesOthers, OthersGoOnSaving DEF v
  <2> QED BY <2>1, <2>2, <2>3
<1> QED BY <1>1, <1>4, <1>5, EntriesKeepOutside

LEMMA ExpiryKeepsOutside ==
  ASSUME Table, Outside,
         (\E u \in User : Expire(u)) \/ (\E c \in tokens : TokenExpires(c))
  PROVE  Outside'
<1>1. users' = users /\ req' = req /\ late' = late /\ tokens' \subseteq tokens
  BY DEF Expire, TokenExpires
<1>2. /\ cached' \in [User -> Row \union {NoRow}]
      /\ \A u \in User : cached'[u] # NoRow => cached'[u] = cached[u]
  BY DEF Expire, TokenExpires, Outside
<1>3. \A u \in User : Saving(u)' = Saving(u)
  BY <1>1 DEF Saving, At
<1>4. ASSUME NEW u \in User, cached'[u] # NoRow, u \notin late'
      PROVE  (cached'[u] = users[u] /\ Alive(u)) \/ Saving(u)'
  BY <1>1, <1>2, <1>3, <1>4 DEF Outside, StaleUserOnlyIfRaced, Saving
<1> QED BY <1>1, <1>2, <1>4, EntriesKeepOutside DEF Outside

LEMMA SignKeepsOutside ==
  ASSUME Table, Outside, NEW q \in Request, Sign(q)
  PROVE  Outside'
<1> DEFINE c == Minted(q)
<1>1. /\ req[q].user \in User /\ users[req[q].user] \in Row /\ req[q].held \in Row
      /\ ~At(q, "saved")
  BY DEF Sign, At, Table, SoundIn, WellFormedIn, Reading
<1>2. c \in Claims /\ c.sub = req[q].user
  BY <1>1 DEF Minted, ClaimsOf, Claims, Row
<1>3. /\ users' = users /\ cached' = cached /\ late' = late
      /\ tokens' = tokens \union {c} /\ OthersStay(q)
  BY BecomeLeavesOthers DEF Sign
<1> HIDE DEF c
<1>4. TokensNameAccounts' /\ tokens' \subseteq Claims
  BY <1>1, <1>2, <1>3, NoUserRowAssumption DEF Outside, TokensNameAccounts
<1>5. \A u \in User : Saving(u) => Saving(u)'
  BY <1>1, <1>3, OthersGoOnSaving
<1>6. StaleUserOnlyIfRaced'
  BY <1>3, <1>5 DEF Outside, StaleUserOnlyIfRaced, Saving, Alive
<1> QED BY <1>3, <1>4, <1>6 DEF Outside

\* Requests that only read, and leave the table, the entries and the tokens alone.
LEMMA ReadsWrite ==
  ASSUME Table, NEW q \in Request,
         \/ Fetch(q) \/ GoogleCallback(q)
         \/ \E u \in User : Login(q, u) \/ GetUser(q, u)
  PROVE  Writes /\ UNCHANGED outside
<1>1. users' = users /\ ~At(q, "saved") /\ UNCHANGED outside
  BY DEF Fetch, GoogleCallback, Login, GetUser, At
<1>2. OthersStay(q)
  BY BecomeLeavesOthers
     DEF Fetch, GoogleCallback, Login, GetUser, OthersStay, Table
<1> QED BY <1>1, <1>2, QuietMoveWrites

LEMMA NextKeepsOutside ==
  ASSUME Table, Outside, [AccountNext]_accountVars
  PROVE  Outside'
<1>0. Kept
  BY NextKeeps
<1>1. ASSUME NEW q \in Request, StoreMoves(q)
      PROVE  Outside'
  BY <1>0, <1>1, StoreMovesWrite, WritesKeepOutside DEF StoreMoves, outside
<1>2. ASSUME NEW q \in Request,
             \/ Fetch(q) \/ GoogleCallback(q)
             \/ \E u \in User : Login(q, u) \/ GetUser(q, u)
      PROVE  Outside'
  BY <1>0, <1>2, ReadsWrite, WritesKeepOutside
<1>3. ASSUME NEW q \in Request, InsertGoogle(q)
      PROVE  Outside'
  <2>1. ~At(q, "saved") /\ UNCHANGED outside
    BY <1>3 DEF InsertGoogle, At
  <2>2. Writes
    BY <1>3, <2>1, InsertedWrites DEF InsertGoogle
  <2> QED BY <1>0, <2>1, <2>2, WritesKeepOutside
<1>4. ASSUME NEW q \in Request, Answer(q) \/ DieAnywhere(q)
      PROVE  Outside'
  BY <1>2, <1>3, <1>4, FillKeepsOutside, SavedEndsKeepOutside, SignKeepsOutside DEF Answer
<1>5. CASE (\E u \in User : Expire(u)) \/ (\E c \in tokens : TokenExpires(c))
  BY <1>5, ExpiryKeepsOutside
<1>6. CASE UNCHANGED accountVars
  BY <1>6 DEF accountVars, Outside, StaleUserOnlyIfRaced, TokensNameAccounts, Alive, At
<1>7. Viewed \subseteq User
  BY AccountAssumption
<1> QED BY <1>1, <1>2, <1>4, <1>5, <1>6, <1>7 DEF AccountNext

-----------------------------------------------------------------------------
(* The addresses that requests found free *)

\* No other user that the finds show has the address that the request holds.
KeepsItsAddress(q) ==
  /\ req[q].held \in Row
  /\ req[q].pc \in Inserting \union {"load", "write"}
  /\ req[q].pc \in Inserting => req[q].user = NoUser
  /\ ~InUse(req[q].held.email, req[q].user)

FreeAddresses == (\A q \in free : q \in Request) /\ \A q \in free : KeepsItsAddress(q)

\* Rows that change become deleted, or another address than any that is kept free.
LEMMA OthersKeepAddresses ==
  ASSUME Table, FreeAddresses, NEW q \in Request, OthersStay(q),
         \A o \in free' : o = q \/ o \in free,
         q \in free' => KeepsItsAddress(q)',
         \A o \in free' \ {q}, u \in User :
           users'[u] = users[u] \/ users'[u].deleted \/ users'[u].email # req[o].held.email
  PROVE  FreeAddresses'
<1>1. ASSUME NEW o \in free', o # q
      PROVE  o \in Request /\ KeepsItsAddress(o)'
  <2>1. o \in free /\ o \in Request /\ KeepsItsAddress(o)
    BY <1>1 DEF FreeAddresses
  <2>2. /\ req'[o].pc = req[o].pc /\ req'[o].user = req[o].user
        /\ req'[o].held = req[o].held
    BY <1>1, <2>1 DEF OthersStay
  <2>3. \A u \in User : users'[u] = users[u] \/ users'[u].deleted
                        \/ users'[u].email # req[o].held.email
    BY <1>1
  <2>4. ~InUse(req[o].held.email, req[o].user)'
    BY <2>1, <2>2, <2>3 DEF KeepsItsAddress, InUse, Alive
  <2> QED BY <2>1, <2>2, <2>4 DEF KeepsItsAddress
<1> QED BY <1>1 DEF FreeAddresses

\* A request that is not about to store anything is none of them.
LEMMA NotStoring ==
  ASSUME FreeAddresses, NEW q \in Request,
         req[q].pc \notin Inserting \union {"load", "write"}
  PROVE  q \notin free
BY DEF FreeAddresses, KeepsItsAddress

\* An address that was looked up in its stored form, and not found.
LEMMA NotFoundIsFree ==
  ASSUME Table, NEW s \in Spelling, s = LowerCase[s], FoundByEmail(s) = {}, NEW u
  PROVE  ~InUse(LowerCase[s], u)
BY DEF InUse, FoundByEmail, Alive

LEMMA RegisterKeepsAddresses ==
  ASSUME Table, FreeAddresses, NEW q \in Request, Register(q) \/ GoogleCallback(q)
  PROVE  FreeAddresses'
<1>1. req \in [Request -> Asking] /\ users' = users /\ q \notin free
  BY NotStoring DEF Table, Register, GoogleCallback, At, Inserting
<1>2. OthersStay(q)
  BY BecomeLeavesOthers DEF Register, GoogleCallback
<1>3. CASE free' = free
  BY <1>1, <1>2, <1>3, OthersKeepAddresses
<1>4. ASSUME NEW s \in Spelling, NEW w \in Password \union {Generated},
             NEW pc \in Inserting,
             Become(q, [Idle EXCEPT !.pc = pc, !.held = NewRow(s, w)]),
             free' = Checks(q, s), FoundByEmail(s) = {}
      PROVE  FreeAddresses'
  <2>1. /\ req'[q].pc = pc /\ req'[q].user = NoUser /\ req'[q].held = NewRow(s, w)
        /\ NewRow(s, w) \in Row /\ NewRow(s, w).email = LowerCase[s]
    BY <1>1, <1>4, NewRowIsRow DEF Become, Idle, NewRow
  <2>2. q \in free' => s = LowerCase[s]
    BY <1>1, <1>4 DEF Checks
  <2>3. q \in free' => ~InUse(req[q].held.email, req[q].user)'
    <3>1. ASSUME s = LowerCase[s] PROVE ~InUse(LowerCase[s], NoUser)
      BY <1>4, <3>1, NotFoundIsFree
    <3> QED BY <1>1, <2>1, <2>2, <3>1 DEF InUse, Alive
  <2>4. q \in free' => KeepsItsAddress(q)'
    BY <2>1, <2>3 DEF KeepsItsAddress
  <2>5. \A o \in free' : o = q \/ o \in free
    BY <1>4 DEF Checks
  <2> QED BY <1>1, <1>2, <2>4, <2>5, OthersKeepAddresses
<1>5. CASE Register(q)
  <2>1. PICK s \in Spelling, w \in Password :
          /\ ~EmailTaken(s)
          /\ Become(q, [Idle EXCEPT !.pc = "insert", !.held = NewRow(s, w)])
          /\ free' = Checks(q, s)
    BY <1>5 DEF Register
  <2> QED BY <1>4, <2>1 DEF EmailTaken, Inserting
<1>6. CASE GoogleCallback(q)
  <2>1. \/ free' = free
        \/ \E s \in Spelling :
             /\ FoundByEmail(s) = {}
             /\ Become(q, [Idle EXCEPT !.pc = "insertGoogle", !.held = NewRow(s, Generated)])
             /\ free' = Checks(q, s)
    BY <1>6 DEF GoogleCallback, ProfileEmail
  <2> QED BY <1>3, <1>4, <2>1 DEF Inserting
<1> QED BY <1>5, <1>6

\* A user keeps its own address.
LEMMA OwnAddressIsFree ==
  ASSUME Table, NEW u \in User, users[u] \in Row
  PROVE  ~InUse(users[u].email, u)
BY NoUserRowAssumption DEF Table, EmailsUnique, InUse, Alive

LEMMA UpdateFindKeepsAddresses ==
  ASSUME Table, FreeAddresses, NEW q \in Request, NEW u \in User, UpdateFind(q, u)
  PROVE  FreeAddresses'
<1>1. /\ req \in [Request -> Asking] /\ users' = users /\ q \notin free
      /\ users[u] \in Row
  BY NotStoring DEF Table, UpdateFind, Alive, At, Inserting
<1>2. OthersStay(q)
  BY BecomeLeavesOthers DEF UpdateFind
<1>3. PICK s \in Spelling \union {NoSpelling}, w \in Password \union {NoPassword} :
        Become(q, [Idle EXCEPT
          !.pc = IF s \in {NoSpelling, users[u].email} THEN "load" ELSE "emailCheck",
          !.user = u, !.spelling = IF s = users[u].email THEN NoSpelling ELSE s,
          !.held = Edited(Reconstituted(users[u]), s, w),
          !.asked = {c \in Column : IF c = "email" THEN s # NoSpelling ELSE w # NoPassword}])
  BY DEF UpdateFind
<1>4. /\ req'[q].pc = IF s \in {NoSpelling, users[u].email} THEN "load" ELSE "emailCheck"
      /\ req'[q].user = u /\ req'[q].held = Edited(users[u], s, w)
  BY <1>1, <1>3 DEF Become, Idle, Reconstituted
<1>5. /\ Edited(users[u], s, w) \in Row
      /\ Edited(users[u], s, w).email = IF s = NoSpelling THEN users[u].email ELSE LowerCase[s]
  BY <1>1, EditedIsRow
<1>6. LowerCase[users[u].email] = users[u].email
  BY <1>1, UserAssumption DEF Row, Email
<1>7. /\ q \in free' => req'[q].pc = "load"
      /\ \A o \in free' : o = q \/ o \in free
  BY <1>1 DEF UpdateFind
<1>8. ASSUME q \in free' PROVE KeepsItsAddress(q)'
  <2>1. req'[q].held.email = users[u].email
    BY <1>4, <1>5, <1>6, <1>7, <1>8
  <2>2. ~InUse(req[q].held.email, req[q].user)'
    BY <1>1, <1>4, <2>1, OwnAddressIsFree DEF InUse, Alive
  <2> QED BY <1>4, <1>5, <1>7, <1>8, <2>2 DEF KeepsItsAddress, Inserting
<1> QED BY <1>1, <1>2, <1>7, <1>8, OthersKeepAddresses

LEMMA EmailCheckKeepsAddresses ==
  ASSUME Table, FreeAddresses, NEW q \in Request, EmailCheck(q)
  PROVE  FreeAddresses'
<1>1. /\ req \in [Request -> Asking] /\ users' = users /\ q \notin free
      /\ req[q].pc = "emailCheck"
  BY NotStoring DEF Table, EmailCheck, At, Inserting
<1>2. CASE Become(q, Idle) /\ free' = free
  BY <1>1, <1>2, BecomeLeavesOthers, OthersKeepAddresses
<1>3. CASE /\ ~EmailTaken(req[q].spelling)
           /\ req' = [req EXCEPT ![q].pc = "load", ![q].spelling = NoSpelling]
           /\ free' = Checks(q, req[q].spelling)
  <2> DEFINE s == req[q].spelling
  <2>1. /\ req'[q].pc = "load" /\ req'[q].user = req[q].user /\ req'[q].held = req[q].held
        /\ OthersStay(q)
    BY <1>1, <1>3 DEF Asking, OthersStay
  <2>2. req[q].held \in Row /\ req[q].held.email = LowerCase[s]
    BY <1>1 DEF Table, SoundIn, WellFormedIn, Editing
  <2>3. /\ q \in free' => s = LowerCase[s]
        /\ \A o \in free' : o = q \/ o \in free
    BY <1>1, <1>3 DEF Checks
  <2>4. FoundByEmail(s) = {}
    BY <1>3 DEF EmailTaken
  <2> HIDE DEF s
  <2>5. ASSUME s = LowerCase[s] PROVE ~InUse(s, req[q].user)
    BY <2>4, <2>5 DEF InUse, FoundByEmail, Alive
  <2>6. q \in free' => ~InUse(req[q].held.email, req[q].user)'
    BY <1>1, <2>1, <2>2, <2>3, <2>5 DEF InUse, Alive
  <2>7. q \in free' => KeepsItsAddress(q)'
    BY <2>1, <2>2, <2>6 DEF KeepsItsAddress, Inserting
  <2> QED BY <1>1, <2>1, <2>3, <2>7, OthersKeepAddresses
<1> QED BY <1>2, <1>3 DEF EmailCheck

LEMMA LoadKeepsAddresses ==
  ASSUME Table, FreeAddresses, NEW q \in Request, Load(q)
  PROVE  FreeAddresses'
<1>1. /\ req \in [Request -> Asking] /\ users' = users /\ free' = free
      /\ req[q].pc = "load"
  BY DEF Table, Load, At
<1>2. /\ req'[q].pc = "write" /\ req'[q].user = req[q].user /\ req'[q].held = req[q].held
      /\ OthersStay(q)
  BY <1>1 DEF Load, Asking, OthersStay
<1>3. q \in free => KeepsItsAddress(q)'
  BY <1>1, <1>2 DEF FreeAddresses, KeepsItsAddress, InUse, Alive, Inserting
<1> QED BY <1>1, <1>2, <1>3, OthersKeepAddresses

\* A row is stored: whoever had found its address free no longer has.
LEMMA StoredKeepsAddresses ==
  ASSUME Table, FreeAddresses, NEW q \in Request, NEW u \in User, NEW r, NEW next,
         Put(q, u, r, next), free' = FreeWithout(q, r.email)
  PROVE  FreeAddresses'
<1>1. OthersStay(q)
  BY PutLeavesOthers
<1>2. \A v \in User : users'[v] = users[v] \/ users'[v] = r
  BY DEF Put, Table
<1>3. /\ q \notin free'
      /\ \A o \in free' : o \in free /\ req[o].held.email # r.email
  BY DEF FreeWithout
<1> QED BY <1>1, <1>2, <1>3, OthersKeepAddresses

LEMMA WriteKeepsAddresses ==
  ASSUME Table, FreeAddresses, NEW q \in Request,
         Write(q) \/ \E u \in User, next \in Asking : Inserted(q, u, next)
  PROVE  FreeAddresses'
<1>1. ASSUME Become(q, Idle), users' = users, free' = free \ {q}
      PROVE  FreeAddresses'
  BY <1>1, BecomeLeavesOthers, OthersKeepAddresses
<1>2. CASE Write(q)
  <2>1. req[q].user \in User
    BY <1>2 DEF Write, At, Table, SoundIn, WellFormedIn, Editing
  <2> QED BY <1>1, <1>2, <2>1, StoredKeepsAddresses DEF Write
<1>3. ASSUME NEW u \in User, NEW next \in Asking, Inserted(q, u, next)
      PROVE  FreeAddresses'
  BY <1>1, <1>3, StoredKeepsAddresses DEF Inserted
<1> QED BY <1>2, <1>3

LEMMA SoftDeleteKeepsAddresses ==
  ASSUME Table, FreeAddresses, NEW q \in Request, SoftDelete(q)
  PROVE  FreeAddresses'
<1> DEFINE u == req[q].user
           r == [users[u] EXCEPT !.deleted = TRUE]
<1>1. u \in User /\ users[u] \in Row /\ q \notin free
  BY NotStoring DEF SoftDelete, At, Table, SoundIn, WellFormedIn, Changing, Inserting
<1>2. r.deleted = TRUE
  BY <1>1 DEF Row
<1>3. free' = free /\ Put(q, u, r, [Idle EXCEPT !.pc = "saved", !.user = u])
  BY DEF SoftDelete
<1> HIDE DEF u, r
<1>4. OthersStay(q)
  BY <1>1, <1>3, PutLeavesOthers
<1>5. \A v \in User : users'[v] = users[v] \/ users'[v] = r
  BY <1>3 DEF Put, Table
<1> QED BY <1>1, <1>2, <1>3, <1>4, <1>5, OthersKeepAddresses

\* What neither looks an address up nor stores one.
LEMMA RestKeepsAddresses ==
  ASSUME Table, FreeAddresses, NEW q \in Request,
         \/ \E u \in User : DeleteFind(q, u) \/ Login(q, u) \/ GetUser(q, u)
         \/ Fetch(q) \/ Fill(q) \/ Invalidate(q) \/ InvalidateFails(q) \/ Sign(q)
         \/ DieAnywhere(q)
  PROVE  FreeAddresses'
<1>1. users' = users /\ OthersStay(q)
  <2>1. users' = users
    BY DEF DeleteFind, Login, GetUser, Fetch, Fill, Invalidate, InvalidateFails, Sign,
       DieAnywhere, Die
  <2>2. CASE Fetch(q)
    BY <2>2, BecomeLeavesOthers DEF Fetch, OthersStay, Table
  <2>3. CASE ~Fetch(q)
    BY <2>3, BecomeLeavesOthers
       DEF DeleteFind, Login, GetUser, Fill, Invalidate, InvalidateFails, Sign,
           DieAnywhere, Die
  <2> QED BY <2>1, <2>2, <2>3
<1>2. CASE DieAnywhere(q)
  <2>1. free' = free \ {q}
    BY <1>2 DEF DieAnywhere, Die
  <2> QED BY <1>1, <2>1, OthersKeepAddresses
<1>3. CASE ~DieAnywhere(q)
  <2>1. free' = free
    BY <1>3 DEF DeleteFind, Login, GetUser, Fetch, Fill, Invalidate, InvalidateFails, Sign,
       outside
  <2>2. req[q].pc \notin Inserting \union {"load", "write"}
    BY <1>3 DEF DeleteFind, Login, GetUser, Fetch, Fill, Invalidate, InvalidateFails, Sign,
       At, Inserting
  <2> QED BY <1>1, <2>1, <2>2, NotStoring, OthersKeepAddresses
<1> QED BY <1>2, <1>3

LEMMA NextKeepsAddresses ==
  ASSUME Table, FreeAddresses, [AccountNext]_accountVars
  PROVE  FreeAddresses'
<1>1. ASSUME NEW q \in Request, StoreMoves(q)
      PROVE  FreeAddresses'
  BY <1>1, RegisterKeepsAddresses, UpdateFindKeepsAddresses, RestKeepsAddresses,
     WriteKeepsAddresses, EmailCheckKeepsAddresses, LoadKeepsAddresses,
     SoftDeleteKeepsAddresses, IdleIsSound
     DEF StoreMoves, UserStart, UserStep, Insert
<1>2. ASSUME NEW q \in Request, InsertGoogle(q)
      PROVE  FreeAddresses'
  <2>1. PICK u \in User :
          Inserted(q, u, [Idle EXCEPT !.pc = "sign", !.user = u, !.held = req[q].held])
    BY <1>2 DEF InsertGoogle
  <2>2. [Idle EXCEPT !.pc = "sign", !.user = u, !.held = req[q].held] \in Asking
    BY DEF Idle, Asking, Waiting, Table
  <2> QED BY <2>1, <2>2, WriteKeepsAddresses
<1>3. ASSUME NEW q \in Request, Answer(q) \/ GoogleCallback(q) \/ DieAnywhere(q)
      PROVE  FreeAddresses'
  BY <1>2, <1>3, RestKeepsAddresses, RegisterKeepsAddresses DEF Answer
<1>4. ASSUME NEW q \in Request, NEW u \in User, Login(q, u) \/ GetUser(q, u)
      PROVE  FreeAddresses'
  BY <1>4, RestKeepsAddresses
<1>5. CASE \/ \E u \in User : Expire(u)
           \/ \E c \in tokens : TokenExpires(c)
           \/ UNCHANGED accountVars
  <2>1. users' = users /\ req' = req /\ free' = free
    BY <1>5 DEF Expire, TokenExpires, accountVars
  <2> QED BY <2>1 DEF FreeAddresses, KeepsItsAddress, InUse, Alive
<1> QED BY <1>1, <1>3, <1>4, <1>5, AccountAssumption DEF AccountNext

LEMMA AllAlways == AccountSpec => [](Table /\ Outside /\ FreeAddresses)
<1>1. AccountInit => Table /\ Outside /\ FreeAddresses
  BY InitTable
     DEF AccountInit, UserInit, Outside, StaleUserOnlyIfRaced, TokensNameAccounts, FreeAddresses
<1>2. Table /\ Outside /\ FreeAddresses /\ [AccountNext]_accountVars =>
        (Table /\ Outside /\ FreeAddresses)'
  BY NextKeeps, NextKeepsOutside, NextKeepsAddresses DEF Kept
<1> QED BY <1>1, <1>2, PTL DEF AccountSpec

\* The table, the requests, the entries and the tokens keep their types.
THEOREM AccountTypes == AccountSpec => []AccountTypeOK
<1>1. Table /\ Outside /\ FreeAddresses => AccountTypeOK
  BY DEF Table, Outside, AccountTypeOK, Asking, FreeAddresses
<1> QED BY <1>1, AllAlways, PTL

\* The checks of CreateUserUseCase, UpdateUserUseCase and the Google sign-in hold up
\* until another request stores the address: the unique column turns away nobody else
\* who looked an address up as it is stored, but for one of a deleted user.
THEOREM RefusedAddressesHaveReasons == AccountSpec => []AddressRefusedForAReason
<1>1. Table /\ FreeAddresses => AddressRefusedForAReason
  <2> SUFFICES ASSUME Table, FreeAddresses, NEW q \in free
               PROVE  /\ req[q].pc \in {"insert", "insertGoogle"} =>
                           ~InUse(req[q].held.email, NoUser)
                      /\ At(q, "write") => ~InUse(SavedRow(q).email, req[q].user)
    BY DEF AddressRefusedForAReason
  <2>1. q \in Request /\ KeepsItsAddress(q)
    BY DEF FreeAddresses
  <2>2. ASSUME At(q, "write") PROVE ~InUse(SavedRow(q).email, req[q].user)
    <3>1. /\ req[q].user \in User /\ users[req[q].user] \in Row
          /\ req[q].held \in Row /\ req[q].dirty \in SUBSET Column
      BY <2>1, <2>2 DEF At, Table, SoundIn, WellFormedIn, Editing, Asking
    <3>2. SavedRow(q).email = req[q].held.email \/ SavedRow(q).email = users[req[q].user].email
      BY <3>1, MergedIsRow DEF SavedRow, Column
    <3>3. ~InUse(users[req[q].user].email, req[q].user)
      BY <3>1, OwnAddressIsFree
    <3> QED BY <2>1, <3>2, <3>3 DEF KeepsItsAddress
  <2> QED BY <2>1, <2>2 DEF KeepsItsAddress, Inserting
<1> QED BY <1>1, AllAlways, PTL

\* An entry that differs from its user belongs to a write on its way to the
\* invalidation, to a slow reader, or to an invalidation that was lost.
THEOREM StaleUsersAreRaced == AccountSpec => []StaleUserOnlyIfRaced
<1>1. Outside => StaleUserOnlyIfRaced
  BY DEF Outside
<1> QED BY <1>1, AllAlways, PTL

\* A token is never signed for an account whose INSERT was rejected.
THEOREM TokensHaveAccounts == AccountSpec => []TokensNameAccounts
<1>1. Outside => TokensNameAccounts
  BY DEF Outside
<1> QED BY <1>1, AllAlways, PTL

\* Only a sign-in that found its user before the deletion ends after it with a token.
THEOREM DeletedStaysOut == AccountSpec => DeletedCannotSignIn
<1> DEFINE New == \A c \in tokens' \ tokens :
                    users[c.sub].deleted =>
                      \E q \in Request : At(q, "sign") /\ req[q].user = c.sub /\ req[q].overtaken
<1>1. ASSUME Table, NEW q \in Request, Sign(q)
      PROVE  New
  <2>1. /\ tokens' = tokens \union {Minted(q)} /\ Minted(q).sub = req[q].user
        /\ At(q, "sign")
    BY <1>1 DEF Sign, Minted, ClaimsOf
  <2>2. req[q].overtaken \/ ~users[req[q].user].deleted
    BY <1>1, <2>1 DEF At, Table, SoundIn, TrueCopyIn, Reading
  <2> QED BY <2>1, <2>2
<1>2. ASSUME AccountNext, ~\E q \in Request : Sign(q)
      PROVE  tokens' \subseteq tokens
  BY <1>2 DEF AccountNext, StoreMoves, Answer, Fetch, Fill, Invalidate, InvalidateFails,
     InsertGoogle, GoogleCallback, DieAnywhere, Login, GetUser, Expire, TokenExpires, outside
<1>3. Table /\ [AccountNext]_accountVars => [New]_accountVars
  BY <1>1, <1>2
<1> QED BY <1>3, TableAlways, PTL DEF AccountSpec, DeletedCannotSignIn

=============================================================================
