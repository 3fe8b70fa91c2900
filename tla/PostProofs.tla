----------------------------- MODULE PostProofs -----------------------------
(***************************************************************************)
(* Proofs about PostStore, PostCache and Discussions, for any sets of      *)
(* requests, posts, titles, slugs and tags and any bounds.                 *)
(*                                                                         *)
(* Table is what both specifications keep true of the table and of the     *)
(* requests: a request that is about to write, to invalidate or to fill    *)
(* holds a whole row, and its post exists.  No action deletes a row.       *)
(***************************************************************************)
EXTENDS PostCache, Discussions, TLAPS

Pc == Waiting \union Reading \union {"idle"}

RequestRecord == [pc : Pc, post : Post \union {NoPost}, slug : Slug \union {NoSlug},
             held : RowOrNone, base : RowOrNone]

HoldsRow  == {"slugCheck", "insert", "load", "write", "saved", "dropSlug", "fillId", "fillSlug"}
HasPost   == {"load", "write", "saved", "dropSlug", "fillId", "fillSlug"}

SoundIn(r, table) ==
  /\ r.pc \in HoldsRow => r.held \in Row
  /\ r.pc \in HasPost => r.post \in Post
  /\ r.pc \in HasPost \union {"slugCheck"} /\ r.post \in Post => table[r.post] \in Row
  /\ r.pc = "write" => r.base \in Row
  /\ r.pc = "fetchId" => r.post \in Post
  /\ r.pc \in {"fetchSlug", "fillSlug"} => r.slug \in Slug

Sound(r) == SoundIn(r, posts)

Table ==
  /\ posts \in [Post -> RowOrNone]
  /\ req \in [Request -> RequestRecord]
  /\ \A q \in Request : Sound(req[q])
  /\ now \in 0..MaxTime
  /\ faults \in 0..MaxFaults

-----------------------------------------------------------------------------
(* What the operators on rows return. *)

LEMMA RowOperators ==
  ASSUME NEW t \in Title, NEW s \in Slug \union {NoSlug}
  PROVE  /\ NewRow(t, s) \in Row
         /\ \A row \in Row : Edited(row, t, s) \in Row
<1>1. SlugOf[t] \in Slug
  BY PostAssumption
<1>2. IF s = NoSlug THEN SlugOf[t] \in Slug ELSE s \in Slug
  BY <1>1
<1>3. 0 \in 0..MaxTime
  BY PostAssumption, SMT
<1>4. NewRow(t, s) \in Row
  BY <1>2, <1>3 DEF NewRow, Row, Status
<1>5. \A row \in Row : Edited(row, t, s) \in Row
  BY <1>2 DEF Edited, Row
<1> QED BY <1>4, <1>5

LEMMA PublishedIsRow ==
  ASSUME now \in 0..MaxTime, now < MaxTime, NEW row \in Row
  PROVE  Published(row) \in Row
<1>1. now + 1 \in 0..MaxTime
  BY PostAssumption, SMT
<1> QED BY <1>1 DEF Published, Row, Status

LEMMA MergedIsRow ==
  ASSUME NEW current \in Row, NEW base \in Row, NEW held \in Row
  PROVE  Merged(current, base, held) \in Row
<1> DEFINE m == Merged(current, base, held)
<1>1. m = [c \in {"title", "slug", "status", "publishedAt"} |->
             IF held[c] # base[c] THEN held[c] ELSE current[c]]
  BY DEF Merged, Column
<1>2. m = [title |-> m.title, slug |-> m.slug, status |-> m.status,
           publishedAt |-> m.publishedAt]
  BY <1>1
<1>3. m.title \in Title /\ m.slug \in Slug /\ m.status \in Status /\ m.publishedAt \in 0..MaxTime
  BY <1>1 DEF Row
<1> HIDE DEF m
<1>4. m \in Row
  BY <1>2, <1>3 DEF Row
<1> QED BY <1>4 DEF m

\* A request that becomes r, in an action that takes no row from the table.
LEMMA BecomeKeepsTable ==
  ASSUME Table, NEW q \in Request, NEW r \in RequestRecord, Become(q, r),
         posts' \in [Post -> RowOrNone],
         \A p \in Post : posts[p] \in Row => posts'[p] \in Row,
         SoundIn(r, posts'), now' \in 0..MaxTime, faults' \in 0..MaxFaults
  PROVE  Table'
<1>1. req' \in [Request -> RequestRecord]
  BY DEF Table, Become
<1>2. \A o \in Request : Sound(req[o])'
  <2> SUFFICES ASSUME NEW o \in Request PROVE Sound(req[o])'
    OBVIOUS
  <2>1. CASE o = q
    <3>1. req'[o] = r
      BY <2>1 DEF Table, Become
    <3> QED BY <3>1 DEF Sound, SoundIn
  <2>2. CASE o # q
    <3>1. req'[o] = req[o]
      BY <2>2 DEF Table, Become
    <3>2. Sound(req[o]) /\ req[o] \in RequestRecord
      BY DEF Table
    <3> QED BY <3>1, <3>2 DEF Sound, SoundIn, RequestRecord
  <2> QED BY <2>1, <2>2
<1> QED BY <1>1, <1>2 DEF Table

LEMMA FaultIsBounded ==
  ASSUME faults \in 0..MaxFaults, Fault
  PROVE  faults' \in 0..MaxFaults
BY PostAssumption, SMT DEF Fault

-----------------------------------------------------------------------------
(* The actions of the table *)

\* An idle request fits wherever nothing is known.
LEMMA IdleIsSound ==
  /\ Idle \in RequestRecord
  /\ SoundIn(Idle, posts)
  /\ SoundIn(Idle, posts')
BY DEF Idle, RequestRecord, Pc, RowOrNone, Sound, SoundIn, HoldsRow, HasPost

LEMMA CreateKeepsTable ==
  ASSUME Table, NEW q \in Request, Create(q)
  PROVE  Table'
<1>1. PICK t \in Title, s \in Slug \union {NoSlug} :
        Become(q, [Idle EXCEPT !.pc = IF s = NoSlug THEN "insert" ELSE "slugCheck",
                               !.held = NewRow(t, s)])
  BY DEF Create
<1> DEFINE r == [Idle EXCEPT !.pc = IF s = NoSlug THEN "insert" ELSE "slugCheck",
                             !.held = NewRow(t, s)]
<1>2. NewRow(t, s) \in Row
  BY RowOperators
<1>3. r \in RequestRecord
  BY <1>2 DEF Idle, RequestRecord, Pc, Waiting, RowOrNone
<1>4. SoundIn(r, posts')
  BY <1>2, PostAssumption DEF Idle, Sound, SoundIn, HoldsRow, HasPost
<1> HIDE DEF r
<1>5. Become(q, r)
  BY <1>1 DEF r
<1> QED BY <1>3, <1>4, <1>5, BecomeKeepsTable DEF Create, Table

LEMMA InsertKeepsTable ==
  ASSUME Table, NEW q \in Request, Insert(q)
  PROVE  Table'
<1>1. req[q] \in RequestRecord /\ Sound(req[q])
  BY DEF Table
<1>2. req[q].held \in Row
  BY <1>1 DEF Insert, At, Sound, SoundIn, HoldsRow
<1>3. PICK p \in Post :
        /\ posts[p] = NoRow
        /\ posts' = posts \/ posts' = [posts EXCEPT ![p] = req[q].held]
  BY DEF Insert
<1>4. posts' \in [Post -> RowOrNone]
  BY <1>2, <1>3 DEF Table, RowOrNone
<1>5. \A o \in Post : posts[o] \in Row => posts'[o] \in Row
  BY <1>2, <1>3 DEF Table
<1> QED BY <1>4, <1>5, IdleIsSound, BecomeKeepsTable DEF Insert, Table

LEMMA UpdateFindKeepsTable ==
  ASSUME Table, NEW q \in Request, NEW p \in Post, UpdateFind(q, p)
  PROVE  Table'
<1>1. PICK t \in Title, s \in Slug \union {NoSlug} :
        Become(q, [Idle EXCEPT
          !.pc = IF s \in {NoSlug, posts[p].slug} THEN "load" ELSE "slugCheck",
          !.post = p, !.held = Edited(posts[p], t, s)])
  BY DEF UpdateFind
<1> DEFINE r == [Idle EXCEPT
          !.pc = IF s \in {NoSlug, posts[p].slug} THEN "load" ELSE "slugCheck",
          !.post = p, !.held = Edited(posts[p], t, s)]
<1>2. posts[p] \in Row /\ posts' = posts
  BY DEF UpdateFind, Table, RowOrNone
<1>3. Edited(posts[p], t, s) \in Row
  BY <1>2, RowOperators
<1>4. r \in RequestRecord
  BY <1>3 DEF Idle, RequestRecord, Pc, Waiting, RowOrNone
<1>5. SoundIn(r, posts')
  BY <1>2, <1>3 DEF Idle, Sound, SoundIn, HoldsRow, HasPost
<1> HIDE DEF r
<1>6. Become(q, r)
  BY <1>1 DEF r
<1> QED BY <1>2, <1>4, <1>5, <1>6, BecomeKeepsTable DEF UpdateFind, Table

LEMMA PublishFindKeepsTable ==
  ASSUME Table, NEW q \in Request, NEW p \in Post, PublishFind(q, p)
  PROVE  Table'
<1> DEFINE r == [Idle EXCEPT !.pc = "load", !.post = p, !.held = Published(posts[p])]
<1>1. posts[p] \in Row /\ posts' = posts
  BY DEF PublishFind, Table, RowOrNone
<1>2. Published(posts[p]) \in Row
  BY <1>1, PublishedIsRow DEF PublishFind, Table
<1>3. r \in RequestRecord
  BY <1>2 DEF Idle, RequestRecord, Pc, Waiting, RowOrNone
<1>4. SoundIn(r, posts')
  BY <1>1, <1>2 DEF Idle, Sound, SoundIn, HoldsRow, HasPost
<1>5. now' \in 0..MaxTime
  BY PostAssumption, SMT DEF PublishFind, Table
<1> HIDE DEF r
<1>6. Become(q, r)
  BY DEF PublishFind, r
<1> QED BY <1>1, <1>3, <1>4, <1>5, <1>6, BecomeKeepsTable DEF PublishFind, Table

LEMMA SlugCheckKeepsTable ==
  ASSUME Table, NEW q \in Request, SlugCheck(q)
  PROVE  Table'
<1>1. req[q] \in RequestRecord /\ Sound(req[q]) /\ posts' = posts
  BY DEF Table, SlugCheck
<1>2. CASE Become(q, Idle)
  BY <1>1, <1>2, IdleIsSound, BecomeKeepsTable DEF SlugCheck, Table
<1>3. CASE Goto(q, IF req[q].post = NoPost THEN "insert" ELSE "load")
  <2> DEFINE r == [req[q] EXCEPT !.pc = IF req[q].post = NoPost THEN "insert" ELSE "load"]
  <2>1. r \in RequestRecord
    BY <1>1 DEF RequestRecord, Pc, Waiting
  <2>2. SoundIn(r, posts')
    BY <1>1 DEF SlugCheck, At, RequestRecord, Sound, SoundIn, HoldsRow, HasPost
  <2>3. req' = [req EXCEPT ![q] = r]
    BY <1>3 DEF Goto
  <2> HIDE DEF r
  <2> QED BY <1>1, <2>1, <2>2, <2>3, BecomeKeepsTable DEF SlugCheck, Table, Become
<1> QED BY <1>2, <1>3 DEF SlugCheck

LEMMA LoadKeepsTable ==
  ASSUME Table, NEW q \in Request, Load(q)
  PROVE  Table'
<1> DEFINE r == [req[q] EXCEPT !.pc = "write", !.base = posts[req[q].post]]
<1>1. req[q] \in RequestRecord /\ Sound(req[q]) /\ posts' = posts
  BY DEF Table, Load
<1>2. req[q].post \in Post /\ posts[req[q].post] \in Row
  BY <1>1 DEF Load, At, Sound, SoundIn, HasPost
<1>3. r \in RequestRecord
  BY <1>1, <1>2 DEF RequestRecord, Pc, Waiting, RowOrNone
<1>4. SoundIn(r, posts')
  BY <1>1, <1>2 DEF Load, At, RequestRecord, Sound, SoundIn, HoldsRow, HasPost
<1>5. req' = [req EXCEPT ![q] = r]
  BY DEF Load
<1> HIDE DEF r
<1>6. /\ posts' \in [Post -> RowOrNone] /\ now' \in 0..MaxTime /\ faults' \in 0..MaxFaults
      /\ \A p \in Post : posts[p] \in Row => posts'[p] \in Row
  BY <1>1 DEF Load, Table
<1>7. Become(q, r)
  BY <1>5 DEF Become
<1> QED BY <1>3, <1>4, <1>6, <1>7, BecomeKeepsTable

\* The row that a request about to write would leave.
LEMMA SavedRowIsRow ==
  ASSUME Table, NEW q \in Request, At(q, "write")
  PROVE  req[q].post \in Post /\ posts[req[q].post] \in Row /\ SavedRow(q) \in Row
<1>1. Sound(req[q])
  BY DEF Table
<1>2. /\ req[q].post \in Post /\ posts[req[q].post] \in Row
      /\ req[q].base \in Row /\ req[q].held \in Row
  BY <1>1 DEF At, Sound, SoundIn, HoldsRow, HasPost
<1> QED BY <1>2, MergedIsRow DEF SavedRow

LEMMA WriteKeepsTable ==
  ASSUME Table, NEW q \in Request, Write(q)
  PROVE  Table'
<1>1. req[q] \in RequestRecord /\ Sound(req[q])
  BY DEF Table
<1>2. CASE Become(q, Idle) /\ UNCHANGED posts
  BY <1>2, IdleIsSound, BecomeKeepsTable DEF Write, Table
<1>3. CASE /\ posts' = [posts EXCEPT ![req[q].post] = SavedRow(q)]
           /\ req' = [req EXCEPT ![q].pc = "saved", ![q].base = NoRow]
  <2> DEFINE r == [req[q] EXCEPT !.pc = "saved", !.base = NoRow]
  <2>1. req[q].post \in Post /\ posts[req[q].post] \in Row /\ SavedRow(q) \in Row
    BY SavedRowIsRow DEF Write
  <2>2. posts' \in [Post -> RowOrNone]
    BY <1>3, <2>1 DEF Table, RowOrNone
  <2>3. \A p \in Post : posts[p] \in Row => posts'[p] \in Row
    BY <1>3, <2>1 DEF Table
  <2>4. r \in RequestRecord
    BY <1>1 DEF RequestRecord, Pc, Waiting, RowOrNone
  <2>5. SoundIn(r, posts')
    BY <1>1, <2>1, <2>3 DEF Write, At, RequestRecord, Sound, SoundIn, HoldsRow, HasPost
  <2>6. req' = [req EXCEPT ![q] = r]
    BY <1>3
  <2> HIDE DEF r
  <2> QED BY <2>2, <2>3, <2>4, <2>5, <2>6, BecomeKeepsTable DEF Write, Table, Become
<1> QED BY <1>2, <1>3 DEF Write

LEMMA EndKeepsTable ==
  ASSUME Table, NEW q \in Request, Die(q) \/ Respond(q)
  PROVE  Table'
<1>1. CASE Die(q)
  BY <1>1, IdleIsSound, FaultIsBounded, BecomeKeepsTable DEF Die, Table
<1>2. CASE Respond(q)
  BY <1>2, IdleIsSound, BecomeKeepsTable DEF Respond, Table
<1> QED BY <1>1, <1>2

LEMMA StoreKeepsTable ==
  ASSUME Table, NEW q \in Request,
         StoreStart(q) \/ StoreStep(q) \/ Respond(q) \/ Die(q)
  PROVE  Table'
BY CreateKeepsTable, UpdateFindKeepsTable, PublishFindKeepsTable, InsertKeepsTable,
   SlugCheckKeepsTable, LoadKeepsTable, WriteKeepsTable, EndKeepsTable
   DEF StoreStart, StoreStep

-----------------------------------------------------------------------------
(* PostStore *)

SlugsUnique ==
  \A p, o \in Post :
    posts[p] # NoRow /\ posts[o] # NoRow /\ posts[p].slug = posts[o].slug => p = o

\* No other row has the slug that the request holds.
KeepsItsSlug(q) ==
  /\ req[q].held \in Row
  /\ req[q].pc \in {"insert", "load", "write"}
  /\ req[q].pc = "insert" => req[q].post = NoPost
  /\ ~Collides(req[q].held.slug, req[q].post)

FreeSlugs == free \subseteq Request /\ \A q \in free : KeepsItsSlug(q)

StoreIInv ==
  /\ Table
  /\ \A q \in Request : req[q].pc \in Waiting \union {"idle"}
  /\ SlugsUnique
  /\ FreeSlugs

LEMMA InitTable == StoreInit => Table
<1> SUFFICES ASSUME StoreInit PROVE Table
  OBVIOUS
<1>1. posts \in [Post -> RowOrNone]
  BY DEF StoreInit, RowOrNone
<1>2. req \in [Request -> RequestRecord] /\ \A q \in Request : Sound(req[q])
  BY IdleIsSound DEF StoreInit, Sound
<1>3. now \in 0..MaxTime /\ faults \in 0..MaxFaults
  BY PostAssumption, SMT DEF StoreInit
<1> QED BY <1>1, <1>2, <1>3 DEF Table

\* A row that the unique column lets in leaves the slugs unique.
LEMMA PutKeepsSlugsUnique ==
  ASSUME posts \in [Post -> RowOrNone], SlugsUnique,
         NEW p \in Post, NEW row \in Row, ~Collides(row.slug, p),
         posts' = [posts EXCEPT ![p] = row]
  PROVE  SlugsUnique'
<1>1. \A o \in Post \ {p} : posts[o] # NoRow => posts[o].slug # row.slug
  BY DEF Collides
<1> QED BY <1>1 DEF SlugsUnique

LEMMA StoreKeepsSlugsUnique ==
  ASSUME Table, SlugsUnique, NEW q \in Request,
         StoreStart(q) \/ StoreStep(q) \/ Respond(q) \/ Die(q)
  PROVE  SlugsUnique'
<1>1. CASE Insert(q)
  <2>1. PICK p \in Post :
          IF Collides(req[q].held.slug, p) THEN posts' = posts
          ELSE posts' = [posts EXCEPT ![p] = req[q].held]
    BY <1>1 DEF Insert
  <2>2. req[q].held \in Row
    BY <1>1 DEF Insert, At, Table, Sound, SoundIn, HoldsRow
  <2>3. CASE Collides(req[q].held.slug, p)
    BY <2>1, <2>3 DEF SlugsUnique
  <2>4. CASE ~Collides(req[q].held.slug, p)
    BY <2>1, <2>2, <2>4, PutKeepsSlugsUnique DEF Table
  <2> QED BY <2>3, <2>4
<1>2. CASE Write(q)
  <2>1. req[q].post \in Post /\ SavedRow(q) \in Row
    BY <1>2, SavedRowIsRow DEF Write
  <2>2. CASE Collides(SavedRow(q).slug, req[q].post)
    BY <1>2, <2>2 DEF Write, SlugsUnique
  <2>3. CASE ~Collides(SavedRow(q).slug, req[q].post)
    BY <1>2, <2>1, <2>3, PutKeepsSlugsUnique DEF Write, Table
  <2> QED BY <2>2, <2>3
<1>3. CASE UNCHANGED posts
  BY <1>3 DEF SlugsUnique
<1> QED BY <1>1, <1>2, <1>3
        DEF StoreStart, StoreStep, Create, UpdateFind, PublishFind, SlugCheck, Load,
            Respond, Die

\* A request of the store never waits at an await of the reading handlers.
LEMMA StoreKeepsPc ==
  ASSUME Table, NEW q \in Request, NEW o \in Request,
         StoreStart(q) \/ StoreStep(q) \/ Respond(q) \/ Die(q),
         req[o].pc \in Waiting \union {"idle"}
  PROVE  req'[o].pc \in Waiting \union {"idle"}
<1>1. CASE o # q
  BY <1>1 DEF Table, StoreStart, StoreStep, Create, UpdateFind, PublishFind, Insert,
     SlugCheck, Load, Write, Respond, Die, Become, Goto
<1>2. CASE o = q
  <2>1. req \in [Request -> RequestRecord]
    BY DEF Table
  <2>2. CASE StoreStart(q)
    <3>1. CASE Create(q)
      BY <1>2, <2>1, <3>1 DEF Create, Become, Idle, RequestRecord, Waiting
    <3>2. ASSUME NEW p \in Post, UpdateFind(q, p) PROVE req'[q].pc \in Waiting
      BY <2>1, <3>2 DEF UpdateFind, Become, Idle, RequestRecord, Waiting
    <3>3. ASSUME NEW p \in Post, PublishFind(q, p) PROVE req'[q].pc \in Waiting
      BY <2>1, <3>3 DEF PublishFind, Become, Idle, RequestRecord, Waiting
    <3> QED BY <1>2, <2>2, <3>1, <3>2, <3>3 DEF StoreStart
  <2>3. CASE StoreStep(q)
    <3>1. CASE Insert(q)
      BY <1>2, <2>1, <3>1 DEF Insert, Become, Idle
    <3>2. CASE SlugCheck(q)
      BY <1>2, <2>1, <3>2 DEF SlugCheck, Become, Goto, Idle, RequestRecord, Waiting
    <3>3. CASE Load(q)
      BY <1>2, <2>1, <3>3 DEF Load, RequestRecord, Waiting
    <3>4. CASE Write(q)
      BY <1>2, <2>1, <3>4 DEF Write, Become, Idle, RequestRecord, Waiting
    <3> QED BY <2>3, <3>1, <3>2, <3>3, <3>4 DEF StoreStep
  <2>4. CASE Respond(q) \/ Die(q)
    BY <1>2, <2>1, <2>4 DEF Respond, Die, Become, Idle, RequestRecord, Waiting
  <2> QED BY <2>2, <2>3, <2>4
<1> QED BY <1>1, <1>2

\* A request that does not move keeps its slug from a row with another one.
LEMMA OtherKeepsItsSlug ==
  ASSUME Table, NEW o \in Request, KeepsItsSlug(o), req'[o] = req[o],
         \/ posts' = posts
         \/ \E p \in Post, row \in Row :
              posts' = [posts EXCEPT ![p] = row] /\ row.slug # req[o].held.slug
  PROVE  KeepsItsSlug(o)'
<1>1. CASE posts' = posts
  BY <1>1 DEF KeepsItsSlug, Collides
<1>2. ASSUME NEW p \in Post, NEW row \in Row, row.slug # req[o].held.slug,
             posts' = [posts EXCEPT ![p] = row]
      PROVE  KeepsItsSlug(o)'
  <2>1. \A n \in Post : posts'[n] = posts[n] \/ posts'[n] = row
    BY <1>2 DEF Table
  <2>2. ~Collides(req[o].held.slug, req[o].post)'
    BY <1>2, <2>1 DEF KeepsItsSlug, Collides
  <2> QED BY <2>2 DEF KeepsItsSlug
<1> QED BY <1>1, <1>2

\* A row of the table has a slug that no other row has.
LEMMA OwnSlugIsFree ==
  ASSUME SlugsUnique, NEW p \in Post, posts[p] # NoRow
  PROVE  ~Collides(posts[p].slug, p)
BY DEF SlugsUnique, Collides

\* What a request that stores a row takes from the others.
LEMMA StoringKeepsSlugs ==
  ASSUME Table, FreeSlugs, NEW q \in Request, Insert(q) \/ Write(q), NEW o \in free'
  PROVE  KeepsItsSlug(o)'
<1>1. o \in free /\ o \in Request /\ o # q
  BY DEF FreeSlugs, FreeWithout, Insert, Write
<1>2. req'[o] = req[o]
  BY <1>1 DEF Insert, Write, Become, Table
<1>3. \/ posts' = posts
      \/ \E p \in Post, row \in Row :
           posts' = [posts EXCEPT ![p] = row] /\ row.slug # req[o].held.slug
  <2>1. CASE Insert(q)
    <3>1. req[q].held \in Row
      BY <2>1 DEF Insert, At, Table, Sound, SoundIn, HoldsRow
    <3>2. PICK p \in Post :
            \/ posts' = posts
            \/ /\ posts' = [posts EXCEPT ![p] = req[q].held]
               /\ free' = FreeWithout(q, req[q].held.slug)
      BY <2>1 DEF Insert
    <3> QED BY <3>1, <3>2 DEF FreeWithout
  <2>2. CASE Write(q)
    <3>1. req[q].post \in Post /\ SavedRow(q) \in Row
      BY <2>2, SavedRowIsRow DEF Write
    <3>2. \/ posts' = posts
          \/ /\ posts' = [posts EXCEPT ![req[q].post] = SavedRow(q)]
             /\ free' = FreeWithout(q, SavedRow(q).slug)
      BY <2>2 DEF Write
    <3> QED BY <3>1, <3>2 DEF FreeWithout
  <2> QED BY <2>1, <2>2
<1> QED BY <1>1, <1>2, <1>3, OtherKeepsItsSlug DEF FreeSlugs

\* updateContent and publish leave the post its slug, or ask for one to be looked up.
LEMMA FindKeepsSlug ==
  ASSUME Table, SlugsUnique, NEW q \in Request, NEW p \in Post,
         UpdateFind(q, p) \/ PublishFind(q, p), q \in free' \ free
  PROVE  KeepsItsSlug(q)'
<1>1. posts[p] \in Row /\ posts' = posts /\ req \in [Request -> RequestRecord]
  BY DEF UpdateFind, PublishFind, Table, RowOrNone
<1>2. ~Collides(posts[p].slug, p)
  BY <1>1, OwnSlugIsFree, NoRowAssumption
<1>3. /\ req'[q].held \in Row /\ req'[q].held.slug = posts[p].slug
      /\ req'[q].post = p /\ req'[q].pc = "load"
  <2>1. CASE UpdateFind(q, p)
    <3>1. PICK t \in Title, s \in Slug \union {NoSlug} :
            Become(q, [Idle EXCEPT
              !.pc = IF s \in {NoSlug, posts[p].slug} THEN "load" ELSE "slugCheck",
              !.post = p, !.held = Edited(posts[p], t, s)])
      BY <2>1 DEF UpdateFind
    <3>2. /\ req'[q].held = Edited(posts[p], t, s) /\ req'[q].post = p
          /\ req'[q].pc = IF s \in {NoSlug, posts[p].slug} THEN "load" ELSE "slugCheck"
      BY <1>1, <3>1 DEF Become, Idle
    <3>3. req'[q].held.slug = posts[p].slug
      BY <2>1 DEF UpdateFind
    <3>4. Edited(posts[p], t, s) \in Row
      BY <1>1, RowOperators
    <3>5. s # NoSlug => Edited(posts[p], t, s).slug = s
      BY <1>1 DEF Edited, Row
    <3> QED BY <3>2, <3>3, <3>4, <3>5
  <2>2. CASE PublishFind(q, p)
    <3>1. req'[q].held = Published(posts[p]) /\ req'[q].post = p /\ req'[q].pc = "load"
      BY <1>1, <2>2 DEF PublishFind, Become, Idle
    <3>2. Published(posts[p]) \in Row
      BY <1>1, <2>2, PublishedIsRow DEF PublishFind, Table
    <3>3. Published(posts[p]).slug = posts[p].slug
      BY <1>1 DEF Published, Row
    <3> QED BY <3>1, <3>2, <3>3
  <2> QED BY <2>1, <2>2
<1>4. ~Collides(req[q].held.slug, req[q].post)'
  BY <1>1, <1>2, <1>3 DEF Collides
<1> QED BY <1>3, <1>4 DEF KeepsItsSlug

LEMMA SlugCheckKeepsSlugs ==
  ASSUME Table, FreeSlugs, NEW q \in Request, SlugCheck(q), q \in free'
  PROVE  KeepsItsSlug(q)'
<1>1. q \notin free
  BY DEF FreeSlugs, KeepsItsSlug, SlugCheck, At
<1>2. /\ ~FoundBySlug(req[q].held.slug, req[q].post) /\ posts' = posts
      /\ Goto(q, IF req[q].post = NoPost THEN "insert" ELSE "load")
  BY <1>1 DEF SlugCheck
<1>3. /\ req'[q].held = req[q].held /\ req'[q].post = req[q].post
      /\ req'[q].pc = IF req[q].post = NoPost THEN "insert" ELSE "load"
  BY <1>2 DEF Goto, Table, RequestRecord
<1>4. req[q].held \in Row
  BY DEF SlugCheck, At, Table, Sound, SoundIn, HoldsRow
<1> QED BY <1>2, <1>3, <1>4 DEF KeepsItsSlug, Collides, FoundBySlug

LEMMA StoreKeepsFreeSlugs ==
  ASSUME Table, SlugsUnique, FreeSlugs, NEW q \in Request,
         StoreStart(q) \/ StoreStep(q) \/ Respond(q) \/ Die(q)
  PROVE  FreeSlugs'
<1>0. free \subseteq Request /\ req \in [Request -> RequestRecord]
  BY DEF FreeSlugs, Table
<1>1. ASSUME NEW o \in free, o # q, ~(Insert(q) \/ Write(q))
      PROVE  KeepsItsSlug(o)'
  <2>1. req'[o] = req[o] /\ posts' = posts
    BY <1>0, <1>1 DEF StoreStart, StoreStep, Create, UpdateFind, PublishFind, SlugCheck, Load,
       Respond, Die, Become, Goto
  <2> QED BY <1>0, <2>1, OtherKeepsItsSlug DEF FreeSlugs
<1>2. CASE Insert(q) \/ Write(q)
  <2>1. free' \subseteq Request
    BY <1>0, <1>2 DEF Insert, Write, FreeWithout
  <2> QED BY <1>2, <2>1, StoringKeepsSlugs DEF FreeSlugs
<1>3. ASSUME NEW p \in Post, UpdateFind(q, p) \/ PublishFind(q, p)
      PROVE  FreeSlugs'
  <2>1. free' \subseteq free \union {q} /\ q \notin free
    BY <1>3 DEF UpdateFind, PublishFind, At, FreeSlugs, KeepsItsSlug
  <2>2. ~(Insert(q) \/ Write(q))
    BY <1>3 DEF UpdateFind, PublishFind, Insert, Write, At
  <2> QED BY <1>0, <1>1, <1>3, <2>1, <2>2, FindKeepsSlug DEF FreeSlugs
<1>4. CASE SlugCheck(q)
  <2>1. free' \subseteq free \union {q}
    BY <1>4 DEF SlugCheck
  <2>2. ~(Insert(q) \/ Write(q))
    BY <1>4 DEF SlugCheck, Insert, Write, At
  <2> QED BY <1>0, <1>1, <1>4, <2>1, <2>2, SlugCheckKeepsSlugs DEF FreeSlugs
<1>5. CASE Load(q)
  <2>1. free' = free /\ posts' = posts /\ At(q, "load")
    BY <1>5 DEF Load
  <2>2. /\ req'[q].held = req[q].held /\ req'[q].post = req[q].post
        /\ req'[q].pc = "write"
    BY <1>0, <1>5 DEF Load, RequestRecord
  <2>3. q \in free => KeepsItsSlug(q)'
    BY <2>1, <2>2 DEF FreeSlugs, KeepsItsSlug, Collides
  <2>4. ~(Insert(q) \/ Write(q))
    BY <2>1 DEF Insert, Write, At
  <2> QED BY <1>0, <1>1, <2>1, <2>3, <2>4 DEF FreeSlugs
<1>6. CASE Create(q) \/ Respond(q) \/ Die(q)
  <2>1. free' \subseteq free \ {q}
    BY <1>6 DEF Create, Respond, Die, At, FreeSlugs, KeepsItsSlug
  <2>2. \A o \in free' : req'[o] = req[o] /\ posts' = posts
    BY <1>0, <1>6, <2>1 DEF Create, Respond, Die, Become
  <2> QED BY <1>0, <2>1, <2>2, OtherKeepsItsSlug DEF FreeSlugs
<1> QED BY <1>2, <1>3, <1>4, <1>5, <1>6 DEF StoreStart, StoreStep

LEMMA StoreNextKeeps == StoreIInv /\ [StoreNext]_storeVars => StoreIInv'
<1> SUFFICES ASSUME StoreIInv, [StoreNext]_storeVars PROVE StoreIInv'
  OBVIOUS
<1>1. ASSUME NEW q \in Request,
             StoreStart(q) \/ StoreStep(q) \/ Respond(q) \/ Die(q)
      PROVE  StoreIInv'
  <2>1. Table'
    BY <1>1, StoreKeepsTable DEF StoreIInv
  <2>2. SlugsUnique'
    BY <1>1, StoreKeepsSlugsUnique DEF StoreIInv
  <2>3. \A o \in Request : req'[o].pc \in Waiting \union {"idle"}
    BY <1>1, StoreKeepsPc DEF StoreIInv
  <2>4. FreeSlugs'
    BY <1>1, StoreKeepsFreeSlugs DEF StoreIInv
  <2> QED BY <2>1, <2>2, <2>3, <2>4 DEF StoreIInv
<1>2. CASE UNCHANGED storeVars
  BY <1>2 DEF storeVars, StoreIInv, Table, Sound, SlugsUnique, FreeSlugs, KeepsItsSlug, Collides
<1> QED BY <1>1, <1>2 DEF StoreNext

LEMMA InitStoreIInv == StoreInit => StoreIInv
BY InitTable DEF StoreInit, StoreIInv, SlugsUnique, FreeSlugs, Idle

THEOREM StoreInvariant == StoreSpec => []StoreIInv
BY InitStoreIInv, StoreNextKeeps, PTL DEF StoreSpec

\* The table, the requests and the bounds keep their types.
THEOREM StoreTypes == StoreSpec => []StoreTypeOK
<1>1. StoreIInv => StoreTypeOK
  BY DEF StoreIInv, Table, StoreTypeOK, RequestRecord, FreeSlugs
<1> QED BY <1>1, StoreInvariant, PTL

\* Whoever is free of excuses writes a slug that the column takes.
LEMMA InvRefusals == StoreIInv => RefusedOnlyIfRacedOrUnchecked
<1> SUFFICES ASSUME StoreIInv, NEW q \in free
             PROVE  /\ At(q, "insert") => ~Collides(req[q].held.slug, NoPost)
                    /\ At(q, "write") => ~Collides(SavedRow(q).slug, req[q].post)
  BY DEF RefusedOnlyIfRacedOrUnchecked
<1>1. q \in Request /\ KeepsItsSlug(q)
  BY DEF StoreIInv, FreeSlugs
<1>2. ASSUME At(q, "write") PROVE ~Collides(SavedRow(q).slug, req[q].post)
  <2>1. req[q].post \in Post /\ posts[req[q].post] \in Row
    BY <1>1, <1>2, SavedRowIsRow DEF StoreIInv
  <2>2. SavedRow(q).slug = req[q].held.slug \/ SavedRow(q).slug = posts[req[q].post].slug
    <3>1. SavedRow(q)["slug"] = req[q].held["slug"] \/ SavedRow(q)["slug"] = posts[req[q].post]["slug"]
      BY DEF SavedRow, Merged, Column
    <3> QED BY <3>1
  <2>3. ~Collides(posts[req[q].post].slug, req[q].post)
    BY <2>1, OwnSlugIsFree, NoRowAssumption DEF StoreIInv
  <2> QED BY <1>1, <2>2, <2>3 DEF KeepsItsSlug
<1> QED BY <1>1, <1>2 DEF KeepsItsSlug, At

\* The checks of create-post.use-case.ts and update-post.use-case.ts hold up until
\* another request stores the slug: the unique column turns away nobody else who
\* looked, or who kept the slug of the post.
THEOREM RefusalsHaveReasons == StoreSpec => []RefusedOnlyIfRacedOrUnchecked
BY InvRefusals, StoreInvariant, PTL

\* A settled row stays one: whoever writes it holds no draft.
LEMMA SettledRowStays ==
  ASSUME Table, NEW p \in Post, SettledPost(p), NEW q \in Request,
         StoreStart(q) \/ StoreStep(q) \/ Respond(q) \/ Die(q)
  PROVE  posts'[p] # NoRow /\ posts'[p].status # "DRAFT"
<1>1. posts[p] # NoRow /\ posts[p].status # "DRAFT"
  BY DEF SettledPost
<1>2. CASE Insert(q)
  BY <1>1, <1>2 DEF Insert, Table
<1>3. CASE Write(q) /\ req[q].post = p
  <2>1. SavedRow(q) \in Row
    BY <1>3, SavedRowIsRow DEF Write
  <2>2. SavedRow(q).status # "DRAFT"
    <3>1. req[q].held.status # "DRAFT"
      BY <1>3 DEF SettledPost
    <3>2. SavedRow(q).status = IF req[q].held["status"] # req[q].base["status"]
                               THEN req[q].held["status"] ELSE posts[p]["status"]
      BY <1>3 DEF SavedRow, Merged, Column
    <3>3. QED
      BY <1>1, <3>1, <3>2
  <2>3. posts'[p] = posts[p] \/ posts'[p] = SavedRow(q)
    BY <1>3 DEF Write, Table
  <2>4. QED
    BY <1>1, <2>1, <2>2, <2>3, NoRowAssumption
<1>4. CASE Write(q) /\ req[q].post # p
  BY <1>1, <1>4 DEF Write, Table
<1>5. CASE UNCHANGED posts
  BY <1>1, <1>5
<1>6. QED
  BY <1>2, <1>3, <1>4, <1>5 DEF StoreStart, StoreStep, Create, UpdateFind, PublishFind,
     SlugCheck, Load, Respond, Die

\* Whoever takes a copy of a settled post takes no draft, and copies are kept.
LEMMA SettledCopiesStay ==
  ASSUME Table, NEW p \in Post, SettledPost(p), NEW q \in Request,
         StoreStart(q) \/ StoreStep(q) \/ Respond(q) \/ Die(q),
         NEW o \in Request, req'[o].post = p
  PROVE  req'[o].held.status # "DRAFT"
<1>1. req \in [Request -> RequestRecord] /\ Idle \in RequestRecord /\ Idle.post # p
  BY IdleIsSound, PostAssumption DEF Table, Idle
<1>2. req[o].post = p => req[o].held.status # "DRAFT"
  BY DEF SettledPost
<1>3. CASE o # q
  <2>1. req'[o] = req[o]
    BY <1>1, <1>3 DEF StoreStart, StoreStep, Create, UpdateFind, PublishFind, Insert,
       SlugCheck, Load, Write, Respond, Die, Become, Goto
  <2>2. QED
    BY <1>2, <2>1
<1>4. CASE o = q
  <2>1. CASE Create(q)
    BY <1>1, <1>4, <2>1 DEF Create, Become, Idle
  <2>2. ASSUME NEW n \in Post, UpdateFind(q, n) PROVE req'[o].held.status # "DRAFT"
    <3>1. PICK t \in Title, s \in Slug \union {NoSlug} :
            req'[q].post = n /\ req'[q].held = Edited(posts[n], t, s)
      BY <1>1, <2>2 DEF UpdateFind, Become, Idle
    <3>2. n = p /\ posts[p] \in Row
      BY <1>4, <3>1 DEF SettledPost, Table, RowOrNone
    <3>3. Edited(posts[p], t, s).status = posts[p].status
      BY <3>2 DEF Edited, Row
    <3>4. QED
      BY <1>4, <3>1, <3>2, <3>3 DEF SettledPost
  <2>3. ASSUME NEW n \in Post, PublishFind(q, n) PROVE req'[o].held.status # "DRAFT"
    <3>1. req'[q].post = n
      BY <1>1, <2>3 DEF PublishFind, Become, Idle
    <3>2. QED
      BY <1>4, <2>3, <3>1 DEF PublishFind, SettledPost
  <2>4. CASE Load(q) \/ SlugCheck(q) \/ Write(q)
    <3>1. \/ req'[q] = Idle
          \/ req'[q].post = req[q].post /\ req'[q].held = req[q].held
      BY <1>1, <2>4 DEF Load, SlugCheck, Write, Become, Goto, RequestRecord
    <3>2. QED
      BY <1>1, <1>2, <1>4, <3>1
  <2>5. CASE Insert(q) \/ Respond(q) \/ Die(q)
    BY <1>1, <1>4, <2>5 DEF Insert, Respond, Die, Become
  <2>6. QED
    BY <2>1, <2>2, <2>3, <2>4, <2>5 DEF StoreStart, StoreStep
<1>5. QED
  BY <1>3, <1>4

LEMMA SettledStays ==
  StoreIInv /\ [StoreNext]_storeVars
    => [\A p \in Post : SettledPost(p) => SettledPost(p)']_storeVars
<1>1. ASSUME StoreIInv, [StoreNext]_storeVars, NEW p \in Post, SettledPost(p)
      PROVE  SettledPost(p)'
  <2>1. CASE UNCHANGED storeVars
    BY <1>1, <2>1 DEF storeVars, SettledPost
  <2>2. CASE StoreNext
    BY <1>1, <2>2, SettledRowStays, SettledCopiesStay DEF StoreNext, StoreIInv, SettledPost
  <2> QED BY <1>1, <2>1, <2>2
<1> QED BY <1>1

\* Once published and held by no request as a draft, a post is never a draft again:
\* the lost publication of update-post.use-case.ts needs an overlap.
THEOREM PublicationsLast == StoreSpec => PublicationLasts
BY SettledStays, StoreInvariant, PTL DEF StoreSpec, PublicationLasts

-----------------------------------------------------------------------------
(* PostCache: the table under the reading and invalidating handlers *)

\* A request that becomes r while the table stays as it is.
LEMMA TurnKeepsTable ==
  ASSUME Table, NEW q \in Request, NEW r \in RequestRecord, SoundIn(r, posts), Become(q, r),
         posts' = posts, now' = now, UNCHANGED faults \/ Fault
  PROVE  Table'
<1>1. posts' \in [Post -> RowOrNone] /\ now' \in 0..MaxTime
  BY DEF Table
<1>2. faults' \in 0..MaxFaults
  BY FaultIsBounded DEF Table
<1> QED BY <1>1, <1>2, BecomeKeepsTable

LEMMA StartReadKeepsTable ==
  ASSUME Table, NEW q \in Request,
         \/ \E p \in Post : GetById(q, p)
         \/ \E s \in Slug : GetBySlug(q, s)
         \/ GetList(q)
  PROVE  Table'
<1>1. ASSUME NEW p \in Post, GetById(q, p) PROVE Table'
  <2> DEFINE r == [Idle EXCEPT !.pc = "fetchId", !.post = p]
  <2>1. r \in RequestRecord /\ SoundIn(r, posts)
    BY DEF Idle, RequestRecord, Pc, Reading, RowOrNone, SoundIn, HoldsRow, HasPost
  <2>2. Become(q, r) /\ posts' = posts /\ now' = now /\ (UNCHANGED faults \/ Fault)
    BY <1>1 DEF GetById, Misses
  <2> QED BY <2>1, <2>2, TurnKeepsTable
<1>2. ASSUME NEW s \in Slug, GetBySlug(q, s) PROVE Table'
  <2> DEFINE r == [Idle EXCEPT !.pc = "fetchSlug", !.slug = s]
  <2>1. r \in RequestRecord /\ SoundIn(r, posts)
    BY DEF Idle, RequestRecord, Pc, Reading, RowOrNone, SoundIn, HoldsRow, HasPost
  <2>2. Become(q, r) /\ posts' = posts /\ now' = now /\ (UNCHANGED faults \/ Fault)
    BY <1>2 DEF GetBySlug, Misses
  <2> QED BY <2>1, <2>2, TurnKeepsTable
<1>3. CASE GetList(q)
  <2> DEFINE r == [Idle EXCEPT !.pc = "fetchList"]
  <2>1. r \in RequestRecord /\ SoundIn(r, posts)
    BY DEF Idle, RequestRecord, Pc, Reading, RowOrNone, SoundIn, HoldsRow, HasPost
  <2>2. Become(q, r) /\ posts' = posts /\ now' = now /\ (UNCHANGED faults \/ Fault)
    BY <1>3 DEF GetList, Misses
  <2> QED BY <2>1, <2>2, TurnKeepsTable
<1> QED BY <1>1, <1>2, <1>3

LEMMA FetchKeepsTable ==
  ASSUME Table, NEW q \in Request, FetchId(q) \/ FetchSlug(q) \/ FetchList(q)
  PROVE  Table'
<1>1. req[q] \in RequestRecord /\ Sound(req[q]) /\ req \in [Request -> RequestRecord]
  BY DEF Table
<1>2. CASE Become(q, Idle)
  BY <1>2, IdleIsSound, TurnKeepsTable DEF FetchId, FetchSlug, FetchList
<1>3. ASSUME FetchId(q), posts[req[q].post] # NoRow PROVE Table'
  <2> DEFINE r == [req[q] EXCEPT !.pc = "fillId", !.held = posts[req[q].post]]
  <2>1. req[q].post \in Post /\ posts[req[q].post] \in Row
    BY <1>1, <1>3 DEF FetchId, At, Sound, SoundIn, Table, RowOrNone
  <2>2. r \in RequestRecord /\ SoundIn(r, posts)
    BY <1>1, <2>1 DEF RequestRecord, Pc, Reading, RowOrNone, SoundIn, HoldsRow, HasPost
  <2>3. Become(q, r)
    BY <1>3 DEF FetchId, Become
  <2> QED BY <1>3, <2>2, <2>3, TurnKeepsTable DEF FetchId
<1>4. ASSUME NEW p \in Post, posts[p] # NoRow, FetchSlug(q),
             req' = [req EXCEPT ![q].pc = "fillSlug", ![q].post = p, ![q].held = posts[p]]
      PROVE  Table'
  <2> DEFINE r == [req[q] EXCEPT !.pc = "fillSlug", !.post = p, !.held = posts[p]]
  <2>1. posts[p] \in Row
    BY <1>4 DEF Table, RowOrNone
  <2>2. req[q].slug \in Slug
    BY <1>1, <1>4 DEF FetchSlug, At, Sound, SoundIn
  <2>3. r \in RequestRecord /\ SoundIn(r, posts)
    BY <1>1, <2>1, <2>2 DEF RequestRecord, Pc, Reading, RowOrNone, SoundIn, HoldsRow, HasPost
  <2>4. Become(q, r)
    BY <1>4 DEF Become
  <2> QED BY <1>4, <2>3, <2>4, TurnKeepsTable DEF FetchSlug
<1>5. CASE FetchList(q)
  <2> DEFINE r == [req[q] EXCEPT !.pc = "fillList"]
  <2>1. r \in RequestRecord /\ SoundIn(r, posts)
    BY <1>1 DEF RequestRecord, Pc, Reading, SoundIn, HoldsRow, HasPost
  <2>2. Become(q, r)
    BY <1>5 DEF FetchList, Goto, Become
  <2> QED BY <1>5, <2>1, <2>2, TurnKeepsTable DEF FetchList
<1> QED BY <1>2, <1>3, <1>4, <1>5 DEF FetchId, FetchSlug

LEMMA FillKeepsTable ==
  ASSUME Table, NEW q \in Request,
         FillId(q) \/ FillSlug(q) \/ FillList(q) \/ DropSlug(q) \/ Saved(q) \/ DropIdFails(q)
  PROVE  Table'
<1>1. req[q] \in RequestRecord /\ Sound(req[q]) /\ req \in [Request -> RequestRecord]
  BY DEF Table
<1>2. CASE FillId(q) \/ FillList(q) \/ DropSlug(q)
  <2>1. Become(q, Idle) /\ posts' = posts /\ now' = now /\ UNCHANGED faults
    BY <1>2 DEF FillId, FillList, DropSlug
  <2> QED BY <2>1, IdleIsSound, TurnKeepsTable
<1>3. CASE FillSlug(q)
  <2> DEFINE r == [req[q] EXCEPT !.pc = "fillId"]
  <2>1. r \in RequestRecord /\ SoundIn(r, posts)
    BY <1>1, <1>3 DEF FillSlug, At, RequestRecord, Pc, Reading, Sound, SoundIn, HoldsRow, HasPost
  <2>2. Become(q, r) /\ (UNCHANGED faults \/ Fault)
    BY <1>3 DEF FillSlug, Goto, Become
  <2> QED BY <1>3, <2>1, <2>2, TurnKeepsTable DEF FillSlug
<1>4. CASE Saved(q) \/ DropIdFails(q)
  <2> DEFINE r == [req[q] EXCEPT !.pc = "dropSlug"]
  <2>1. r \in RequestRecord /\ SoundIn(r, posts)
    BY <1>1, <1>4
       DEF Saved, DropIdFails, At, RequestRecord, Pc, Reading, Sound, SoundIn, HoldsRow, HasPost
  <2>2. Become(q, r) /\ (UNCHANGED faults \/ Fault) /\ posts' = posts /\ now' = now
    BY <1>4 DEF Saved, DropIdFails, Goto, Become
  <2> QED BY <2>1, <2>2, TurnKeepsTable
<1> QED BY <1>2, <1>3, <1>4

LEMMA CacheKeepsTable ==
  ASSUME Table, [CacheNext]_pcVars
  PROVE  Table'
<1>1. ASSUME NEW q \in Request, Start(q) PROVE Table'
  BY <1>1, StoreKeepsTable, StartReadKeepsTable DEF Start, WriterMoves
<1>2. ASSUME NEW q \in Request, Step(q) PROVE Table'
  BY <1>2, StoreKeepsTable, FetchKeepsTable, FillKeepsTable DEF Step, WriterMoves
<1>3. ASSUME NEW q \in Request, DieCached(q) PROVE Table'
  BY <1>3, StoreKeepsTable DEF DieCached
<1>4. CASE UNCHANGED storeVars
  BY <1>4 DEF storeVars, Table, Sound
<1> QED BY <1>1, <1>2, <1>3, <1>4
        DEF CacheNext, Expire, ExpireId, ExpireSlug, ExpireList, pcVars

-----------------------------------------------------------------------------
(* PostCache: the cache against the table *)

CacheShape ==
  /\ idCache \in [Post -> RowOrNone]
  /\ slugCache \in [Slug -> {NoEntry} \union (Post \X Row)]
  /\ lists \in [Request \union {ListKey} -> {"none", "current", "old"}]
  /\ late \subseteq Post

CachedExists == \A p \in Post : idCache[p] # NoRow => posts[p] # NoRow

CacheIInv ==
  /\ Table
  /\ CacheShape
  /\ CachedExists
  /\ StaleOnlyIfRaced

\* What a writer does to the table, as the cache sees it.
LEMMA WriterChange ==
  ASSUME Table, NEW q \in Request, StoreStart(q) \/ StoreStep(q)
  PROVE  /\ \A o \in Request : At(o, "saved") => req'[o] = req[o]
         /\ \A p \in Post : posts[p] # NoRow => posts'[p] # NoRow
         /\ \A p \in Post : posts[p] # NoRow /\ posts'[p] # posts[p] =>
              req'[q].pc = "saved" /\ req'[q].post = p
<1>1. req \in [Request -> RequestRecord] /\ posts \in [Post -> RowOrNone]
  BY DEF Table
<1>2. \A o \in Request : At(o, "saved") => req'[o] = req[o]
  BY <1>1 DEF StoreStart, StoreStep, Create, UpdateFind, PublishFind, Insert, SlugCheck,
     Load, Write, At, Become, Goto
<1>3. CASE Insert(q)
  <2>1. PICK n \in Post :
          /\ posts[n] = NoRow
          /\ posts' = IF Collides(req[q].held.slug, n) THEN posts
                      ELSE [posts EXCEPT ![n] = req[q].held]
    BY <1>3 DEF Insert
  <2>2. \A p \in Post : posts[p] # NoRow => posts'[p] = posts[p]
    BY <1>1, <2>1
  <2> QED BY <1>2, <2>2
<1>4. CASE Write(q)
  <2>1. CASE Become(q, Idle) /\ UNCHANGED posts
    BY <1>2, <2>1
  <2>2. CASE /\ posts' = [posts EXCEPT ![req[q].post] = SavedRow(q)]
             /\ req' = [req EXCEPT ![q].pc = "saved", ![q].base = NoRow]
    <3>1. req[q].post \in Post /\ SavedRow(q) \in Row
      BY <1>4, SavedRowIsRow DEF Write
    <3>2. SavedRow(q) # NoRow
      BY <3>1, NoRowAssumption
    <3>3. req'[q].pc = "saved" /\ req'[q].post = req[q].post
      BY <1>1, <2>2 DEF RequestRecord
    <3> QED BY <1>1, <1>2, <2>2, <3>1, <3>2, <3>3
  <2> QED BY <1>4, <2>1, <2>2 DEF Write
<1>5. CASE posts' = posts
  BY <1>2, <1>5
<1> QED BY <1>3, <1>4, <1>5
        DEF StoreStart, StoreStep, Create, UpdateFind, PublishFind, SlugCheck, Load

LEMMA WriterKeepsCache ==
  ASSUME CacheIInv, NEW q \in Request, WriterMoves(StoreStart(q) \/ StoreStep(q))
  PROVE  CacheShape' /\ CachedExists' /\ StaleOnlyIfRaced'
<1>1. Table /\ CacheShape /\ CachedExists /\ StaleOnlyIfRaced
  BY DEF CacheIInv
<1>2. UNCHANGED <<idCache, slugCache, late>> /\ (StoreStart(q) \/ StoreStep(q))
  BY DEF WriterMoves
<1>3. CacheShape'
  <2>1. lists' \in [Request \union {ListKey} -> {"none", "current", "old"}]
    BY <1>1 DEF WriterMoves, Aged, CacheShape
  <2> QED BY <1>1, <1>2, <2>1 DEF CacheShape
<1>4. CachedExists'
  BY <1>1, <1>2, WriterChange DEF CachedExists
<1>5. StaleOnlyIfRaced'
  <2> SUFFICES ASSUME NEW p \in Post, idCache[p] \notin {NoRow, posts'[p]}, p \notin late
               PROVE  \E o \in Request : req'[o].pc = "saved" /\ req'[o].post = p
    BY <1>2 DEF StaleOnlyIfRaced, At
  <2>1. posts[p] # NoRow
    BY <1>1 DEF CachedExists
  <2>2. CASE posts'[p] # posts[p]
    BY <1>1, <1>2, <2>1, <2>2, WriterChange
  <2>3. CASE posts'[p] = posts[p]
    <3>1. PICK o \in Request : At(o, "saved") /\ req[o].post = p
      BY <1>1, <2>3 DEF StaleOnlyIfRaced
    <3> QED BY <1>1, <1>2, <3>1, WriterChange DEF At
  <2> QED BY <2>2, <2>3
<1> QED BY <1>3, <1>4, <1>5

\* Reading up to the fill, the entries by slug, and the lists leave the entries by id alone.
LEMMA OthersKeepCache ==
  ASSUME CacheIInv, NEW q \in Request,
         \/ \E p \in Post : GetById(q, p)
         \/ \E s \in Slug : GetBySlug(q, s)
         \/ GetList(q) \/ FetchId(q) \/ FetchSlug(q) \/ FetchList(q)
         \/ FillSlug(q) \/ FillList(q) \/ DropSlug(q)
  PROVE  CacheShape' /\ CachedExists' /\ StaleOnlyIfRaced'
<1>1. /\ req \in [Request -> RequestRecord] /\ Sound(req[q])
      /\ CacheShape /\ CachedExists /\ StaleOnlyIfRaced
  BY DEF CacheIInv, Table
<1>2. /\ UNCHANGED <<posts, idCache, late>>
      /\ ~At(q, "saved")
      /\ \A o \in Request \ {q} : req'[o] = req[o]
  BY <1>1 DEF GetById, GetBySlug, GetList, FetchId, FetchSlug, FetchList, FillSlug,
     FillList, DropSlug, At, Become, Goto, cacheVars
<1>3. slugCache' \in [Slug -> {NoEntry} \union (Post \X Row)]
  <2>1. CASE FillSlug(q)
    <3>1. <<req[q].post, req[q].held>> \in Post \X Row
      BY <1>1, <2>1 DEF FillSlug, At, Sound, SoundIn, HoldsRow, HasPost
    <3> QED BY <1>1, <2>1, <3>1 DEF FillSlug, CacheShape
  <2>2. CASE DropSlug(q)
    BY <1>1, <2>2 DEF DropSlug, CacheShape
  <2> QED BY <1>1, <2>1, <2>2 DEF GetById, GetBySlug, GetList, FetchId, FetchSlug,
             FetchList, FillList, CacheShape, cacheVars
<1>4. lists' \in [Request \union {ListKey} -> {"none", "current", "old"}]
  <2>1. CASE FetchList(q)
    BY <1>1, <2>1 DEF FetchList, CacheShape
  <2>2. CASE FillList(q)
    BY <1>1, <2>2 DEF FillList, CacheShape
  <2> QED BY <1>1, <2>1, <2>2 DEF GetById, GetBySlug, GetList, FetchId, FetchSlug,
             FillSlug, DropSlug, CacheShape, cacheVars
<1>5. CacheShape' /\ CachedExists'
  BY <1>1, <1>2, <1>3, <1>4 DEF CacheShape, CachedExists
<1>6. StaleOnlyIfRaced'
  BY <1>1, <1>2 DEF StaleOnlyIfRaced, At
<1> QED BY <1>5, <1>6

LEMMA FillIdKeepsCache ==
  ASSUME CacheIInv, NEW q \in Request, FillId(q)
  PROVE  CacheShape' /\ CachedExists' /\ StaleOnlyIfRaced'
<1> DEFINE p == req[q].post
<1>1. /\ req \in [Request -> RequestRecord] /\ Sound(req[q])
      /\ CacheShape /\ CachedExists /\ StaleOnlyIfRaced
  BY DEF CacheIInv, Table
<1>2. p \in Post /\ posts[p] \in Row /\ req[q].held \in Row
  BY <1>1 DEF FillId, At, Sound, SoundIn, HoldsRow, HasPost
<1>3. CacheShape'
  BY <1>1, <1>2 DEF FillId, CacheShape, RowOrNone
<1>4. CachedExists'
  BY <1>1, <1>2, NoRowAssumption DEF FillId, CacheShape, CachedExists
<1>5. StaleOnlyIfRaced'
  <2>1. ~At(q, "saved") /\ \A o \in Request \ {q} : req'[o] = req[o]
    BY <1>1 DEF FillId, At, Become
  <2>2. \A o \in Post \ {p} : idCache'[o] = idCache[o] /\ (o \in late' <=> o \in late)
    BY <1>1 DEF FillId, CacheShape
  <2>3. idCache'[p] = req[q].held /\ (req[q].held = posts[p] \/ p \in late')
    BY <1>1, <1>2 DEF FillId, CacheShape
  <2>4. posts' = posts
    BY DEF FillId
  <2> HIDE DEF p
  <2> SUFFICES ASSUME NEW o \in Post, idCache'[o] \notin {NoRow, posts[o]}, o \notin late'
               PROVE  \E w \in Request : req'[w].pc = "saved" /\ req'[w].post = o
    BY <2>4 DEF StaleOnlyIfRaced, At
  <2>5. o # p
    BY <2>3
  <2>6. PICK w \in Request : At(w, "saved") /\ req[w].post = o
    BY <1>1, <2>2, <2>5 DEF StaleOnlyIfRaced
  <2> QED BY <2>1, <2>6 DEF At
<1> QED BY <1>3, <1>4, <1>5

\* The end of a request that saved: the entry is dropped, or counts as late.
LEMMA EndOfSaveKeepsCache ==
  ASSUME CacheIInv, NEW q \in Request, Saved(q) \/ DropIdFails(q) \/ DieCached(q)
  PROVE  CacheShape' /\ CachedExists' /\ StaleOnlyIfRaced'
<1> DEFINE p == req[q].post
<1>1. /\ req \in [Request -> RequestRecord] /\ Sound(req[q])
      /\ CacheShape /\ CachedExists /\ StaleOnlyIfRaced
  BY DEF CacheIInv, Table
<1>2. At(q, "saved") => p \in Post
  BY <1>1 DEF At, Sound, SoundIn, HasPost
<1>3. /\ posts' = posts /\ slugCache' = slugCache
      /\ \A o \in Request \ {q} : req'[o] = req[o]
  BY <1>1 DEF Saved, DropIdFails, DieCached, Die, Become, Goto, cacheVars
<1>4. CASE Saved(q)
  <2>1. idCache' = [idCache EXCEPT ![p] = NoRow] /\ late' = late \ {p} /\ lists' = lists
    BY <1>4 DEF Saved, LeftAfterSave
  <2>2. CacheShape' /\ CachedExists'
    BY <1>1, <1>3, <2>1 DEF CacheShape, CachedExists, RowOrNone
  <2>3. p \in Post
    BY <1>2, <1>4 DEF Saved
  <2> HIDE DEF p
  <2> SUFFICES ASSUME NEW o \in Post, idCache'[o] \notin {NoRow, posts[o]}, o \notin late'
               PROVE  \E w \in Request : req'[w].pc = "saved" /\ req'[w].post = o
    BY <1>3, <2>2 DEF StaleOnlyIfRaced, At
  <2>4. o # p
    BY <1>1, <2>1 DEF CacheShape
  <2>5. idCache'[o] = idCache[o] /\ o \notin late
    BY <1>1, <2>1, <2>4 DEF CacheShape
  <2>6. PICK w \in Request : At(w, "saved") /\ req[w].post = o
    BY <1>1, <2>5 DEF StaleOnlyIfRaced
  <2> QED BY <1>3, <2>4, <2>6 DEF At, p
<1>5. CASE DropIdFails(q) \/ DieCached(q)
  <2>1. idCache' = idCache /\ (At(q, "saved") => late' = late \union {p})
        /\ (~At(q, "saved") => late' = late)
    BY <1>5 DEF DropIdFails, DieCached, cacheVars
  <2>2. CacheShape' /\ CachedExists'
    <3>1. lists' \in [Request \union {ListKey} -> {"none", "current", "old"}]
      BY <1>1, <1>5 DEF DropIdFails, DieCached, CacheShape, cacheVars
    <3> QED BY <1>1, <1>2, <1>3, <2>1, <3>1 DEF CacheShape, CachedExists
  <2> HIDE DEF p
  <2> SUFFICES ASSUME NEW o \in Post, idCache[o] \notin {NoRow, posts[o]}, o \notin late'
               PROVE  \E w \in Request : req'[w].pc = "saved" /\ req'[w].post = o
    BY <1>3, <2>1, <2>2 DEF StaleOnlyIfRaced, At
  <2>3. PICK w \in Request : At(w, "saved") /\ req[w].post = o
    BY <1>1, <2>1 DEF StaleOnlyIfRaced
  <2>4. w # q
    BY <2>1, <2>3 DEF p
  <2> QED BY <1>3, <2>3, <2>4 DEF At
<1> QED BY <1>4, <1>5

LEMMA ExpireKeepsCache ==
  ASSUME CacheIInv, Expire
  PROVE  CacheShape' /\ CachedExists' /\ StaleOnlyIfRaced'
<1>1. CacheShape /\ CachedExists /\ StaleOnlyIfRaced
  BY DEF CacheIInv
<1>2. ASSUME NEW p \in Post, ExpireId(p)
      PROVE  CacheShape' /\ CachedExists' /\ StaleOnlyIfRaced'
  BY <1>1, <1>2 DEF ExpireId, storeVars, CacheShape, CachedExists, StaleOnlyIfRaced,
     RowOrNone, At
<1>3. ASSUME NEW s \in Slug, ExpireSlug(s)
      PROVE  CacheShape' /\ CachedExists' /\ StaleOnlyIfRaced'
  BY <1>1, <1>3 DEF ExpireSlug, storeVars, CacheShape, CachedExists, StaleOnlyIfRaced, At
<1>4. CASE ExpireList
  BY <1>1, <1>4 DEF ExpireList, storeVars, CacheShape, CachedExists, StaleOnlyIfRaced, At
<1> QED BY <1>2, <1>3, <1>4 DEF Expire

THEOREM CacheInvariant == CacheSpec => []CacheIInv
<1>1. CacheInit => CacheIInv
  <2> SUFFICES ASSUME CacheInit PROVE CacheIInv
    OBVIOUS
  <2>1. Table
    BY InitTable DEF CacheInit
  <2>2. CacheShape /\ CachedExists /\ StaleOnlyIfRaced
    BY DEF CacheInit, CacheShape, CachedExists, StaleOnlyIfRaced, RowOrNone
  <2> QED BY <2>1, <2>2 DEF CacheIInv
<1>2. CacheIInv /\ [CacheNext]_pcVars => CacheIInv'
  <2> SUFFICES ASSUME CacheIInv, [CacheNext]_pcVars PROVE CacheIInv'
    OBVIOUS
  <2>1. Table'
    BY CacheKeepsTable DEF CacheIInv
  <2>2. CASE UNCHANGED pcVars
    BY <2>2 DEF pcVars, cacheVars, storeVars, CacheIInv, Table, Sound, CacheShape,
       CachedExists, StaleOnlyIfRaced, At
  <2>3. ASSUME NEW q \in Request, Start(q) \/ Step(q) \/ DieCached(q) PROVE CacheIInv'
    <3>1. CASE WriterMoves(StoreStart(q)) \/ WriterMoves(StoreStep(q))
      <4>1. WriterMoves(StoreStart(q) \/ StoreStep(q))
        BY <3>1 DEF WriterMoves
      <4> QED BY <2>1, <4>1, WriterKeepsCache DEF CacheIInv
    <3>2. CASE FillId(q)
      BY <2>1, <3>2, FillIdKeepsCache DEF CacheIInv
    <3>3. CASE Saved(q) \/ DropIdFails(q) \/ DieCached(q)
      BY <2>1, <3>3, EndOfSaveKeepsCache DEF CacheIInv
    <3>4. CASE \/ \E p \in Post : GetById(q, p)
               \/ \E s \in Slug : GetBySlug(q, s)
               \/ GetList(q) \/ FetchId(q) \/ FetchSlug(q) \/ FetchList(q)
               \/ FillSlug(q) \/ FillList(q) \/ DropSlug(q)
      BY <2>1, <3>4, OthersKeepCache DEF CacheIInv
    <3> QED BY <2>3, <3>1, <3>2, <3>3, <3>4 DEF Start, Step
  <2>4. CASE Expire
    BY <2>1, <2>4, ExpireKeepsCache DEF CacheIInv
  <2> QED BY <2>2, <2>3, <2>4 DEF CacheNext
<1> QED BY <1>1, <1>2, PTL DEF CacheSpec

LEMMA FreeAreRequests == CacheSpec => [](free \subseteq Request)
<1>1. CacheInit => free \subseteq Request
  BY DEF CacheInit, StoreInit
<1>2. free \subseteq Request /\ [CacheNext]_pcVars => (free \subseteq Request)'
  <2> SUFFICES ASSUME free \subseteq Request, [CacheNext]_pcVars
               PROVE  free' \subseteq Request
    OBVIOUS
  <2>1. ASSUME NEW q \in Request, StoreStart(q) \/ StoreStep(q) \/ DieCached(q)
        PROVE  free' \subseteq free \union {q}
    BY <2>1 DEF StoreStart, StoreStep, Create, UpdateFind, PublishFind, Insert, SlugCheck,
       Load, Write, FreeWithout, DieCached, Die
  <2>2. CASE UNCHANGED free
    BY <2>2
  <2> QED BY <2>1, <2>2 DEF CacheNext, Start, Step, WriterMoves, GetById, GetBySlug, GetList,
          FetchId, FillId, FetchSlug, FillSlug, FetchList, FillList, Saved, DropIdFails,
          DropSlug, Expire, ExpireId, ExpireSlug, ExpireList, storeVars, pcVars
<1> QED BY <1>1, <1>2, PTL DEF CacheSpec

\* The table, the requests, the cache and the bounds keep their types.
THEOREM CacheTypes == CacheSpec => []CacheTypeOK
<1>1. CacheIInv /\ free \subseteq Request => CacheTypeOK
  BY DEF CacheIInv, Table, CacheShape, CacheTypeOK, RequestRecord, Pc
<1> QED BY <1>1, CacheInvariant, FreeAreRequests, PTL

\* For any number of overlapping requests, an entry post:<id> that differs from the
\* table has one of three reasons: its invalidation is still to come, was never made,
\* or came before a slow reader filled the entry (post.controller.ts, findOne against
\* update and publish).
THEOREM StaleEntriesAreRaced == CacheSpec => []StaleOnlyIfRaced
<1>1. CacheIInv => StaleOnlyIfRaced
  BY DEF CacheIInv
<1> QED BY <1>1, CacheInvariant, PTL

-----------------------------------------------------------------------------
(* Tags and comments, beside the posts.  That a duplicate written by nobody *)
(* meanwhile meets a check, and not the constraint, needs what a request   *)
(* knows between its checks and its INSERT.                                *)

TagAsker == [pc : {"slug", "insert"}, name : Name, slug : Slug \union {NoSlug}, raced : BOOLEAN]

\* What a request that no other has overtaken knows of the tags.
Unraced(r) ==
  r.pc \in {"slug", "insert"} /\ ~r.raced =>
    /\ ~NameTaken(r.name)
    /\ r.pc = "insert" /\ r.slug # NoSlug => ~TagSlugTaken(r.slug)

DiscussionIInv ==
  /\ DiscussionTypeOK
  /\ DuplicateTagsAreConflicts
  /\ \A q \in Asker : Unraced(asker[q])

\* What a request holds follows from where it is.
LEMMA AskerFacts ==
  ASSUME DiscussionIInv, NEW q \in Asker
  PROVE  /\ asker[q] \in AskerState
         /\ asker[q].pc \in {"slug", "insert"} => asker[q] \in TagAsker
         /\ asker[q].pc = "comment" => asker[q].post \in Post /\ asker[q].author \in AnyAuthor
         /\ asker[q].pc = "remove" => asker[q].comment \in Comment
BY DEF DiscussionIInv, DiscussionTypeOK, AskerState, TagAsker, Quiet

LEMMA NewTagIsRow ==
  ASSUME NEW n \in Name, NEW s \in Slug \union {NoSlug}
  PROVE  /\ NewTag(n, s) \in TagRow /\ NewTag(n, s).name = Trimmed[n]
         /\ NewTag(n, s).slug = IF s = NoSlug THEN TagSlugOf[n] ELSE s
         /\ NoTagRow \notin TagRow
BY DiscussionAssumption DEF NewTag, TagRow

\* A request moves and touches neither table.
LEMMA AskerMoves ==
  ASSUME DiscussionIInv, NEW q \in Asker, NEW r \in AskerState, Unraced(r),
         asker' = [asker EXCEPT ![q] = r], UNCHANGED tags
  PROVE  asker' \in [Asker -> AskerState] /\ \A o \in Asker : Unraced(asker[o])'
<1>1. asker \in [Asker -> AskerState]
  BY DEF DiscussionIInv, DiscussionTypeOK
<1>2. ASSUME NEW o \in Asker PROVE Unraced(asker[o])'
  <2>1. asker'[o] = r \/ asker'[o] = asker[o]
    BY <1>1
  <2>2. Unraced(asker[o])
    BY DEF DiscussionIInv
  <2> QED BY <2>1, <2>2 DEF Unraced, NameTaken, TagSlugTaken, StoredTags
<1> QED BY <1>1, <1>2

LEMMA QuietIsUnraced == Quiet \in AskerState /\ Unraced(Quiet)
BY DEF Quiet, AskerState, Unraced

\* Steps of a request that write neither table.
LEMMA LookKeeps ==
  ASSUME DiscussionIInv, NEW q \in Asker, NEW r \in AskerState, Unraced(r),
         asker' = [asker EXCEPT ![q] = r],
         UNCHANGED <<posts, tags, comments, surprised, removed>>
  PROVE  DiscussionIInv'
<1>1. asker' \in [Asker -> AskerState] /\ \A o \in Asker : Unraced(asker[o])'
  BY AskerMoves
<1>2. DiscussionTypeOK'
  BY <1>1 DEF DiscussionIInv, DiscussionTypeOK
<1>3. DuplicateTagsAreConflicts'
  BY DEF DiscussionIInv, DuplicateTagsAreConflicts
<1> QED BY <1>1, <1>2, <1>3 DEF DiscussionIInv

LEMMA CheckNameKeeps ==
  ASSUME DiscussionIInv, UNCHANGED posts, NEW q \in Asker, NEW n \in Name,
         NEW s \in Slug \union {NoSlug}, CheckName(q, n, s)
  PROVE  DiscussionIInv'
<1> DEFINE r == [pc |-> IF s = NoSlug THEN "insert" ELSE "slug",
                 name |-> n, slug |-> s, raced |-> FALSE]
<1>1. /\ asker' = [asker EXCEPT ![q] = r] /\ ~NameTaken(n)
      /\ UNCHANGED <<tags, comments, surprised, removed>>
  BY DEF CheckName
<1>2. r \in AskerState /\ r.name = n /\ r.slug = s /\ (s # NoSlug => r.pc = "slug")
  BY DEF AskerState
<1> HIDE DEF r
<1>3. Unraced(r)
  BY <1>1, <1>2 DEF Unraced
<1> QED BY <1>1, <1>2, <1>3, LookKeeps

LEMMA CheckSlugKeeps ==
  ASSUME DiscussionIInv, UNCHANGED posts, NEW q \in Asker, CheckSlug(q)
  PROVE  DiscussionIInv'
<1>1. asker[q].pc = "slug" /\ asker[q] \in TagAsker /\ Unraced(asker[q])
  BY AskerFacts DEF CheckSlug, AskerAt, DiscussionIInv
<1>2. UNCHANGED <<tags, comments, surprised, removed>>
  BY DEF CheckSlug
<1>3. CASE TagSlugTaken(asker[q].slug)
  <2>1. asker' = [asker EXCEPT ![q] = Quiet]
    BY <1>3 DEF CheckSlug, DiscussionIInv, DiscussionTypeOK
  <2> QED BY <1>2, <2>1, QuietIsUnraced, LookKeeps
<1>4. CASE ~TagSlugTaken(asker[q].slug)
  <2> DEFINE r == [asker[q] EXCEPT !.pc = "insert"]
  <2>1. asker' = [asker EXCEPT ![q] = r]
    BY <1>4 DEF CheckSlug, DiscussionIInv, DiscussionTypeOK
  <2>2. /\ r \in TagAsker /\ r.name = asker[q].name /\ r.slug = asker[q].slug
        /\ r.raced = asker[q].raced
    BY <1>1 DEF TagAsker
  <2> HIDE DEF r
  <2>3. r \in AskerState
    BY <2>2 DEF TagAsker, AskerState
  <2>4. Unraced(r)
    BY <1>1, <1>4, <2>2 DEF Unraced
  <2> QED BY <1>2, <2>1, <2>3, <2>4, LookKeeps
<1> QED BY <1>3, <1>4

\* What is stored does not clash with the rest, and whoever was about to store is told.
LEMMA InsertTagKeeps ==
  ASSUME DiscussionIInv, UNCHANGED posts, NEW q \in Asker, NEW t \in Tag, InsertTag(q, t)
  PROVE  DiscussionIInv'
<1>1. asker[q].pc = "insert" /\ asker[q] \in TagAsker
  BY AskerFacts DEF InsertTag, AskerAt
<1>2. PICK row \in TagRow :
        /\ tags[t] = NoTagRow /\ ~Clashes(row) /\ tags' = [tags EXCEPT ![t] = row]
        /\ row # NoTagRow
  <2>1. NewTag(asker[q].name, asker[q].slug) \in TagRow /\ NoTagRow \notin TagRow
    BY <1>1, NewTagIsRow DEF TagAsker
  <2> QED BY <2>1 DEF InsertTag
<1>3. /\ asker' = [r \in Asker |->
           IF r = q THEN Quiet
           ELSE IF asker[r].pc \in {"slug", "insert"} THEN [asker[r] EXCEPT !.raced = TRUE]
           ELSE asker[r]]
      /\ UNCHANGED <<comments, surprised, removed>>
  BY DEF InsertTag
<1>4. ASSUME NEW o \in Asker
      PROVE  asker'[o] \in AskerState /\ Unraced(asker[o])'
  <2>1. CASE o = q
    BY <1>3, <2>1, QuietIsUnraced DEF Unraced, Quiet
  <2>2. CASE o # q /\ asker[o].pc \in {"slug", "insert"}
    <3> DEFINE r == [asker[o] EXCEPT !.raced = TRUE]
    <3>1. r \in TagAsker /\ r.raced = TRUE
      BY <2>2, AskerFacts DEF TagAsker
    <3>2. asker'[o] = r
      BY <1>3, <2>2
    <3> HIDE DEF r
    <3> QED BY <3>1, <3>2 DEF TagAsker, AskerState, Unraced
  <2>3. CASE o # q /\ asker[o].pc \notin {"slug", "insert"}
    <3>1. asker'[o] = asker[o]
      BY <1>3, <2>3
    <3> QED BY <2>3, <3>1, AskerFacts DEF Unraced
  <2> QED BY <2>1, <2>2, <2>3
<1>5. DiscussionTypeOK'
  <2>1. asker' \in [Asker -> AskerState]
    BY <1>3, <1>4
  <2> QED BY <1>2, <1>3, <2>1 DEF DiscussionIInv, DiscussionTypeOK
<1>6. DuplicateTagsAreConflicts'
  BY <1>3 DEF DiscussionIInv, DuplicateTagsAreConflicts
<1> QED BY <1>4, <1>5, <1>6 DEF DiscussionIInv

\* Nobody wrote meanwhile, and the name was trimmed and the slug given: the checks
\* would have found what the constraint found.
LEMMA ClashOnInsertKeeps ==
  ASSUME DiscussionIInv, UNCHANGED posts, NEW q \in Asker, ClashOnInsert(q)
  PROVE  DiscussionIInv'
<1>1. PICK n \in Name, s \in Slug \union {NoSlug}, raced \in BOOLEAN :
        /\ asker[q].pc = "insert" /\ asker[q].name = n /\ asker[q].slug = s
        /\ asker[q].raced = raced /\ Unraced(asker[q])
  BY AskerFacts DEF ClashOnInsert, AskerAt, DiscussionIInv, TagAsker
<1>2. /\ Clashes(NewTag(n, s))
      /\ surprised' = IF raced THEN surprised ELSE surprised \union {<<n, s>>}
      /\ asker' = [asker EXCEPT ![q] = Quiet]
      /\ UNCHANGED <<tags, comments, removed>>
  BY <1>1 DEF ClashOnInsert, Answered
<1>3. ~raced => Trimmed[n] # n \/ s = NoSlug
  <2> SUFFICES ASSUME ~raced, Trimmed[n] = n, s # NoSlug PROVE FALSE
    OBVIOUS
  <2>1. NewTag(n, s).name = n /\ NewTag(n, s).slug = s
    BY NewTagIsRow
  <2>2. ~NameTaken(n) /\ ~TagSlugTaken(s)
    BY <1>1 DEF Unraced
  <2> QED BY <1>2, <2>1, <2>2 DEF Clashes, NameTaken, TagSlugTaken
<1>4. asker' \in [Asker -> AskerState] /\ \A o \in Asker : Unraced(asker[o])'
  BY <1>2, AskerMoves, QuietIsUnraced
<1>5. DiscussionTypeOK'
  BY <1>2, <1>4 DEF DiscussionIInv, DiscussionTypeOK
<1>6. DuplicateTagsAreConflicts'
  BY <1>2, <1>3 DEF DiscussionIInv, DuplicateTagsAreConflicts, StoredTags
<1> QED BY <1>4, <1>5, <1>6 DEF DiscussionIInv

LEMMA FindKeeps ==
  ASSUME DiscussionIInv, UNCHANGED posts, NEW q \in Asker,
         \/ \E p \in Post, a \in AnyAuthor : FindPost(q, p, a)
         \/ \E c \in Comment : FindComment(q, c)
         \/ GiveUp(q)
  PROVE  DiscussionIInv'
<1>1. UNCHANGED <<tags, comments, surprised, removed>>
  BY DEF FindPost, FindComment, GiveUp
<1>2. ASSUME NEW p \in Post, NEW a \in AnyAuthor, FindPost(q, p, a) PROVE DiscussionIInv'
  <2> DEFINE r == [pc |-> "comment", post |-> p, author |-> a]
  <2>1. r \in AskerState /\ Unraced(r) /\ asker' = [asker EXCEPT ![q] = r]
    BY <1>2 DEF FindPost, AskerState, Unraced
  <2> HIDE DEF r
  <2> QED BY <1>1, <2>1, LookKeeps
<1>3. ASSUME NEW c \in Comment, FindComment(q, c) PROVE DiscussionIInv'
  <2> DEFINE r == [pc |-> "remove", comment |-> c]
  <2>1. r \in AskerState /\ Unraced(r) /\ asker' = [asker EXCEPT ![q] = r]
    BY <1>3 DEF FindComment, AskerState, Unraced
  <2> HIDE DEF r
  <2> QED BY <1>1, <2>1, LookKeeps
<1>4. CASE GiveUp(q)
  BY <1>1, <1>4, QuietIsUnraced, LookKeeps DEF GiveUp, Answered
<1> QED BY <1>2, <1>3, <1>4

\* The foreign keys look again at what the request has looked at.
LEMMA SaveCommentKeeps ==
  ASSUME DiscussionIInv, UNCHANGED posts, NEW q \in Asker, NEW c \in Comment, SaveComment(q, c)
  PROVE  DiscussionIInv'
<1>1. PICK p \in Post, a \in AnyAuthor : asker[q].post = p /\ asker[q].author = a
  BY AskerFacts DEF SaveComment, AskerAt
<1>2. /\ c \notin removed
      /\ comments' = IF Refers(p, a) THEN [comments EXCEPT ![c] = <<p, a>>] ELSE comments
      /\ asker' = [asker EXCEPT ![q] = Quiet]
      /\ UNCHANGED <<tags, surprised, removed>>
  BY <1>1 DEF SaveComment, NewComment, Answered
<1>3. Refers(p, a) => a \in Author /\ p \in StoredPosts
  BY DEF Refers
<1>4. asker' \in [Asker -> AskerState] /\ \A o \in Asker : Unraced(asker[o])'
  BY <1>2, AskerMoves, QuietIsUnraced
<1>5. DiscussionTypeOK'
  BY <1>2, <1>3, <1>4 DEF DiscussionIInv, DiscussionTypeOK
<1>6. DuplicateTagsAreConflicts'
  BY <1>2 DEF DiscussionIInv, DuplicateTagsAreConflicts, StoredTags
<1> QED BY <1>4, <1>5, <1>6 DEF DiscussionIInv

LEMMA DeleteCommentKeeps ==
  ASSUME DiscussionIInv, UNCHANGED posts, NEW q \in Asker, DeleteComment(q)
  PROVE  DiscussionIInv'
<1>1. PICK c \in Comment : asker[q].comment = c
  BY AskerFacts DEF DeleteComment, AskerAt
<1>2. /\ comments' = [comments EXCEPT ![c] = NoCommentRow]
      /\ removed' = removed \union {c}
      /\ asker' = [asker EXCEPT ![q] = Quiet]
      /\ UNCHANGED <<tags, surprised>>
  BY <1>1 DEF DeleteComment, Answered
<1>3. asker' \in [Asker -> AskerState] /\ \A o \in Asker : Unraced(asker[o])'
  BY <1>2, AskerMoves, QuietIsUnraced
<1>4. DiscussionTypeOK'
  BY <1>2, <1>3 DEF DiscussionIInv, DiscussionTypeOK
<1>5. DuplicateTagsAreConflicts'
  BY <1>2 DEF DiscussionIInv, DuplicateTagsAreConflicts, StoredTags
<1> QED BY <1>3, <1>4, <1>5 DEF DiscussionIInv

LEMMA DiscussingKeeps ==
  StoreIInv /\ DiscussionIInv /\ [Discussing]_<<storeVars, discussionVars>>
    => StoreIInv' /\ DiscussionIInv'
<1> SUFFICES ASSUME StoreIInv, DiscussionIInv, [Discussing]_<<storeVars, discussionVars>>
             PROVE  StoreIInv' /\ DiscussionIInv'
  OBVIOUS
<1>1. StoreIInv'
  BY StoreNextKeeps DEF Discussing
<1>2. CASE DiscussionStep /\ UNCHANGED storeVars
  <2>1. UNCHANGED posts
    BY <1>2 DEF storeVars
  <2>2. DiscussionIInv'
    BY <1>2, <2>1, CheckNameKeeps, CheckSlugKeeps, ClashOnInsertKeeps, InsertTagKeeps, FindKeeps,
       SaveCommentKeeps, DeleteCommentKeeps DEF DiscussionStep
  <2> QED BY <1>1, <2>2
<1>3. CASE [StoreNext]_storeVars /\ UNCHANGED discussionVars
  <2>1. UNCHANGED <<tags, comments, asker, surprised, removed>>
    BY <1>3 DEF discussionVars
  <2>2. /\ DiscussionTypeOK' /\ DuplicateTagsAreConflicts'
        /\ \A q \in Asker : Unraced(asker[q])'
    BY <2>1 DEF DiscussionIInv, DiscussionTypeOK, DuplicateTagsAreConflicts, StoredTags,
       Unraced, NameTaken, TagSlugTaken
  <2> QED BY <1>1, <2>2 DEF DiscussionIInv
<1> QED BY <1>2, <1>3 DEF Discussing, storeVars, discussionVars

LEMMA DiscussionStarts == DiscussionInit => DiscussionIInv
<1> SUFFICES ASSUME DiscussionInit PROVE DiscussionIInv
  OBVIOUS
<1>1. /\ tags = [t \in Tag |-> NoTagRow] /\ comments = [c \in Comment |-> NoCommentRow]
      /\ asker = [q \in Asker |-> Quiet] /\ surprised = {} /\ removed = {}
  BY DEF DiscussionInit
<1>2. DiscussionTypeOK /\ \A q \in Asker : Unraced(asker[q])
  BY <1>1, QuietIsUnraced DEF DiscussionTypeOK
<1>3. DuplicateTagsAreConflicts
  BY <1>1 DEF DuplicateTagsAreConflicts
<1> QED BY <1>2, <1>3 DEF DiscussionIInv

LEMMA InitDiscussionIInv == StoreInit /\ DiscussionInit => StoreIInv /\ DiscussionIInv
BY InitStoreIInv, DiscussionStarts

\* The tables of the tags and comments and their requests keep their types: a stored
\* comment always refers to a post id and a registered author.
THEOREM DiscussionTypes == DiscussionSpec => []DiscussionTypeOK
<1>1. DiscussionIInv => DiscussionTypeOK
  BY DEF DiscussionIInv
<1> QED BY <1>1, InitDiscussionIInv, DiscussingKeeps, PTL DEF DiscussionSpec

\* Any number of requests, any names: what the checks should refuse never gets as far
\* as the constraint unless the name was blank-padded, the slug derived, or another
\* request wrote in between.
THEOREM DuplicatesAreConflicts == DiscussionSpec => []DuplicateTagsAreConflicts
<1>1. DiscussionIInv => DuplicateTagsAreConflicts
  BY DEF DiscussionIInv
<1> QED BY <1>1, InitDiscussionIInv, DiscussingKeeps, PTL DEF DiscussionSpec

=============================================================================
