------------------------------ MODULE PostStore ------------------------------
(***************************************************************************)
(* The posts: the table behind PostRepository and the requests that create,*)
(* update and publish posts through it.                                    *)
(*                                                                         *)
(* A request finds the row, changes a Post object in memory and saves the  *)
(* whole object.  TypeORM's save is two statements: it loads the row by id,*)
(* and updates the columns in which the object differs from what it loaded.*)
(* A request moves at every await; its first await is part of the action   *)
(* that starts it.  Titles stand for the text of a post: the content       *)
(* decides nothing.  The author, the view count, createdAt and updatedAt   *)
(* are left out.                                                           *)
(***************************************************************************)
EXTENDS Naturals

CONSTANTS
  Request,     \* requests in progress at a time
  Post,        \* post ids
  Title,
  Slug,
  SlugOf,      \* generateSlug: title -> slug
  MaxTime,     \* bound: publications in a behaviour
  MaxFaults,   \* bound: requests that die in a behaviour
  NoPost, NoSlug, NoRow   \* "not given" and "not found"

ASSUME PostAssumption ==
  /\ SlugOf \in [Title -> Slug]
  /\ MaxTime \in Nat /\ MaxFaults \in Nat
  /\ NoPost \notin Post /\ NoSlug \notin Slug

VARIABLES
  posts,       \* the table: id -> row
  req,         \* request -> what it awaits, and the objects it holds
  now,         \* the last publication time handed out
  faults,      \* history: requests that died
  free         \* history: requests that know their slug to be free: they found it so
               \* or it is their post's, and no other request has stored it since

storeVars == <<posts, req, now, faults, free>>

Status == {"DRAFT", "PUBLISHED", "ARCHIVED"}
Column == {"title", "slug", "status", "publishedAt"}
Row    == [title : Title, slug : Slug, status : Status, publishedAt : 0..MaxTime]

ASSUME NoRowAssumption == NoRow \notin Row

Waiting == {"slugCheck", "insert", "load", "write", "saved"}
Idle == [pc |-> "idle", post |-> NoPost, slug |-> NoSlug, held |-> NoRow, base |-> NoRow]

At(q, pc) == req[q].pc = pc
Become(q, r) == req' = [req EXCEPT ![q] = r]
Goto(q, pc) == req' = [req EXCEPT ![q].pc = pc]
Fault == faults < MaxFaults /\ faults' = faults + 1

-----------------------------------------------------------------------------
(* Variants with a bug, to show that the properties can fail. *)

\* findBySlug looks for the posts that readers see.
FoundBySlugNoDrafts(s, p) ==
  \E o \in Post \ {p} : posts[o] # NoRow /\ posts[o].slug = s /\ posts[o].status # "DRAFT"

\* The status is stored in the spelling of the data model document.
NewRowLowercase(t, s) ==
  [title |-> t, slug |-> IF s = NoSlug THEN SlugOf[t] ELSE s,
   status |-> "draft", publishedAt |-> 0]

\* An edited post is a draft until it is published again.
EditedAsDraft(row, t, s) ==
  [row EXCEPT !.title = t, !.slug = IF s = NoSlug THEN SlugOf[t] ELSE s, !.status = "DRAFT"]

-----------------------------------------------------------------------------
(* Post and PostRepository *)

NewRow(t, s) ==
  [title |-> t, slug |-> IF s = NoSlug THEN SlugOf[t] ELSE s,
   status |-> "DRAFT", publishedAt |-> 0]

\* updateContent: without a slug of its own the post takes the title's.
Edited(row, t, s) ==
  [row EXCEPT !.title = t, !.slug = IF s = NoSlug THEN SlugOf[t] ELSE s]

Published(row) == [row EXCEPT !.status = "PUBLISHED", !.publishedAt = now + 1]

\* The unique column rejects a slug that another row than that of p has.
Collides(s, p) == \E o \in Post \ {p} : posts[o] # NoRow /\ posts[o].slug = s

\* findBySlug, as the checks of the use cases read it: it finds another row.
FoundBySlug(s, p) == \E o \in Post \ {p} : posts[o] # NoRow /\ posts[o].slug = s

\* save, second statement: only the columns that differ from the loaded row.
Merged(current, base, held) ==
  [c \in Column |-> IF held[c] # base[c] THEN held[c] ELSE current[c]]

-----------------------------------------------------------------------------
(* CreatePostUseCase *)

Create(q) ==
  /\ At(q, "idle")
  /\ \E t \in Title, s \in Slug \union {NoSlug} :
       Become(q, [Idle EXCEPT !.pc = IF s = NoSlug THEN "insert" ELSE "slugCheck",
                              !.held = NewRow(t, s)])
  /\ UNCHANGED <<posts, now, faults, free>>

\* Once q has ended, having stored a row with slug s.
FreeWithout(q, s) == {o \in free \ {q} : req[o].held.slug # s}

\* The INSERT takes a fresh id; a slug that is taken rejects it.
Insert(q) ==
  /\ At(q, "insert")
  /\ \E p \in Post :
       /\ posts[p] = NoRow
       /\ IF Collides(req[q].held.slug, p)
          THEN UNCHANGED posts /\ free' = free \ {q}
          ELSE /\ posts' = [posts EXCEPT ![p] = req[q].held]
               /\ free' = FreeWithout(q, req[q].held.slug)
  /\ Become(q, Idle)
  /\ UNCHANGED <<now, faults>>

(* UpdatePostUseCase *)

UpdateFind(q, p) ==
  /\ At(q, "idle")
  /\ posts[p] # NoRow
  /\ \E t \in Title, s \in Slug \union {NoSlug} :
       Become(q, [Idle EXCEPT
         !.pc = IF s \in {NoSlug, posts[p].slug} THEN "load" ELSE "slugCheck",
         !.post = p, !.held = Edited(posts[p], t, s)])
  /\ free' = IF req'[q].held.slug = posts[p].slug THEN free \union {q} ELSE free
  /\ UNCHANGED <<posts, now, faults>>

\* The check of both use cases for a slug that the caller asked for.
SlugCheck(q) ==
  /\ At(q, "slugCheck")
  /\ IF FoundBySlug(req[q].held.slug, req[q].post)
     THEN Become(q, Idle) /\ UNCHANGED free
     ELSE /\ Goto(q, IF req[q].post = NoPost THEN "insert" ELSE "load")
          /\ free' = free \union {q}
  /\ UNCHANGED <<posts, now, faults>>

(* PublishPostUseCase: publish() throws unless the object is a draft. *)

PublishFind(q, p) ==
  /\ At(q, "idle")
  /\ posts[p] # NoRow
  /\ posts[p].status = "DRAFT"
  /\ now < MaxTime
  /\ now' = now + 1
  /\ Become(q, [Idle EXCEPT !.pc = "load", !.post = p, !.held = Published(posts[p])])
  /\ free' = free \union {q}
  /\ UNCHANGED <<posts, faults>>

(* save and saveWithTransaction *)

Load(q) ==
  /\ At(q, "load")
  /\ req' = [req EXCEPT ![q].pc = "write", ![q].base = posts[req[q].post]]
  /\ UNCHANGED <<posts, now, faults, free>>

SavedRow(q) == Merged(posts[req[q].post], req[q].base, req[q].held)

Write(q) ==
  /\ At(q, "write")
  /\ IF Collides(SavedRow(q).slug, req[q].post)
     THEN Become(q, Idle) /\ UNCHANGED posts /\ free' = free \ {q}
     ELSE /\ posts' = [posts EXCEPT ![req[q].post] = SavedRow(q)]
          /\ req' = [req EXCEPT ![q].pc = "saved", ![q].base = NoRow]
          /\ free' = FreeWithout(q, SavedRow(q).slug)
  /\ UNCHANGED <<now, faults>>

\* The request ends before its time, at any await: its process dies, or the
\* database driver rejects (a rejected commit may well have happened).
Die(q) ==
  /\ ~At(q, "idle")
  /\ Fault
  /\ Become(q, Idle)
  /\ free' = free \ {q}
  /\ UNCHANGED <<posts, now>>

\* What the controller does after the save (module PostCache puts the
\* invalidation here).
Respond(q) ==
  /\ At(q, "saved")
  /\ Become(q, Idle)
  /\ UNCHANGED <<posts, now, faults, free>>

-----------------------------------------------------------------------------
StoreInit ==
  /\ posts = [p \in Post |-> NoRow]
  /\ req = [q \in Request |-> Idle]
  /\ now = 0
  /\ faults = 0
  /\ free = {}

StoreStart(q) ==
  \/ Create(q)
  \/ \E p \in Post : UpdateFind(q, p) \/ PublishFind(q, p)

StoreStep(q) == Insert(q) \/ SlugCheck(q) \/ Load(q) \/ Write(q)

StoreNext == \E q \in Request : StoreStart(q) \/ StoreStep(q) \/ Respond(q) \/ Die(q)

StoreSpec == StoreInit /\ [][StoreNext]_storeVars

-----------------------------------------------------------------------------
(* Properties *)

RowOrNone == Row \union {NoRow}

StoreTypeOK ==
  /\ posts \in [Post -> RowOrNone]
  /\ req \in [Request -> [pc : Waiting \union {"idle"}, post : Post \union {NoPost},
                          slug : Slug \union {NoSlug}, held : RowOrNone, base : RowOrNone]]
  /\ now \in 0..MaxTime
  /\ faults \in 0..MaxFaults
  /\ free \subseteq Request

\* The unique column turns a save away only for a reason: another request stored the
\* slug after this one had found it free (or had read it from its own post), or the
\* slug was made from a title and looked up by nobody.
RefusedOnlyIfRacedOrUnchecked ==
  \A q \in free :
    /\ At(q, "insert") => ~Collides(req[q].held.slug, NoPost)
    /\ At(q, "write") => ~Collides(SavedRow(q).slug, req[q].post)

\* A post that is not a draft, and that no request still holds as one.
SettledPost(p) ==
  /\ posts[p] # NoRow /\ posts[p].status # "DRAFT"
  /\ \A q \in Request : req[q].post = p => req[q].held.status # "DRAFT"

\* A publication is lost only to a request that read the post before it: once those
\* have ended, no later update or publication, in whatever order the two statements
\* of their saves come, makes the post a draft again.
PublicationLasts ==
  [][\A p \in Post : SettledPost(p) => SettledPost(p)']_storeVars

\* The state transitions of the data model: nothing leads from PUBLISHED to DRAFT.
NeverUnpublished ==
  [][\A p \in Post : posts[p] # NoRow /\ posts[p].status = "PUBLISHED"
                     => posts'[p].status # "DRAFT"]_storeVars

=============================================================================
