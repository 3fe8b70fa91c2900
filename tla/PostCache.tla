------------------------------ MODULE PostCache ------------------------------
(***************************************************************************)
(* PostController and PostCacheService over the table of module PostStore: *)
(* reads that fill the cache on a miss, and writes that invalidate after   *)
(* the save.  Keys are post:<id>, post:slug:<slug> and the lists, which    *)
(* are one key here.                                                       *)
(*                                                                         *)
(* A cached list is reduced to whether it is what the table says now; a    *)
(* cached post is the row it was made from.                                *)
(***************************************************************************)
EXTENDS PostStore

CONSTANT ListKey   \* stands for the keys posts:list:*

VARIABLES
  idCache,     \* id -> row cached under post:<id>
  slugCache,   \* slug -> <<id, row>> cached under post:slug:<slug>
  lists,       \* ListKey and each request -> the list cached or held there
  late         \* history: ids whose entry was out of date when it was written,
               \* or outlived a save whose request died or whose delete failed

cacheVars == <<idCache, slugCache, lists>>
pcVars    == <<storeVars, cacheVars, late>>

NoEntry == <<NoPost, NoRow>>
Reading == {"fetchId", "fillId", "fetchSlug", "fillSlug", "fetchList", "fillList", "dropSlug"}

-----------------------------------------------------------------------------
(* Variants with a bug, to show that the properties can fail. *)

\* update puts the object it saved into the cache instead of deleting the entry.
LeftAfterSaveHeld(q) == req[q].held

\* Lists are cached without a TTL.
HasTtlNotLists(kind) == kind # "list"

-----------------------------------------------------------------------------
(* Reads *)

\* CacheService.get: a hit answers the request and changes nothing; a miss, and
\* an error of the store, which reads like one, go on to the table.
Misses(hit) == IF hit THEN Fault ELSE UNCHANGED faults

\* findOne
GetById(q, p) ==
  /\ At(q, "idle")
  /\ Misses(idCache[p] # NoRow)
  /\ Become(q, [Idle EXCEPT !.pc = "fetchId", !.post = p])
  /\ UNCHANGED <<posts, now, free, cacheVars, late>>

FetchId(q) ==
  /\ At(q, "fetchId")
  /\ IF posts[req[q].post] = NoRow
     THEN Become(q, Idle)
     ELSE req' = [req EXCEPT ![q].pc = "fillId", ![q].held = posts[req[q].post]]
  /\ UNCHANGED <<posts, now, free, faults, cacheVars, late>>

\* setPost; findBySlug ends with it too.
FillId(q) ==
  /\ At(q, "fillId")
  /\ idCache' = [idCache EXCEPT ![req[q].post] = req[q].held]
  /\ late' = IF req[q].held = posts[req[q].post] THEN late \ {req[q].post}
             ELSE late \union {req[q].post}
  /\ Become(q, Idle)
  /\ UNCHANGED <<posts, now, free, faults, slugCache, lists>>

\* findBySlug
GetBySlug(q, s) ==
  /\ At(q, "idle")
  /\ Misses(slugCache[s] # NoEntry)
  /\ Become(q, [Idle EXCEPT !.pc = "fetchSlug", !.slug = s])
  /\ UNCHANGED <<posts, now, free, cacheVars, late>>

FetchSlug(q) ==
  /\ At(q, "fetchSlug")
  /\ \/ /\ ~FoundBySlug(req[q].slug, NoPost)
        /\ Become(q, Idle)
     \/ \E p \in Post :
          /\ posts[p] # NoRow
          /\ posts[p].slug = req[q].slug
          /\ req' = [req EXCEPT ![q].pc = "fillSlug", ![q].post = p, ![q].held = posts[p]]
  /\ UNCHANGED <<posts, now, free, faults, cacheVars, late>>

FillSlug(q) ==
  /\ At(q, "fillSlug")
  /\ \/ /\ slugCache' = [slugCache EXCEPT ![req[q].slug] = <<req[q].post, req[q].held>>]
        /\ UNCHANGED faults
     \/ Fault /\ UNCHANGED slugCache     \* set swallows its error
  /\ Goto(q, "fillId")
  /\ UNCHANGED <<posts, now, free, idCache, lists, late>>

\* findAll
GetList(q) ==
  /\ At(q, "idle")
  /\ Misses(lists[ListKey] # "none")
  /\ Become(q, [Idle EXCEPT !.pc = "fetchList"])
  /\ UNCHANGED <<posts, now, free, cacheVars, late>>

FetchList(q) ==
  /\ At(q, "fetchList")
  /\ lists' = [lists EXCEPT ![q] = "current"]
  /\ Goto(q, "fillList")
  /\ UNCHANGED <<posts, now, free, faults, idCache, slugCache, late>>

FillList(q) ==
  /\ At(q, "fillList")
  /\ lists' = [lists EXCEPT ![ListKey] = lists[q], ![q] = "none"]
  /\ Become(q, Idle)
  /\ UNCHANGED <<posts, now, free, faults, idCache, slugCache, late>>

-----------------------------------------------------------------------------
(* Invalidation: invalidateAll(id, post.slug) of update and publish *)

\* What is left under post:<id> once the delete was made.
LeftAfterSave(q) == NoRow

Saved(q) ==
  /\ At(q, "saved")
  /\ idCache' = [idCache EXCEPT ![req[q].post] = LeftAfterSave(q)]
  /\ late' = late \ {req[q].post}
  /\ Goto(q, "dropSlug")
  /\ UNCHANGED <<posts, now, free, faults, slugCache, lists>>

\* CacheService.delete swallows the error of the store.
DropIdFails(q) ==
  /\ At(q, "saved")
  /\ Fault
  /\ late' = late \union {req[q].post}
  /\ Goto(q, "dropSlug")
  /\ UNCHANGED <<posts, now, free, cacheVars>>

\* The slug of the saved object; deletePattern, for the lists, does nothing.
DropSlug(q) ==
  /\ At(q, "dropSlug")
  /\ slugCache' = [slugCache EXCEPT ![req[q].held.slug] = NoEntry]
  /\ Become(q, Idle)
  /\ UNCHANGED <<posts, now, free, faults, idCache, lists, late>>

\* A request dies; if it had saved, nobody invalidates.
DieCached(q) ==
  /\ Die(q)
  /\ late' = IF At(q, "saved") THEN late \union {req[q].post} ELSE late
  /\ lists' = [lists EXCEPT ![q] = "none"]
  /\ UNCHANGED <<idCache, slugCache>>

\* set is always called with a TTL.
HasTtl(kind) == kind \in {"id", "slug", "list"}

ExpireId(p) ==
  /\ HasTtl("id") /\ idCache[p] # NoRow
  /\ idCache' = [idCache EXCEPT ![p] = NoRow]
  /\ late' = late \ {p}
  /\ UNCHANGED <<storeVars, slugCache, lists>>

ExpireSlug(s) ==
  /\ HasTtl("slug") /\ slugCache[s] # NoEntry
  /\ slugCache' = [slugCache EXCEPT ![s] = NoEntry]
  /\ UNCHANGED <<storeVars, idCache, lists, late>>

ExpireList ==
  /\ HasTtl("list") /\ lists[ListKey] # "none"
  /\ lists' = [lists EXCEPT ![ListKey] = "none"]
  /\ UNCHANGED <<storeVars, idCache, slugCache, late>>

-----------------------------------------------------------------------------
\* A change of the table makes every list made before it an old one.
Aged == [k \in DOMAIN lists |-> IF lists[k] = "current" THEN "old" ELSE lists[k]]

WriterMoves(A) ==
  /\ A
  /\ lists' = IF posts' # posts THEN Aged ELSE lists
  /\ UNCHANGED <<idCache, slugCache, late>>

CacheInit ==
  /\ StoreInit
  /\ idCache = [p \in Post |-> NoRow]
  /\ slugCache = [s \in Slug |-> NoEntry]
  /\ lists = [k \in Request \union {ListKey} |-> "none"]
  /\ late = {}

Start(q) ==
  \/ WriterMoves(StoreStart(q))
  \/ \E p \in Post : GetById(q, p)
  \/ \E s \in Slug : GetBySlug(q, s)
  \/ GetList(q)

Step(q) ==
  \/ WriterMoves(StoreStep(q))
  \/ FetchId(q) \/ FillId(q)
  \/ FetchSlug(q) \/ FillSlug(q)
  \/ FetchList(q) \/ FillList(q)
  \/ Saved(q) \/ DropIdFails(q) \/ DropSlug(q)

Expire == (\E p \in Post : ExpireId(p)) \/ (\E s \in Slug : ExpireSlug(s)) \/ ExpireList

CacheNext ==
  \/ \E q \in Request : Start(q) \/ Step(q) \/ DieCached(q)
  \/ Expire

CacheSpec == CacheInit /\ [][CacheNext]_pcVars

\* An await settles, so a request in progress moves on; a TTL runs out.
CacheFairness ==
  /\ \A q \in Request : WF_pcVars(Step(q))
  /\ \A p \in Post : WF_pcVars(ExpireId(p))
  /\ \A s \in Slug : WF_pcVars(ExpireSlug(s))
  /\ WF_pcVars(ExpireList)

FairCacheSpec == CacheSpec /\ CacheFairness

-----------------------------------------------------------------------------
(* Properties *)

\* Types of the table, of the requests with the read paths, and of the cache.
CacheTypeOK ==
  /\ posts \in [Post -> RowOrNone]
  /\ req \in [Request -> [pc : Waiting \union Reading \union {"idle"},
                          post : Post \union {NoPost}, slug : Slug \union {NoSlug},
                          held : RowOrNone, base : RowOrNone]]
  /\ now \in 0..MaxTime
  /\ faults \in 0..MaxFaults
  /\ idCache \in [Post -> RowOrNone]
  /\ slugCache \in [Slug -> {NoEntry} \union (Post \X Row)]
  /\ lists \in [Request \union {ListKey} -> {"none", "current", "old"}]
  /\ free \subseteq Request
  /\ late \subseteq Post

\* An entry post:<id> differs from the table only while a request is between its
\* save and its invalidation, or if a reader filled it with a row it had read before
\* a save that was already invalidated, or if an invalidation was never made.
StaleOnlyIfRaced ==
  \A p \in Post : idCache[p] \notin {NoRow, posts[p]} /\ p \notin late =>
    \E q \in Request : At(q, "saved") /\ req[q].post = p

Fresh ==
  /\ \A p \in Post : idCache[p] \in {NoRow, posts[p]}
  /\ \A s \in Slug : slugCache[s] # NoEntry =>
       slugCache[s][2] = posts[slugCache[s][1]]
  /\ lists[ListKey] # "old"

\* If the posts stop changing, the cache agrees with them from some time on: only
\* the TTL does this for lists, and for the slug a post had before.
EventuallyFresh == []<><<posts' # posts>>_posts \/ <>[]Fresh

=============================================================================
