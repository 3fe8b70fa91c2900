---------------------------- MODULE SessionProofs ----------------------------
(***************************************************************************)
(* Proofs about Sessions, for any sets of calls, tokens and users, any     *)
(* lifetimes, and any length of the unit.                                  *)
(*                                                                         *)
(* What deleteUserSessions deletes is what the list of the user names, so  *)
(* the list has to cover the sessions that can be read.  That it does, up  *)
(* to the named cases, is not inductive: a list may be written from what   *)
(* was read an await ago.  The invariant adds what each call knows between *)
(* its reads and its writes as long as nobody has overtaken it.            *)
(***************************************************************************)
EXTENDS Sessions, TLAPS

CallState == [pc : Awaiting, user : Owner \union {NoToken}, token : Token \union {NoToken},
              tokens : SUBSET Token, expiresAt : Nat, ttl : Nat, depth : 0..MaxDepth + 1,
              overtaken : BOOLEAN]

ForAToken == {"listRead", "listAdd", "again", "unwind", "drop", "cutRead", "listCut", "resave"}

WellFormed(r) ==
  /\ r.pc \in ForAToken => r.token \in Token /\ r.user = OwnerOf[r.token]
  /\ r.pc = "dropEach" => r.user \in Owner
  /\ r.depth > 1 => r.token \in Token

\* This much is inductive on its own.
Base ==
  /\ SessionTypeOK
  /\ \A c \in Call : WellFormed(call[c])

ListExpired(u) == lists[u] # None /\ ~Live(lists[u])

\* A session that can be read is in the list that deleteUserSessions goes by, unless
\* its save has not written the list yet, the list has expired, or a write of the list
\* from an old copy, or a failed cache call, is to blame.
ListsCoverSessions ==
  \A t \in Token :
    Live(sessions[t]) =>
      \/ t \in ListOf(OwnerOf[t])
      \/ lists[OwnerOf[t]] # None /\ ~Live(lists[OwnerOf[t]])
      \/ OwnerOf[t] \in excused
      \/ \E c \in Call : call[c].token = t /\ call[c].pc \in UnderWay

\* Somebody is about to list the token, or to delete its key.
Coming(t) == \E c \in Call : call[c].token = t /\ call[c].pc \in UnderWay

\* What a call that nobody has overtaken knows: the list that it goes by, until that
\* expires; that the token it takes off the list has no key, unless somebody lists it
\* anew; and every session it has to delete yet.
Knows(r) ==
  ~r.overtaken /\ r.user \notin excused =>
    /\ r.pc = "listAdd" /\ ~ListExpired(r.user) => r.tokens = ListOf(r.user)
    /\ r.pc = "listCut" /\ ~ListExpired(r.user) => r.tokens = ListOf(r.user) \ {r.token}
    /\ r.pc \in {"cutRead", "listCut"} /\ Live(sessions[r.token]) => Coming(r.token)
    /\ r.pc = "dropEach" =>
         \A t \in Token : OwnerOf[t] = r.user /\ Live(sessions[t]) =>
           t \in r.tokens \/ Coming(t) \/ ListExpired(r.user)

SInv ==
  /\ Base
  /\ ListsCoverSessions
  /\ \A c \in Call : Knows(call[c])

-----------------------------------------------------------------------------
(* Times to live *)

\* The number of whole seconds is never above the number of milliseconds.
LEMMA QuotientFacts ==
  ASSUME NEW a \in Nat, NEW s \in Nat \ {0}
  PROVE  a \div s \in Nat /\ a \div s <= a
OBVIOUS

LEMMA TtlFacts ==
  ASSUME now \in Nat, NEW e \in Nat, NEW ttl \in Nat
  PROVE  CacheTtl(e, ttl) \in Nat /\ DiesAfter(CacheTtl(e, ttl)) \in Nat
<1>1. CalculateTtl(e) \in Nat
  <2>1. CASE e > now
    <3>1. e - now \in Nat /\ Second \in Nat \ {0}
      BY <2>1, SessionAssumption
    <3> QED BY <2>1, <3>1, QuotientFacts DEF CalculateTtl
  <2>2. CASE ~(e > now)
    BY <2>2 DEF CalculateTtl
  <2> QED BY <2>1, <2>2
<1>2. CacheTtl(e, ttl) \in Nat
  BY <1>1 DEF CacheTtl
<1> QED BY <1>2 DEF DiesAfter, Never

\* A key that was just set is there.
LEMMA FreshKeysLive ==
  ASSUME now \in Nat, NEW ttl \in Nat, NEW entry, entry # None, entry.dies = DiesAfter(ttl)
  PROVE  Live(entry) /\ DiesAfter(ttl) \in Nat
BY DEF Live, DiesAfter, Never

-----------------------------------------------------------------------------
(* Types *)

LEMMA QuietIsCall ==
  Quiet \in CallState /\ WellFormed(Quiet) /\ Quiet.pc = "idle" /\ Quiet.depth = 0
BY SessionAssumption DEF Quiet, CallState, WellFormed, Awaiting, ForAToken

LEMMA ForIsCall ==
  ASSUME NEW t \in Token
  PROVE  /\ For(t) \in CallState /\ For(t).token = t /\ For(t).user = OwnerOf[t]
         /\ OwnerOf[t] \in Owner /\ For(t).overtaken = FALSE /\ For(t).depth = 0
<1>1. OwnerOf[t] \in Owner
  BY SessionAssumption
<1>2. /\ Quiet \in CallState /\ Quiet.overtaken = FALSE /\ Quiet.depth = 0
      /\ For(t) = [Quiet EXCEPT !.user = OwnerOf[t], !.token = t]
  BY QuietIsCall DEF For, Quiet
<1> QED BY <1>1, <1>2 DEF CallState

\* Where a frame of deleteSession returns to.
LEMMA ReturnedIsCall ==
  ASSUME Base, NEW c \in Call
  PROVE  /\ Returned(c) \in CallState /\ WellFormed(Returned(c))
         /\ Returned(c).pc \in {"idle", "unwind"}
<1>1. CASE call[c].depth > 1
  <2>1. call[c] \in CallState /\ call[c].token \in Token
    BY <1>1 DEF Base, SessionTypeOK, CallState, WellFormed
  <2> DEFINE f == For(call[c].token)
             n == call[c].depth - 1
  <2>2. /\ f \in CallState /\ f.token = call[c].token /\ f.user = OwnerOf[call[c].token]
        /\ "unwind" \in Awaiting
    BY <2>1, ForIsCall DEF Awaiting
  <2>3. n \in 0..MaxDepth + 1
    BY <1>1, <2>1, SessionAssumption DEF CallState
  <2> HIDE DEF f, n
  <2>4. LET g == [f EXCEPT !.pc = "unwind", !.depth = n] IN
        /\ g \in CallState /\ g.pc = "unwind" /\ g.token = call[c].token
        /\ g.user = OwnerOf[call[c].token]
    BY <2>2, <2>3 DEF CallState
  <2>5. Returned(c) = [f EXCEPT !.pc = "unwind", !.depth = n]
    BY <1>1 DEF Returned, f, n
  <2>6. /\ Returned(c) \in CallState /\ Returned(c).pc = "unwind"
        /\ Returned(c).token = call[c].token /\ Returned(c).user = OwnerOf[call[c].token]
    BY <2>4, <2>5
  <2>7. WellFormed(Returned(c))
    BY <2>1, <2>6 DEF WellFormed
  <2> QED BY <2>6, <2>7
<1>2. CASE ~(call[c].depth > 1)
  BY <1>2, QuietIsCall DEF Returned
<1> QED BY <1>1, <1>2

LEMMA OneCallMoves ==
  ASSUME Base, NEW c \in Call, NEW r \in CallState, WellFormed(r),
         call' = [call EXCEPT ![c] = r]
  PROVE  call' \in [Call -> CallState] /\ \A d \in Call : WellFormed(call[d])'
<1>1. call \in [Call -> CallState] /\ \A d \in Call : WellFormed(call[d])
  BY DEF Base, SessionTypeOK, CallState
<1>2. ASSUME NEW d \in Call
      PROVE  call'[d] = IF d = c THEN r ELSE call[d]
  BY <1>1
<1>3. call' \in [Call -> CallState]
  BY <1>1
<1>4. ASSUME NEW d \in Call
      PROVE  WellFormed(call'[d])
  <2>1. CASE d = c
    BY <1>2, <2>1
  <2>2. CASE d # c
    BY <1>1, <1>2, <2>2
  <2> QED BY <2>1, <2>2
<1> QED BY <1>3, <1>4 DEF WellFormed

LEMMA LeavingMoves ==
  ASSUME Base, NEW c \in Call, LeaveList(c)
  PROVE  /\ call' \in [Call -> CallState] /\ \A d \in Call : WellFormed(call[d])'
         /\ call'[c] = Returned(c)
<1>0. call \in [Call -> CallState] /\ \A d \in Call : WellFormed(call[d])
  BY DEF Base, SessionTypeOK, CallState
<1>1. ASSUME NEW d \in Call
      PROVE  call'[d] \in CallState /\ WellFormed(call'[d])
  <2>1. CASE d = c
    BY <2>1, ReturnedIsCall DEF LeaveList
  <2>2. CASE d # c
    <3>1. PICK b \in BOOLEAN : call'[d] = [call[d] EXCEPT !.overtaken = b]
      BY <1>0, <2>2 DEF LeaveList, CallState
    <3> QED BY <1>0, <3>1 DEF CallState, WellFormed
  <2> QED BY <2>1, <2>2
<1> QED BY <1>1 DEF LeaveList, WellFormed

LEMMA SwallowedTypes ==
  ASSUME Base, NEW u \in Owner, NoError \/ Swallowed(u)
  PROVE  swallowed' \in 0..MaxSwallowed /\ excused' \subseteq Owner /\ excused \subseteq excused'
BY SessionAssumption DEF Base, SessionTypeOK, NoError, Swallowed

LEMMA PutSessionTypes ==
  ASSUME Base, NEW t \in Token, NEW entry \in Session \union {None}, PutSession(t, entry)
  PROVE  /\ sessions' \in [Token -> Session \union {None}]
         /\ swallowed' \in 0..MaxSwallowed /\ excused' \subseteq Owner /\ excused \subseteq excused'
<1>1. OwnerOf[t] \in Owner
  BY SessionAssumption
<1>2. NoError \/ Swallowed(OwnerOf[t])
  BY DEF PutSession
<1>3. sessions' = [sessions EXCEPT ![t] = entry] \/ sessions' = sessions
  BY DEF PutSession
<1>4. sessions' \in [Token -> Session \union {None}]
  BY <1>3 DEF Base, SessionTypeOK
<1> QED BY <1>1, <1>2, <1>4, SwallowedTypes

LEMMA PutListTypes ==
  ASSUME Base, NEW c \in Call, call[c].user \in Owner, NEW list \in List \union {None},
         PutList(c, list)
  PROVE  /\ lists' \in [Owner -> List \union {None}]
         /\ call' \in [Call -> CallState] /\ \A d \in Call : WellFormed(call[d])'
         /\ swallowed' \in 0..MaxSwallowed /\ excused' \subseteq Owner /\ excused \subseteq excused'
<1>1. CASE Swallowed(call[c].user) /\ Becomes(c, Returned(c)) /\ UNCHANGED lists
  <2>1. lists' \in [Owner -> List \union {None}]
    BY <1>1 DEF Base, SessionTypeOK
  <2> QED BY <1>1, <2>1, SwallowedTypes, ReturnedIsCall, OneCallMoves DEF Becomes
<1>2. CASE /\ lists' = [lists EXCEPT ![call[c].user] = list]
           /\ LeaveList(c)
           /\ excused' \in {excused, excused \union {call[c].user}}
           /\ UNCHANGED swallowed
  <2>1. /\ lists' \in [Owner -> List \union {None}]
        /\ swallowed' \in 0..MaxSwallowed /\ excused' \subseteq Owner /\ excused \subseteq excused'
    BY <1>2 DEF Base, SessionTypeOK
  <2> QED BY <1>2, <2>1, LeavingMoves
<1> QED BY <1>1, <1>2 DEF PutList

\* What a call reads of a list it reads of this user's, or nothing.
LEMMA GetListTypes ==
  ASSUME Base, NEW u \in Owner, NEW L \in SUBSET Token, GetList(u, L)
  PROVE  /\ swallowed' \in 0..MaxSwallowed /\ excused' \subseteq Owner /\ excused \subseteq excused'
         /\ u \notin excused' => L = ListOf(u)
BY SwallowedTypes DEF GetList, Swallowed

LEMMA NothingPut ==
  ASSUME Base, UNCHANGED sessions
  PROVE  sessions' \in [Token -> Session \union {None}]
BY DEF Base, SessionTypeOK

LEMMA BaseTogether ==
  ASSUME now' \in 0..MaxTime,
         sessions' \in [Token -> Session \union {None}],
         lists' \in [Owner -> List \union {None}],
         call' \in [Call -> CallState], \A d \in Call : WellFormed(call[d])',
         swallowed' \in 0..MaxSwallowed, excused' \subseteq Owner
  PROVE  Base'
BY DEF Base, SessionTypeOK, CallState

LEMMA SetSessionBase ==
  ASSUME Base, NEW c \in Call, NEW t \in Token, NEW e \in Nat, NEW ttl \in Nat,
         SetSession(c, t, e, ttl), UNCHANGED <<now, lists>>
  PROVE  Base'
<1> DEFINE entry == [expiresAt |-> e, dies |-> DiesAfter(CacheTtl(e, ttl))]
           r == [For(t) EXCEPT !.pc = "listRead", !.ttl = CacheTtl(e, ttl)]
<1>1. now \in Nat
  BY DEF Base, SessionTypeOK
<1>2. CacheTtl(e, ttl) \in Nat /\ entry \in Session
  BY <1>1, TtlFacts DEF Session
<1>3. PutSession(t, entry) /\ call' = [call EXCEPT ![c] = r]
  BY DEF SetSession, Becomes
<1>4. r \in CallState /\ r.pc = "listRead" /\ r.token = t /\ r.user = OwnerOf[t]
  <2> DEFINE f == For(t)
             n == CacheTtl(e, ttl)
  <2>1. f \in CallState /\ n \in Nat /\ f.token = t /\ f.user = OwnerOf[t]
    BY <1>2, ForIsCall
  <2>2. "listRead" \in Awaiting
    BY DEF Awaiting
  <2> HIDE DEF f, n
  <2>3. LET g == [f EXCEPT !.pc = "listRead", !.ttl = n] IN
        g \in CallState /\ g.pc = "listRead" /\ g.token = t /\ g.user = OwnerOf[t]
    BY <2>1, <2>2 DEF CallState
  <2> QED BY <2>3 DEF f, n
<1> HIDE DEF entry, r
<1>8. WellFormed(r)
  BY <1>4 DEF WellFormed
<1>5. call' \in [Call -> CallState] /\ \A d \in Call : WellFormed(call[d])'
  BY <1>3, <1>4, <1>8, OneCallMoves
<1>6. /\ sessions' \in [Token -> Session \union {None}]
      /\ swallowed' \in 0..MaxSwallowed /\ excused' \subseteq Owner
  BY <1>2, <1>3, PutSessionTypes
<1>7. now' \in 0..MaxTime /\ lists' \in [Owner -> List \union {None}]
  BY DEF Base, SessionTypeOK
<1> QED BY <1>5, <1>6, <1>7, BaseTogether

\* Of the steps that leave the keys and the lists alone.
LEMMA ReadBase ==
  ASSUME Base, NEW c \in Call, NEW r \in CallState, WellFormed(r),
         call' = [call EXCEPT ![c] = r], UNCHANGED <<now, sessions, lists>>,
         swallowed' \in 0..MaxSwallowed, excused' \subseteq Owner
  PROVE  Base'
<1>1. now' \in 0..MaxTime /\ lists' \in [Owner -> List \union {None}]
  BY DEF Base, SessionTypeOK
<1> QED BY <1>1, OneCallMoves, NothingPut, BaseTogether

\* Of the deletions of a key.
LEMMA DropBase ==
  ASSUME Base, NEW c \in Call, NEW r \in CallState, WellFormed(r),
         call' = [call EXCEPT ![c] = r], NEW t \in Token, PutSession(t, None),
         UNCHANGED <<now, lists>>
  PROVE  Base'
<1>1. now' \in 0..MaxTime /\ lists' \in [Owner -> List \union {None}]
  BY DEF Base, SessionTypeOK
<1>2. /\ sessions' \in [Token -> Session \union {None}]
      /\ swallowed' \in 0..MaxSwallowed /\ excused' \subseteq Owner
  BY PutSessionTypes
<1> QED BY <1>1, <1>2, OneCallMoves, BaseTogether

\* Of the writes of a list.
LEMMA PutListBase ==
  ASSUME Base, NEW c \in Call, call[c].user \in Owner, NEW list \in List \union {None},
         PutList(c, list), UNCHANGED <<now, sessions>>
  PROVE  Base'
<1>1. now' \in 0..MaxTime
  BY DEF Base, SessionTypeOK
<1> QED BY <1>1, PutListTypes, NothingPut, BaseTogether

\* A call that is about to do something for a token does it for the token's user.
LEMMA CallFacts ==
  ASSUME Base, NEW c \in Call
  PROVE  /\ call[c] \in CallState
         /\ call[c].pc \in ForAToken =>
              /\ call[c].token \in Token /\ call[c].user = OwnerOf[call[c].token]
              /\ call[c].user \in Owner
         /\ call[c].pc = "dropEach" => call[c].user \in Owner
<1>1. call[c] \in CallState /\ WellFormed(call[c])
  BY DEF Base, SessionTypeOK, CallState
<1>2. \A t \in Token : OwnerOf[t] \in Owner
  BY SessionAssumption
<1> QED BY <1>1, <1>2 DEF WellFormed

LEMMA DiesAfterIsTime ==
  ASSUME Base, NEW ttl \in Nat
  PROVE  DiesAfter(ttl) \in Nat
BY DEF Base, SessionTypeOK, DiesAfter, Never


-----------------------------------------------------------------------------
(* What a step leaves of the knowledge of the calls *)

OthersComing(c, t) == \E d \in Call \ {c} : call[d].token = t /\ call[d].pc \in UnderWay

\* A step of one call that writes no list: a key that appears is to be listed, and a
\* call no longer under way has deleted the key, or has met with an error.
LEMMA QuietKeeps ==
  ASSUME SInv, NEW c \in Call, NEW r \in CallState, call' = [call EXCEPT ![c] = r],
         UNCHANGED <<now, lists>>, excused \subseteq excused',
         \A t \in Token : Live(sessions[t])' =>
           Live(sessions[t]) \/ (r.token = t /\ r.pc \in UnderWay),
         call[c].pc \in UnderWay =>
           \/ r.token = call[c].token /\ r.pc \in UnderWay
           \/ ~Live(sessions'[call[c].token])
           \/ OwnerOf[call[c].token] \in excused',
         Knows(call[c])'
  PROVE  ListsCoverSessions' /\ \A d \in Call : Knows(call[d])'
<1>1. call'[c] = r /\ \A d \in Call \ {c} : call'[d] = call[d]
  BY DEF SInv, Base, SessionTypeOK
<1>2. ASSUME NEW t \in Token, Live(sessions[t])', OwnerOf[t] \notin excused'
      PROVE  /\ Live(sessions[t]) \/ Coming(t)'
             /\ Coming(t) => Coming(t)'
  <2>1. Live(sessions[t]) \/ Coming(t)'
    BY <1>1, <1>2 DEF Coming
  <2>2. ASSUME NEW d \in Call, call[d].token = t, call[d].pc \in UnderWay
        PROVE  Coming(t)'
    <3>1. CASE d = c
      <4>1. r.token = t /\ r.pc \in UnderWay
        BY <1>2, <2>2, <3>1 DEF Live
      <4> QED BY <1>1, <4>1 DEF Coming
    <3>2. CASE d # c
      BY <1>1, <2>2, <3>2 DEF Coming
    <3> QED BY <3>1, <3>2
  <2> QED BY <2>1, <2>2 DEF Coming
<1>3. \A u \in Owner : ListOf(u)' = ListOf(u) /\ ListExpired(u)' = ListExpired(u)
  BY DEF ListOf, ListExpired, Live
<1>4. ListsCoverSessions'
  <2> SUFFICES ASSUME NEW t \in Token, Live(sessions[t])', OwnerOf[t] \notin excused'
               PROVE  t \in ListOf(OwnerOf[t])' \/ ListExpired(OwnerOf[t])' \/ Coming(t)'
    BY DEF ListsCoverSessions, ListExpired, Coming
  <2>1. OwnerOf[t] \in Owner
    BY SessionAssumption
  <2>2. Live(sessions[t]) =>
          t \in ListOf(OwnerOf[t]) \/ ListExpired(OwnerOf[t]) \/ Coming(t)
    BY DEF SInv, ListsCoverSessions, ListExpired, Coming
  <2> QED BY <1>2, <1>3, <2>1, <2>2
<1>5. ASSUME NEW d \in Call \ {c}
      PROVE  Knows(call[d])'
  <2>1. call'[d] = call[d] /\ Knows(call[d]) /\ Base
    BY <1>1 DEF SInv
  <2>2. CASE call[d].pc \notin {"listAdd", "cutRead", "listCut", "dropEach"}
    BY <2>1, <2>2 DEF Knows
  <2>3. CASE call[d].pc \in {"listAdd", "cutRead", "listCut", "dropEach"}
    <3>1. /\ call[d].user \in Owner
          /\ call[d].pc # "dropEach" =>
               call[d].token \in Token /\ call[d].user = OwnerOf[call[d].token]
      BY <2>1, <2>3, CallFacts DEF ForAToken
    <3> QED BY <1>2, <1>3, <2>1, <3>1 DEF Knows
  <2> QED BY <2>2, <2>3
<1> QED BY <1>4, <1>5

\* A call is done with the list of its user, written or not: the list covers what
\* nobody else is about to list, and whoever relies on the list is marked.
LEMMA LeavingKeeps ==
  ASSUME SInv, NEW c \in Call, NEW u \in Owner, call[c].user = u, LeaveList(c),
         UNCHANGED <<now, sessions>>, excused \subseteq excused',
         \A v \in Owner \ {u} : lists'[v] = lists[v],
         call[c].pc \in UnderWay => OwnerOf[call[c].token] = u,
         \A t \in Token :
           OwnerOf[t] = u /\ Live(sessions[t]) /\ u \notin excused' =>
             t \in ListOf(u)' \/ ListExpired(u)' \/ OthersComing(c, t)
  PROVE  ListsCoverSessions' /\ \A d \in Call : Knows(call[d])'
<1>1. /\ call'[c].pc \in {"idle", "unwind"}
      /\ \A d \in Call \ {c} :
           /\ call'[d].pc = call[d].pc /\ call'[d].token = call[d].token
           /\ call'[d].user = call[d].user /\ call'[d].tokens = call[d].tokens
           /\ ~call'[d].overtaken =>
                /\ ~call[d].overtaken
                /\ ~(call[d].user = u /\ call[d].pc \in {"listAdd", "cutRead", "listCut", "dropEach"})
  <2>1. call \in [Call -> CallState]
    BY DEF SInv, Base, SessionTypeOK, CallState
  <2>2. call'[c].pc \in {"idle", "unwind"}
    BY ReturnedIsCall DEF LeaveList, SInv
  <2>3. ASSUME NEW d \in Call \ {c}
        PROVE  /\ call'[d].pc = call[d].pc /\ call'[d].token = call[d].token
               /\ call'[d].user = call[d].user /\ call'[d].tokens = call[d].tokens
               /\ ~call'[d].overtaken =>
                    /\ ~call[d].overtaken
                    /\ ~(/\ call[d].user = u
                         /\ call[d].pc \in {"listAdd", "cutRead", "listCut", "dropEach"})
    BY <2>1 DEF LeaveList, CallState
  <2> QED BY <2>2, <2>3
<1>2. \A t \in Token : /\ OthersComing(c, t) => Coming(t)'
                       /\ Coming(t) /\ OwnerOf[t] # u => Coming(t)'
  BY <1>1 DEF OthersComing, Coming
<1>3. \A v \in Owner \ {u} : ListOf(v)' = ListOf(v) /\ ListExpired(v)' = ListExpired(v)
  BY DEF ListOf, ListExpired, Live
<1>4. ListsCoverSessions'
  <2> SUFFICES ASSUME NEW t \in Token, Live(sessions[t])', OwnerOf[t] \notin excused'
               PROVE  t \in ListOf(OwnerOf[t])' \/ ListExpired(OwnerOf[t])' \/ Coming(t)'
    BY DEF ListsCoverSessions, ListExpired, Coming
  <2>0. OwnerOf[t] \in Owner /\ Live(sessions[t])
    BY SessionAssumption DEF Live
  <2>1. CASE OwnerOf[t] = u
    BY <1>2, <2>0, <2>1
  <2>2. CASE OwnerOf[t] # u
    <3>1. t \in ListOf(OwnerOf[t]) \/ ListExpired(OwnerOf[t]) \/ Coming(t)
      BY <2>0 DEF SInv, ListsCoverSessions, ListExpired, Coming
    <3> QED BY <1>2, <1>3, <2>0, <2>2, <3>1
  <2> QED BY <2>1, <2>2
<1>5. ASSUME NEW d \in Call \ {c}
      PROVE  Knows(call[d])'
  <2>1. Knows(call[d]) /\ Base /\ \A t \in Token : Live(sessions[t])' = Live(sessions[t])
    BY DEF SInv, Live
  <2>2. CASE call[d].pc \notin {"listAdd", "cutRead", "listCut", "dropEach"}
    BY <1>1, <2>2 DEF Knows
  <2>3. CASE call[d].pc \in {"listAdd", "cutRead", "listCut", "dropEach"}
    <3>1. /\ call[d].user \in Owner
          /\ call[d].pc # "dropEach" =>
               call[d].token \in Token /\ call[d].user = OwnerOf[call[d].token]
      BY <2>1, <2>3, CallFacts DEF ForAToken
    <3>2. CASE call'[d].overtaken
      BY <3>2 DEF Knows
    <3>3. CASE ~call'[d].overtaken
      <4>1. call[d].user # u /\ ~call[d].overtaken
        BY <1>1, <2>3, <3>3
      <4>2. \A t \in Token : OwnerOf[t] = call[d].user /\ Coming(t) => Coming(t)'
        BY <1>2, <4>1
      <4> QED BY <1>1, <1>3, <2>1, <3>1, <4>1, <4>2 DEF Knows
    <3> QED BY <3>2, <3>3
  <2> QED BY <2>2, <2>3
<1>6. Knows(call[c])'
  BY <1>1 DEF Knows
<1> QED BY <1>4, <1>5, <1>6

\* set or delete of the list of the call's user.
LEMMA PutListKeeps ==
  ASSUME SInv, NEW c \in Call, NEW u \in Owner, call[c].user = u, NEW list \in List \union {None},
         PutList(c, list), UNCHANGED <<now, sessions>>,
         call[c].pc \in UnderWay => OwnerOf[call[c].token] = u,
         ~call[c].overtaken /\ u \notin excused /\ ~ListExpired(u) =>
           \A t \in Token : OwnerOf[t] = u /\ Live(sessions[t]) =>
             OthersComing(c, t) \/ (Live(list) /\ t \in list.tokens)
  PROVE  SInv'
<1>1. CASE Swallowed(u) /\ Becomes(c, Returned(c)) /\ UNCHANGED lists
  <2>1. excused \subseteq excused' /\ u \in excused'
    BY <1>1 DEF Swallowed
  <2>2. call' = [call EXCEPT ![c] = Returned(c)] /\ UNCHANGED <<now, lists>>
    BY <1>1 DEF Becomes
  <2>3. Knows(call[c])'
    BY <2>2, ReturnedIsCall DEF Knows, SInv, Base, SessionTypeOK
  <2>4. \A t \in Token : Live(sessions[t])' => Live(sessions[t])
    BY DEF Live
  <2>5. Returned(c) \in CallState
    BY ReturnedIsCall DEF SInv
  <2>6. ListsCoverSessions' /\ \A d \in Call : Knows(call[d])'
    BY <2>1, <2>2, <2>3, <2>4, <2>5, QuietKeeps
  <2> QED BY <2>6, PutListBase DEF SInv
<1>2. CASE /\ lists' = [lists EXCEPT ![u] = list]
           /\ LeaveList(c)
           /\ excused' = IF call[c].overtaken \/ ListExpired(u)
                         THEN excused \union {u} ELSE excused
  <2>1. /\ excused \subseteq excused'
        /\ lists'[u] = list
        /\ \A v \in Owner \ {u} : lists'[v] = lists[v]
    BY <1>2 DEF SInv, Base, SessionTypeOK
  <2>2. Live(list) /\ lists'[u] = list => ListOf(u)' = list.tokens
    BY DEF ListOf, Live
  <2>3. ASSUME NEW t \in Token, OwnerOf[t] = u, Live(sessions[t]),
               u \notin excused'
        PROVE  t \in ListOf(u)' \/ OthersComing(c, t)
    BY <1>2, <2>1, <2>2, <2>3
  <2>4. ListsCoverSessions' /\ \A d \in Call : Knows(call[d])'
    BY <1>2, <2>1, <2>3, LeavingKeeps
  <2> QED BY <2>4, PutListBase DEF SInv
<1> QED BY <1>1, <1>2 DEF PutList, ListExpired

\* Time lets keys and lists expire, and brings none back.
LEMMA TickKeeps ==
  ASSUME SInv, Tick
  PROVE  SInv'
<1>1. /\ now' = now + 1 /\ now < MaxTime /\ now \in 0..MaxTime
      /\ UNCHANGED <<sessions, lists, call, swallowed, excused>>
  BY DEF Tick, SInv, Base, SessionTypeOK
<1>2. now' \in 0..MaxTime /\ now \in Int
  BY <1>1, SessionAssumption
<1>3. Base'
  BY <1>1, <1>2 DEF SInv, Base, SessionTypeOK, WellFormed
<1>4. /\ \A t \in Token : Live(sessions[t])' => Live(sessions[t])
      /\ \A u \in Owner : Live(lists[u])' => Live(lists[u])
  <2>1. /\ \A t \in Token : sessions[t] # None => sessions[t].dies \in Int
        /\ \A u \in Owner : lists[u] # None => lists[u].dies \in Int
    BY DEF SInv, Base, SessionTypeOK, Session, List
  <2> QED BY <1>1, <1>2, <2>1 DEF Live
<1>5. \A u \in Owner : /\ ListExpired(u) => ListExpired(u)'
                       /\ ListOf(u)' = ListOf(u) \/ ListExpired(u)'
  BY <1>1, <1>4 DEF ListExpired, ListOf, Live
<1>6. \A t \in Token : Coming(t)' = Coming(t)
  BY <1>1 DEF Coming
<1>7. ListsCoverSessions'
  <2> SUFFICES ASSUME NEW t \in Token, Live(sessions[t])', OwnerOf[t] \notin excused'
               PROVE  t \in ListOf(OwnerOf[t])' \/ ListExpired(OwnerOf[t])' \/ Coming(t)'
    BY DEF ListsCoverSessions, ListExpired, Coming
  <2>1. OwnerOf[t] \in Owner
    BY SessionAssumption
  <2>2. t \in ListOf(OwnerOf[t]) \/ ListExpired(OwnerOf[t]) \/ Coming(t)
    BY <1>1, <1>4 DEF SInv, ListsCoverSessions, ListExpired, Coming
  <2> QED BY <1>5, <1>6, <2>1, <2>2
<1>8. ASSUME NEW d \in Call
      PROVE  Knows(call[d])'
  <2>1. Knows(call[d]) /\ Base
    BY DEF SInv
  <2>2. CASE call[d].pc \notin {"listAdd", "cutRead", "listCut", "dropEach"}
    BY <1>1, <2>2 DEF Knows
  <2>3. CASE call[d].pc \in {"listAdd", "cutRead", "listCut", "dropEach"}
    <3>1. /\ call[d].user \in Owner
          /\ call[d].pc # "dropEach" => call[d].token \in Token
      BY <2>1, <2>3, CallFacts DEF ForAToken
    <3> QED BY <1>1, <1>4, <1>5, <1>6, <2>1, <3>1 DEF Knows
  <2> QED BY <2>2, <2>3
<1> QED BY <1>3, <1>7, <1>8 DEF SInv


-----------------------------------------------------------------------------
(* One step per action *)

Relying == {"listAdd", "cutRead", "listCut", "dropEach"}

LEMMA NothingToKnow ==
  ASSUME Base, NEW c \in Call, NEW r \in CallState, call' = [call EXCEPT ![c] = r],
         r.pc \notin Relying
  PROVE  Knows(call[c])'
BY DEF Base, SessionTypeOK, Knows, Relying

\* Who is under way stays so while another call moves.
LEMMA ComingStays ==
  ASSUME Base, NEW c \in Call, NEW r, call' = [call EXCEPT ![c] = r],
         call[c].pc \notin UnderWay, NEW t, Coming(t)
  PROVE  Coming(t)'
BY DEF Base, SessionTypeOK, Coming

\* The call of a step that leaves the keys and the lists alone.
LEMMA ReadStep ==
  ASSUME SInv, NEW c \in Call, NEW r \in CallState, WellFormed(r),
         call' = [call EXCEPT ![c] = r], UNCHANGED <<now, sessions, lists>>,
         swallowed' \in 0..MaxSwallowed, excused' \subseteq Owner, excused \subseteq excused',
         call[c].pc \in UnderWay => r.token = call[c].token /\ r.pc \in UnderWay,
         r.pc \in Relying => Knows(call[c])'
  PROVE  SInv'
<1>1. Base'
  BY ReadBase DEF SInv
<1>2. Knows(call[c])'
  BY NothingToKnow DEF SInv
<1>3. \A t \in Token : Live(sessions[t])' => Live(sessions[t])
  BY DEF Live
<1>4. ListsCoverSessions' /\ \A d \in Call : Knows(call[d])'
  BY <1>2, <1>3, QuietKeeps
<1> QED BY <1>1, <1>4 DEF SInv

\* The call of a step that deletes a key.
LEMMA DropStep ==
  ASSUME SInv, NEW c \in Call, NEW r \in CallState, WellFormed(r),
         call' = [call EXCEPT ![c] = r], UNCHANGED <<now, lists>>,
         NEW t \in Token, PutSession(t, None),
         call[c].pc \in UnderWay => call[c].token = t,
         r.pc \in Relying => Knows(call[c])'
  PROVE  SInv'
<1>1. Base'
  BY DropBase DEF SInv
<1>2. Knows(call[c])'
  BY NothingToKnow DEF SInv
<1>3. /\ excused \subseteq excused'
      /\ \A o \in Token : Live(sessions[o])' => Live(sessions[o])
      /\ ~Live(sessions'[t]) \/ OwnerOf[t] \in excused'
  BY DEF PutSession, NoError, Swallowed, Live, SInv, Base, SessionTypeOK
<1>4. ListsCoverSessions' /\ \A d \in Call : Knows(call[d])'
  BY <1>2, <1>3, QuietKeeps
<1> QED BY <1>1, <1>4 DEF SInv

LEMMA SetSessionKeeps ==
  ASSUME SInv, NEW c \in Call, NEW t \in Token, NEW e \in Nat, NEW ttl \in Nat,
         SetSession(c, t, e, ttl), UNCHANGED <<now, lists>>, call[c].pc \notin UnderWay
  PROVE  SInv'
<1> DEFINE n == CacheTtl(e, ttl)
           entry == [expiresAt |-> e, dies |-> DiesAfter(n)]
           r == [For(t) EXCEPT !.pc = "listRead", !.ttl = n]
<1>1. Base' /\ now \in Nat
  BY SetSessionBase DEF SInv, Base, SessionTypeOK
<1>2. n \in Nat
  BY <1>1, TtlFacts
<1>3. PutSession(t, entry) /\ call' = [call EXCEPT ![c] = r]
  BY DEF SetSession, Becomes
<1>4. For(t) \in CallState /\ For(t).token = t /\ "listRead" \in Awaiting
  BY ForIsCall DEF Awaiting
<1> HIDE DEF n, entry
<1>5. r \in CallState /\ r.pc = "listRead" /\ r.token = t
  BY <1>2, <1>4 DEF CallState
<1> HIDE DEF r
<1>6. Knows(call[c])'
  BY <1>3, <1>5, NothingToKnow DEF Relying, SInv
<1>7. /\ excused \subseteq excused'
      /\ \A o \in Token : Live(sessions[o])' => Live(sessions[o]) \/ (r.token = o /\ r.pc \in UnderWay)
  BY <1>3, <1>5 DEF PutSession, NoError, Swallowed, Live, UnderWay, SInv, Base, SessionTypeOK
<1>8. ListsCoverSessions' /\ \A d \in Call : Knows(call[d])'
  BY <1>3, <1>5, <1>6, <1>7, QuietKeeps
<1> QED BY <1>1, <1>8 DEF SInv

LEMMA SaveSessionKeeps ==
  ASSUME SInv, NEW c \in Call, NEW t \in Token, SaveSession(c, t)
  PROVE  SInv'
<1>1. PICK l \in Lifetime, ttl \in Ttl : SetSession(c, t, now + l, ttl)
  BY DEF SaveSession
<1>2. now + l \in Nat /\ ttl \in Nat
  BY SessionAssumption DEF SInv, Base, SessionTypeOK
<1>3. call[c].pc \notin UnderWay /\ UNCHANGED <<now, lists>>
  BY DEF SaveSession, AtCall, UnderWay
<1> QED BY <1>1, <1>2, <1>3, SetSessionKeeps

LEMMA ResaveKeeps ==
  ASSUME SInv, NEW c \in Call, Resave(c)
  PROVE  SInv'
<1>1. call[c].pc = "resave" /\ call[c] \in CallState
  BY CallFacts DEF Resave, AtCall, SInv
<1>2. call[c].token \in Token /\ call[c].expiresAt \in Nat
  BY <1>1, CallFacts DEF CallState, ForAToken, SInv
<1> QED BY <1>1, <1>2, SetSessionKeeps DEF Resave, UnderWay

\* getSession of an expired session, deleteSession, updateSessionExpiration: what they
\* do before their first key or list changes.
LEMMA StartKeeps ==
  ASSUME SInv, NEW c \in Call, NEW t \in Token,
         GetExpired(c, t) \/ DeleteSession(c, t) \/ UpdateSessionExpiration(c, t)
  PROVE  SInv'
<1>1. OwnerOf[t] \in Owner /\ For(t) \in CallState /\ For(t).token = t /\ For(t).user = OwnerOf[t]
  BY ForIsCall
<1>2. /\ UNCHANGED <<now, sessions, lists>> /\ call[c].pc \notin UnderWay
      /\ NoError \/ Swallowed(OwnerOf[t])
  BY DEF GetExpired, DeleteSession, GetForDeletion, UpdateSessionExpiration, AtCall, NoError,
     UnderWay
<1>3. swallowed' \in 0..MaxSwallowed /\ excused' \subseteq Owner /\ excused \subseteq excused'
  BY <1>1, <1>2, SwallowedTypes DEF SInv
<1>4. /\ {"again", "unwind", "drop", "resave"} \subseteq Awaiting
      /\ {"again", "unwind", "drop", "resave"} \intersect Relying = {}
      /\ 1 \in 0..MaxDepth + 1
  BY SessionAssumption DEF Awaiting, Relying
<1>5. ASSUME NEW pc \in {"again", "unwind", "drop"}, NEW n \in 0..MaxDepth + 1,
             Becomes(c, [For(t) EXCEPT !.pc = pc, !.depth = n])
      PROVE  SInv'
  <2> DEFINE r == [For(t) EXCEPT !.pc = pc, !.depth = n]
  <2>1. r \in CallState /\ r.pc = pc /\ r.token = t /\ r.user = OwnerOf[t]
    <3> DEFINE f == For(t)
    <3>1. f \in CallState /\ f.token = t /\ f.user = OwnerOf[t]
      BY <1>1
    <3>2. pc \in Awaiting /\ n \in 0..MaxDepth + 1
      BY <1>4, SessionAssumption
    <3> HIDE DEF f
    <3>3. LET g == [f EXCEPT !.pc = pc, !.depth = n] IN
          g \in CallState /\ g.pc = pc /\ g.token = t /\ g.user = OwnerOf[t]
      BY <3>1, <3>2 DEF CallState
    <3> QED BY <3>3 DEF f
  <2>2. call' = [call EXCEPT ![c] = r]
    BY <1>5 DEF Becomes
  <2> HIDE DEF r
  <2>3. WellFormed(r) /\ r.pc \notin Relying
    BY <1>4, <2>1 DEF WellFormed
  <2> QED BY <1>2, <1>3, <2>1, <2>2, <2>3, ReadStep
<1>6. CASE GetExpired(c, t)
  BY <1>4, <1>5, <1>6 DEF GetExpired
<1>7. CASE DeleteSession(c, t)
  <2>1. PICK pc \in {"again", "drop", "unwind"} :
          Becomes(c, [For(t) EXCEPT !.pc = pc, !.depth = IF pc = "again" THEN Deeper(1) ELSE 1])
    BY <1>7 DEF DeleteSession
  <2>2. Deeper(1) \in 0..MaxDepth + 1
    BY SessionAssumption DEF Deeper
  <2> QED BY <1>4, <1>5, <2>1, <2>2
<1>8. CASE UpdateSessionExpiration(c, t)
  <2>1. PICK l \in Lifetime : Becomes(c, [For(t) EXCEPT !.pc = "resave", !.expiresAt = now + l])
    BY <1>8 DEF UpdateSessionExpiration
  <2> DEFINE r == [For(t) EXCEPT !.pc = "resave", !.expiresAt = now + l]
  <2>2. now + l \in Nat
    BY SessionAssumption DEF SInv, Base, SessionTypeOK
  <2>3. r \in CallState /\ r.pc = "resave" /\ r.token = t /\ r.user = OwnerOf[t]
    BY <1>1, <1>4, <2>2 DEF CallState
  <2>4. call' = [call EXCEPT ![c] = r]
    BY <2>1 DEF Becomes
  <2> HIDE DEF r
  <2>5. WellFormed(r) /\ r.pc \notin Relying
    BY <1>4, <2>3 DEF WellFormed
  <2> QED BY <1>2, <1>3, <2>3, <2>4, <2>5, ReadStep
<1> QED BY <1>6, <1>7, <1>8


\* saveSession reads the list: the token is in it, or is to be added to what was read.
LEMMA ListReadKeeps ==
  ASSUME SInv, NEW c \in Call, ListRead(c)
  PROVE  SInv'
<1>1. PICK t \in Token, u \in Owner :
        /\ call[c].pc = "listRead" /\ call[c] \in CallState
        /\ call[c].token = t /\ call[c].user = u /\ u = OwnerOf[t]
  BY CallFacts DEF ListRead, AtCall, SInv, ForAToken
<1>2. PICK L \in SUBSET Token :
        /\ GetList(u, L)
        /\ IF t \in L THEN LeaveList(c)
           ELSE call' = [call EXCEPT ![c].pc = "listAdd", ![c].tokens = L]
  BY <1>1 DEF ListRead
<1>3. UNCHANGED <<now, sessions, lists>>
  BY DEF ListRead
<1>4. /\ swallowed' \in 0..MaxSwallowed /\ excused' \subseteq Owner /\ excused \subseteq excused'
      /\ u \notin excused' => L = ListOf(u)
  BY <1>1, <1>2, GetListTypes DEF SInv
<1>5. CASE t \in L
  <2>1. L = ListOf(u)
    BY <1>2, <1>5 DEF GetList
  <2>2. LeaveList(c) /\ call[c].user = u
    BY <1>1, <1>2, <1>5
  <2>3. Base'
    <3>1. now' \in 0..MaxTime /\ lists' \in [Owner -> List \union {None}]
      BY <1>3 DEF SInv, Base, SessionTypeOK
    <3> QED BY <1>3, <1>4, <2>2, <3>1, LeavingMoves, NothingPut, BaseTogether DEF SInv
  <2>4. ListOf(u)' = ListOf(u) /\ ListExpired(u)' = ListExpired(u)
    BY <1>3 DEF ListOf, ListExpired, Live
  <2>5. ASSUME NEW o \in Token, OwnerOf[o] = u, Live(sessions[o]), u \notin excused'
        PROVE  o \in ListOf(u)' \/ ListExpired(u)' \/ OthersComing(c, o)
    <3>1. o \in ListOf(u) \/ ListExpired(u) \/ Coming(o)
      BY <1>4, <2>5 DEF SInv, ListsCoverSessions, ListExpired, Coming
    <3>2. CASE Coming(o)
      <4>1. OthersComing(c, o) \/ o = t
        BY <1>1, <3>2 DEF Coming, OthersComing
      <4> QED BY <1>5, <2>1, <2>4, <4>1
    <3> QED BY <2>4, <3>1, <3>2
  <2>6. OwnerOf[call[c].token] = u
    BY <1>1
  <2>7. ListsCoverSessions' /\ \A d \in Call : Knows(call[d])'
    BY <1>1, <1>3, <1>4, <2>2, <2>5, <2>6, LeavingKeeps
  <2> QED BY <2>3, <2>7 DEF SInv
<1>6. CASE t \notin L
  <2> DEFINE r == [call[c] EXCEPT !.pc = "listAdd", !.tokens = L]
  <2>1. call' = [call EXCEPT ![c] = r]
    BY <1>2, <1>6 DEF SInv, Base, SessionTypeOK
  <2>2. /\ r \in CallState /\ r.pc = "listAdd" /\ r.tokens = L
        /\ r.user = u /\ r.token = t
    BY <1>1 DEF CallState, Awaiting
  <2> HIDE DEF r
  <2>3. WellFormed(r) /\ r.token = call[c].token /\ r.pc \in UnderWay
    BY <1>1, <2>2 DEF WellFormed, UnderWay
  <2>4. ListOf(u)' = ListOf(u)
    BY <1>3 DEF ListOf, Live
  <2>5. call'[c] = r
    BY <2>1 DEF SInv, Base, SessionTypeOK
  <2>6. Knows(call[c])'
    BY <1>4, <2>2, <2>4, <2>5 DEF Knows, ListOf
  <2> QED BY <1>3, <1>4, <2>1, <2>2, <2>3, <2>6, ReadStep
<1> QED BY <1>5, <1>6

LEMMA ListAddKeeps ==
  ASSUME SInv, NEW c \in Call, ListAdd(c)
  PROVE  SInv'
<1> DEFINE list == [tokens |-> ListedToo(c), dies |-> DiesAfter(call[c].ttl)]
<1>1. PICK t \in Token, u \in Owner :
        /\ call[c].pc = "listAdd" /\ call[c] \in CallState
        /\ call[c].token = t /\ call[c].user = u /\ u = OwnerOf[t]
  BY CallFacts DEF ListAdd, AtCall, SInv, ForAToken
<1>2. PutList(c, list) /\ UNCHANGED <<now, sessions>>
  BY DEF ListAdd
<1>3. call[c].ttl \in Nat /\ now \in Nat /\ ListedToo(c) \in SUBSET Token
  BY <1>1 DEF CallState, ListedToo, SInv, Base, SessionTypeOK
<1>4. list \in List /\ list.tokens = ListedToo(c) /\ list.dies = DiesAfter(call[c].ttl)
  BY <1>3, FreshKeysLive, DiesAfterIsTime DEF List, SInv
<1>5. list # None
  BY <1>4, SessionAssumption DEF List
<1> HIDE DEF list
<1>6. Live(list)
  BY <1>3, <1>4, <1>5, FreshKeysLive
<1>7. ASSUME ~call[c].overtaken, u \notin excused, ~ListExpired(u),
             NEW o \in Token, OwnerOf[o] = u, Live(sessions[o])
      PROVE  OthersComing(c, o) \/ o \in list.tokens
  <2>1. call[c].tokens = ListOf(u)
    BY <1>1, <1>7 DEF SInv, Knows
  <2>2. o \in ListOf(u) \/ Coming(o)
    BY <1>7 DEF SInv, ListsCoverSessions, ListExpired, Coming
  <2>3. Coming(o) => OthersComing(c, o) \/ o = call[c].token
    BY DEF Coming, OthersComing
  <2> QED BY <1>4, <2>1, <2>2, <2>3 DEF ListedToo
<1>8. call[c].user = u /\ OwnerOf[call[c].token] = u
  BY <1>1
<1> QED BY <1>1, <1>2, <1>4, <1>6, <1>7, <1>8, PutListKeeps

\* The recursion of getSession and deleteSession.
LEMMA GetAgainKeeps ==
  ASSUME SInv, NEW c \in Call, GetAgain(c)
  PROVE  SInv'
<1>1. /\ call[c].pc = "again" /\ call[c] \in CallState
      /\ call[c].token \in Token /\ call[c].user = OwnerOf[call[c].token]
      /\ call[c].user \in Owner
  BY CallFacts DEF GetAgain, AtCall, SInv, ForAToken
<1>2. /\ UNCHANGED <<now, sessions, lists>>
      /\ NoError \/ Swallowed(call[c].user)
  BY <1>1 DEF GetAgain, GetForDeletion
<1>3. swallowed' \in 0..MaxSwallowed /\ excused' \subseteq Owner /\ excused \subseteq excused'
  BY <1>1, <1>2, SwallowedTypes DEF SInv
<1>4. PICK pc \in {"again", "drop", "unwind"} :
        call' = [call EXCEPT ![c].pc = pc,
                             ![c].depth = IF pc = "again" THEN Deeper(@) ELSE @]
  BY DEF GetAgain
<1> DEFINE n == IF pc = "again" THEN Deeper(call[c].depth) ELSE call[c].depth
           r == [call[c] EXCEPT !.pc = pc, !.depth = n]
<1>5. n \in 0..MaxDepth + 1
  BY <1>1, SessionAssumption DEF CallState, Deeper
<1>6. call' = [call EXCEPT ![c] = r]
  BY <1>1, <1>4 DEF SInv, Base, SessionTypeOK, CallState
<1> HIDE DEF n
<1>7. r \in CallState /\ r.pc = pc /\ r.token = call[c].token /\ r.user = call[c].user
  BY <1>1, <1>5 DEF CallState, Awaiting
<1> HIDE DEF r
<1>8. WellFormed(r) /\ r.pc \notin Relying /\ call[c].pc \notin UnderWay
  BY <1>1, <1>7 DEF WellFormed, Relying, UnderWay
<1> QED BY <1>2, <1>3, <1>6, <1>7, <1>8, ReadStep

LEMMA UnwindKeeps ==
  ASSUME SInv, NEW c \in Call, Unwind(c)
  PROVE  SInv'
<1>1. /\ call[c].pc = "unwind" /\ call[c] \in CallState
      /\ call[c].token \in Token /\ call[c].user = OwnerOf[call[c].token]
  BY CallFacts DEF Unwind, AtCall, SInv, ForAToken
<1>2. PutSession(call[c].token, None) /\ UNCHANGED <<now, lists>> /\ call[c].pc \notin UnderWay
  BY <1>1 DEF Unwind, UnderWay
<1>3. call' = [call EXCEPT ![c] = Returned(c)]
  BY DEF Unwind, Becomes
<1>4. /\ Returned(c) \in CallState /\ WellFormed(Returned(c))
      /\ Returned(c).pc \notin Relying
  BY ReturnedIsCall DEF SInv, Relying
<1> QED BY <1>1, <1>2, <1>3, <1>4, DropStep

\* The key is gone before the token leaves the list.
LEMMA DropKeeps ==
  ASSUME SInv, NEW c \in Call, Drop(c)
  PROVE  SInv'
<1> DEFINE r == [call[c] EXCEPT !.pc = "cutRead"]
<1>1. PICK t \in Token :
        /\ call[c].pc = "drop" /\ call[c] \in CallState
        /\ call[c].token = t /\ call[c].user = OwnerOf[t]
  BY CallFacts DEF Drop, AtCall, SInv, ForAToken
<1>2. /\ PutSession(t, None) /\ UNCHANGED <<now, lists>>
      /\ call' = [call EXCEPT ![c] = r]
  BY <1>1 DEF Drop
<1>3. /\ r \in CallState /\ r.pc = "cutRead" /\ r.token = t /\ r.user = OwnerOf[t]
      /\ call'[c] = r
  BY <1>1, <1>2 DEF CallState, Awaiting, SInv, Base, SessionTypeOK
<1> HIDE DEF r
<1>4. OwnerOf[t] \in Owner /\ sessions \in [Token -> Session \union {None}]
  BY SessionAssumption DEF SInv, Base, SessionTypeOK
<1>5. Live(sessions[t])' => OwnerOf[t] \in excused'
  <2>1. CASE sessions' = [sessions EXCEPT ![t] = None]
    BY <1>4, <2>1 DEF Live
  <2>2. CASE Swallowed(OwnerOf[t])
    BY <1>4, <2>2 DEF Swallowed
  <2> QED BY <1>2, <2>1, <2>2 DEF PutSession
<1>6. Knows(call[c])'
  BY <1>3, <1>5 DEF Knows
<1>7. WellFormed(r)
  BY <1>1, <1>3 DEF WellFormed
<1> QED BY <1>1, <1>2, <1>3, <1>6, <1>7, DropStep

LEMMA CutReadKeeps ==
  ASSUME SInv, NEW c \in Call, CutRead(c)
  PROVE  SInv'
<1>1. PICK t \in Token, u \in Owner :
        /\ call[c].pc = "cutRead" /\ call[c] \in CallState
        /\ call[c].token = t /\ call[c].user = u /\ u = OwnerOf[t]
  BY CallFacts DEF CutRead, AtCall, SInv, ForAToken
<1>2. PICK L \in SUBSET Token :
        /\ GetList(u, L)
        /\ call' = [call EXCEPT ![c].pc = "listCut", ![c].tokens = L \ {t}]
  BY <1>1 DEF CutRead
<1>3. UNCHANGED <<now, sessions, lists>>
  BY DEF CutRead
<1>4. /\ swallowed' \in 0..MaxSwallowed /\ excused' \subseteq Owner /\ excused \subseteq excused'
      /\ u \notin excused' => L = ListOf(u)
  BY <1>1, <1>2, GetListTypes DEF SInv
<1> DEFINE r == [call[c] EXCEPT !.pc = "listCut", !.tokens = L \ {t}]
<1>5. call' = [call EXCEPT ![c] = r] /\ call'[c] = r
  BY <1>2 DEF SInv, Base, SessionTypeOK
<1>6. /\ r \in CallState /\ r.pc = "listCut" /\ r.tokens = L \ {t}
      /\ r.user = u /\ r.token = t /\ r.overtaken = call[c].overtaken
  BY <1>1 DEF CallState, Awaiting
<1>7. ~call[c].overtaken /\ u \notin excused /\ Live(sessions[t]) => Coming(t)
  BY <1>1 DEF SInv, Knows
<1>8. Coming(t) => Coming(t)'
  BY <1>1, <1>5, ComingStays DEF SInv, UnderWay
<1> HIDE DEF r
<1>9. ListOf(u)' = ListOf(u) /\ Live(sessions[t])' = Live(sessions[t])
  BY <1>3 DEF ListOf, Live
<1>10. Knows(call[c])'
  BY <1>4, <1>5, <1>6, <1>7, <1>8, <1>9 DEF Knows
<1>11. WellFormed(r) /\ call[c].pc \notin UnderWay
  BY <1>1, <1>6 DEF WellFormed, UnderWay
<1> QED BY <1>3, <1>4, <1>5, <1>6, <1>10, <1>11, ReadStep

LEMMA ListCutKeeps ==
  ASSUME SInv, NEW c \in Call, ListCut(c)
  PROVE  SInv'
<1>1. PICK t \in Token, u \in Owner :
        /\ call[c].pc = "listCut" /\ call[c] \in CallState
        /\ call[c].token = t /\ call[c].user = u /\ u = OwnerOf[t]
  BY CallFacts DEF ListCut, AtCall, SInv, ForAToken
<1> DEFINE S == call[c].tokens
           full == [tokens |-> S, dies |-> DiesAfter(DefaultTtl)]
           list == IF S = {} THEN None ELSE full
<1>2. PutList(c, list) /\ UNCHANGED <<now, sessions>>
  BY DEF ListCut
<1>3. S \in SUBSET Token /\ now \in Nat /\ DefaultTtl \in Nat
  BY <1>1, SessionAssumption DEF CallState, SInv, Base, SessionTypeOK
<1>4. full \in List /\ full.tokens = S /\ full.dies = DiesAfter(DefaultTtl)
  BY <1>3, DiesAfterIsTime DEF List, SInv
<1>5. full # None
  BY <1>4, SessionAssumption DEF List
<1> HIDE DEF full
<1>6. Live(full)
  BY <1>3, <1>4, <1>5, FreshKeysLive
<1>7. list \in List \union {None} /\ (S # {} => Live(list) /\ list.tokens = S)
  BY <1>4, <1>6
<1>8. ASSUME ~call[c].overtaken, u \notin excused, ~ListExpired(u),
             NEW o \in Token, OwnerOf[o] = u, Live(sessions[o])
      PROVE  OthersComing(c, o) \/ (Live(list) /\ o \in list.tokens)
  <2>1. S = ListOf(u) \ {t} /\ (Live(sessions[t]) => Coming(t))
    BY <1>1, <1>8 DEF SInv, Knows
  <2>2. o \in ListOf(u) \/ Coming(o)
    BY <1>8 DEF SInv, ListsCoverSessions, ListExpired, Coming
  <2>3. Coming(o) => OthersComing(c, o)
    BY <1>1 DEF Coming, OthersComing, UnderWay
  <2> HIDE DEF list, S
  <2>4. o \in S => Live(list) /\ o \in list.tokens
    BY <1>7
  <2> QED BY <1>8, <2>1, <2>2, <2>3, <2>4
<1>9. call[c].pc \notin UnderWay
  BY <1>1 DEF UnderWay
<1> HIDE DEF list, S
<1> QED BY <1>1, <1>2, <1>7, <1>8, <1>9, PutListKeeps

-----------------------------------------------------------------------------
(* deleteUserSessions *)

LEMMA DeleteUserSessionsKeeps ==
  ASSUME SInv, NEW c \in Call, NEW u \in Owner, DeleteUserSessions(c, u)
  PROVE  SInv'
<1>1. PICK L \in SUBSET Token :
        /\ GetList(u, L)
        /\ Becomes(c, [Quiet EXCEPT !.pc = "dropEach", !.user = u, !.tokens = L])
  BY DEF DeleteUserSessions
<1>2. UNCHANGED <<now, sessions, lists>> /\ call[c].pc \notin UnderWay
  BY DEF DeleteUserSessions, AtCall, UnderWay
<1>3. /\ swallowed' \in 0..MaxSwallowed /\ excused' \subseteq Owner /\ excused \subseteq excused'
      /\ u \notin excused' => L = ListOf(u)
  BY <1>1, GetListTypes DEF SInv
<1> DEFINE r == [Quiet EXCEPT !.pc = "dropEach", !.user = u, !.tokens = L]
<1>4. /\ r \in CallState /\ r.pc = "dropEach" /\ r.user = u /\ r.tokens = L
      /\ r.depth = 0
  BY QuietIsCall DEF CallState, Awaiting
<1>5. call' = [call EXCEPT ![c] = r] /\ call'[c] = r
  BY <1>1 DEF Becomes, SInv, Base, SessionTypeOK
<1> HIDE DEF r
<1>6. WellFormed(r)
  BY <1>4 DEF WellFormed, ForAToken
<1>7. ASSUME NEW t \in Token, OwnerOf[t] = u, Live(sessions[t])', u \notin excused'
      PROVE  t \in L \/ Coming(t)' \/ ListExpired(u)'
  <2>1. t \in ListOf(u) \/ ListExpired(u) \/ Coming(t)
    BY <1>2, <1>3, <1>7 DEF SInv, ListsCoverSessions, ListExpired, Coming, Live
  <2>2. ListExpired(u)' = ListExpired(u)
    BY <1>2 DEF ListExpired, Live
  <2>3. Coming(t) => Coming(t)'
    BY <1>2, <1>5, ComingStays DEF SInv
  <2> QED BY <1>3, <1>7, <2>1, <2>2, <2>3
<1>8. Knows(call[c])'
  BY <1>4, <1>5, <1>7 DEF Knows
<1> QED BY <1>2, <1>3, <1>4, <1>5, <1>6, <1>8, ReadStep

LEMMA DropEachKeeps ==
  ASSUME SInv, NEW c \in Call, DropEach(c)
  PROVE  SInv'
<1>1. PICK u \in Owner : call[c].pc = "dropEach" /\ call[c] \in CallState /\ call[c].user = u
  BY CallFacts DEF DropEach, AtCall, SInv
<1>2. PICK t \in call[c].tokens :
        PutSession(t, None) /\ call' = [call EXCEPT ![c].tokens = @ \ {t}]
  BY DEF DropEach
<1>3. t \in Token /\ call[c].tokens \ {t} \in SUBSET Token
  BY <1>1 DEF CallState
<1> DEFINE r == [call[c] EXCEPT !.tokens = @ \ {t}]
<1>4. /\ r \in CallState /\ r.pc = "dropEach" /\ r.user = u
      /\ r.tokens = call[c].tokens \ {t} /\ r.overtaken = call[c].overtaken
      /\ r.depth = call[c].depth /\ r.token = call[c].token
  BY <1>1, <1>3 DEF CallState
<1>5. call' = [call EXCEPT ![c] = r] /\ call'[c] = r
  BY <1>2 DEF SInv, Base, SessionTypeOK
<1> HIDE DEF r
<1>6. WellFormed(r) /\ call[c].pc \notin UnderWay
  BY <1>1, <1>4 DEF SInv, Base, WellFormed, ForAToken, UnderWay
<1>7. UNCHANGED <<now, lists>>
  BY DEF DropEach
<1>8. ASSUME NEW o \in Token, OwnerOf[o] = u, Live(sessions[o])', u \notin excused',
             ~call[c].overtaken
      PROVE  o \in r.tokens \/ Coming(o)' \/ ListExpired(u)'
  <2>1. u \notin excused /\ Live(sessions[o]) /\ o # t
    BY <1>2, <1>3, <1>7, <1>8 DEF PutSession, NoError, Swallowed, Live, SInv, Base, SessionTypeOK
  <2>2. o \in call[c].tokens \/ Coming(o) \/ ListExpired(u)
    BY <1>1, <1>8, <2>1 DEF SInv, Knows
  <2>3. ListExpired(u)' = ListExpired(u)
    BY <1>7 DEF ListExpired, Live
  <2>4. Coming(o) => Coming(o)'
    BY <1>5, <1>6, ComingStays DEF SInv
  <2> QED BY <1>4, <2>1, <2>2, <2>3, <2>4
<1>9. Knows(call[c])'
  BY <1>4, <1>5, <1>8 DEF Knows
<1> QED BY <1>2, <1>3, <1>4, <1>5, <1>6, <1>7, <1>9, DropStep

LEMMA DropListKeeps ==
  ASSUME SInv, NEW c \in Call, DropList(c)
  PROVE  SInv'
<1>1. PICK u \in Owner : call[c].pc = "dropEach" /\ call[c].user = u /\ call[c].tokens = {}
  BY CallFacts DEF DropList, AtCall, SInv
<1>2. PutList(c, None) /\ UNCHANGED <<now, sessions>>
  BY DEF DropList
<1>3. ASSUME ~call[c].overtaken, u \notin excused, ~ListExpired(u),
             NEW o \in Token, OwnerOf[o] = u, Live(sessions[o])
      PROVE  OthersComing(c, o)
  <2>1. Coming(o)
    BY <1>1, <1>3 DEF SInv, Knows
  <2> QED BY <1>1, <2>1 DEF Coming, OthersComing, UnderWay
<1>4. call[c].pc \notin UnderWay
  BY <1>1 DEF UnderWay
<1> QED BY <1>1, <1>2, <1>3, <1>4, PutListKeeps

-----------------------------------------------------------------------------
LEMMA InitSInv == SessionInit => SInv
<1> SUFFICES ASSUME SessionInit PROVE SInv
  OBVIOUS
<1>1. /\ now = 0 /\ sessions = [t \in Token |-> None] /\ lists = [u \in Owner |-> None]
      /\ call = [c \in Call |-> Quiet] /\ swallowed = 0 /\ excused = {}
  BY DEF SessionInit
<1>2. SessionTypeOK
  BY <1>1, QuietIsCall, SessionAssumption DEF SessionTypeOK, CallState
<1>3. \A c \in Call : WellFormed(call[c]) /\ Knows(call[c])
  BY <1>1, QuietIsCall DEF Knows
<1>4. ListsCoverSessions
  BY <1>1 DEF ListsCoverSessions, Live
<1> QED BY <1>2, <1>3, <1>4 DEF SInv, Base

LEMMA NextSInv == SInv /\ [SessionNext]_sessionVars => SInv'
<1> SUFFICES ASSUME SInv, [SessionNext]_sessionVars PROVE SInv'
  OBVIOUS
<1>1. ASSUME NEW c \in Call, CallSteps(c) PROVE SInv'
  BY <1>1, ListReadKeeps, ListAddKeeps, GetAgainKeeps, UnwindKeeps, DropKeeps, CutReadKeeps,
     ListCutKeeps, DropEachKeeps, DropListKeeps, ResaveKeeps DEF CallSteps
<1>2. ASSUME NEW c \in Call, NEW t \in Token, CallStarts(c, t) PROVE SInv'
  BY <1>2, SaveSessionKeeps, StartKeeps DEF CallStarts
<1>3. ASSUME NEW c \in Call, NEW u \in Owner, DeleteUserSessions(c, u) PROVE SInv'
  BY <1>3, DeleteUserSessionsKeeps
<1>4. CASE Tick
  BY <1>4, TickKeeps
<1>5. CASE UNCHANGED sessionVars
  BY <1>5 DEF sessionVars, SInv, Base, SessionTypeOK, WellFormed,
     ListsCoverSessions, Knows, Coming, ListExpired, ListOf, Live, UnderWay
<1> QED BY <1>1, <1>2, <1>3, <1>4, <1>5 DEF SessionNext

LEMMA SInvariance == SessionSpec => []SInv
BY InitSInv, NextSInv, PTL DEF SessionSpec

\* The keys, the lists and whatever a call holds keep their types.
THEOREM SessionTypes == SessionSpec => []SessionTypeOK
<1>1. SInv => SessionTypeOK
  BY DEF SInv, Base
<1> QED BY <1>1, SInvariance, PTL

LEMMA ListsCover == SessionSpec => []ListsCoverSessions
<1>1. SInv => ListsCoverSessions
  BY DEF SInv
<1> QED BY <1>1, SInvariance, PTL

-----------------------------------------------------------------------------
(* What deleteUserSessions leaves *)

\* A call's place is its own affair.
LEMMA OthersStay ==
  ASSUME SInv, NEW c \in Call, NEW d \in Call, d # c,
         \/ CallSteps(d)
         \/ \E t \in Token : CallStarts(d, t)
         \/ \E u \in Owner : DeleteUserSessions(d, u)
  PROVE  call'[c].pc = call[c].pc
<1>1. call \in [Call -> CallState] /\ call[c] \in CallState
  BY DEF SInv, Base, SessionTypeOK, CallState
<1>2. LeaveList(d) => call'[c].pc = call[c].pc
  BY <1>1 DEF LeaveList, CallState
<1>3. \A r : Becomes(d, r) => call'[c].pc = call[c].pc
  BY <1>1 DEF Becomes
<1>4. CASE \E t \in Token : CallStarts(d, t)
  BY <1>3, <1>4 DEF CallStarts, SaveSession, SetSession, GetExpired, DeleteSession,
     UpdateSessionExpiration
<1>5. CASE \E u \in Owner : DeleteUserSessions(d, u)
  BY <1>3, <1>5 DEF DeleteUserSessions
<1>6. CASE ListRead(d) \/ ListAdd(d) \/ ListCut(d) \/ DropList(d) \/ Resave(d)
  BY <1>1, <1>2, <1>3, <1>6 DEF ListRead, ListAdd, ListCut, DropList, Resave, SetSession, PutList
<1>7. CASE GetAgain(d) \/ Unwind(d) \/ Drop(d) \/ CutRead(d) \/ DropEach(d)
  BY <1>1, <1>3, <1>7 DEF GetAgain, Unwind, Drop, CutRead, DropEach
<1> QED BY <1>4, <1>5, <1>6, <1>7 DEF CallSteps

\* The deletion of the list is the only step in which deleteUserSessions returns.
LEMMA OnlyDropListReturns ==
  ASSUME SInv, [SessionNext]_sessionVars, NEW c \in Call, AtCall(c, "dropEach"),
         call'[c].pc = "idle"
  PROVE  DropList(c)
<1>1. call[c].pc = "dropEach" /\ call \in [Call -> CallState]
  BY DEF AtCall, SInv, Base, SessionTypeOK, CallState
<1>2. PICK d \in Call : \/ CallSteps(d)
                        \/ \E t \in Token : CallStarts(d, t)
                        \/ \E u \in Owner : DeleteUserSessions(d, u)
  BY <1>1 DEF SessionNext, Tick, sessionVars
<1>3. d = c
  BY <1>1, <1>2, OthersStay
<1>4. DropEach(c) \/ DropList(c)
  BY <1>1, <1>2, <1>3 DEF CallStarts, SaveSession, GetExpired, DeleteSession, UpdateSessionExpiration,
     DeleteUserSessions, CallSteps, ListRead, ListAdd, GetAgain, Unwind, Drop, CutRead, ListCut,
     Resave, AtCall
<1>5. DropEach(c) => call'[c].pc = "dropEach"
  BY <1>1 DEF DropEach, CallState
<1> QED BY <1>4, <1>5

\* deleteUserSessions leaves nothing behind that it could have known of.
THEOREM RevocationsAreComplete == SessionSpec => RevocationLeavesNone
<1> DEFINE Complete ==
      \A c \in Call :
        AtCall(c, "dropEach") /\ call'[c].pc = "idle" /\ call[c].user \notin excused' =>
          \A t \in Token :
            OwnerOf[t] = call[c].user /\ Live(sessions[t]) =>
              \E d \in Call : call[d].token = t /\ call[d].pc \in UnderWay
<1>1. ASSUME SInv, [SessionNext]_sessionVars PROVE Complete
  <2> SUFFICES ASSUME NEW c \in Call, AtCall(c, "dropEach"), call'[c].pc = "idle",
                      call[c].user \notin excused',
                      NEW t \in Token, OwnerOf[t] = call[c].user, Live(sessions[t])
               PROVE  Coming(t)
    BY DEF Coming
  <2>1. DropList(c)
    BY <1>1, OnlyDropListReturns
  <2>2. PICK u \in Owner : call[c].pc = "dropEach" /\ call[c].user = u /\ call[c].tokens = {}
    BY <1>1, <2>1, CallFacts DEF DropList, AtCall, SInv
  <2>3. /\ excused' = IF call[c].overtaken \/ ListExpired(u) THEN excused \union {u} ELSE excused
        /\ u \notin excused'
    BY <2>1, <2>2 DEF DropList, PutList, Swallowed, ListExpired
  <2>4. ~call[c].overtaken /\ ~ListExpired(u) /\ u \notin excused
    BY <2>3
  <2> QED BY <1>1, <2>2, <2>4 DEF SInv, Knows
<1> QED BY <1>1, SInvariance, PTL DEF SessionSpec, RevocationLeavesNone

=============================================================================
