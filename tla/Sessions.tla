------------------------------- MODULE Sessions -------------------------------
(***************************************************************************)
(* SessionCacheService: the keys session:<token> and the list of a user's  *)
(* tokens under user:sessions:<id>, with their times to live.              *)
(*                                                                         *)
(* The clock counts the unit of the store, milliseconds; calculateTtl      *)
(* returns seconds, and the store takes that number as milliseconds and 0  *)
(* as no time to live at all.  Every cache call is an await and a step of  *)
(* the call that makes it; the first one is part of the action that starts *)
(* the call.  Calls come from anywhere in any order.  A list is the set of *)
(* its tokens: no token is in it twice, and the order decides nothing but  *)
(* in which order deleteUserSessions deletes.                              *)
(***************************************************************************)
EXTENDS Integers

CONSTANTS
  Call,          \* calls of the service in progress at a time
  Token, Owner,
  OwnerOf,       \* token -> the user it is saved for
  Lifetime,      \* how far ahead the sessions that are saved expire
  Ttl,           \* what callers give as ttl; 0 is to give none
  Second,        \* units of the clock in one unit of calculateTtl
  DefaultTtl,    \* of the store, for a set without one
  MaxTime,       \* bound: the last instant
  MaxSwallowed,  \* bound: cache calls that fail in a behaviour
  MaxDepth,      \* bound: unfinished frames of the recursion that are counted
  None, NoToken

ASSUME SessionAssumption ==
  /\ OwnerOf \in [Token -> Owner]
  /\ Lifetime \subseteq Nat /\ Ttl \subseteq Nat
  /\ Second \in Nat \ {0} /\ DefaultTtl \in Nat /\ MaxTime \in Nat
  /\ MaxSwallowed \in Nat /\ MaxDepth \in Nat
  /\ NoToken \notin Token
  /\ None \notin [expiresAt : Nat, dies : Nat] \union [tokens : SUBSET Token, dies : Nat]

VARIABLES
  now,
  sessions,      \* token -> stored session with its expiry, or None
  lists,         \* user -> stored list, or None
  call,          \* call -> what it awaits, and what it holds
  swallowed,     \* history: cache calls that failed
  excused        \* history: users whose list was written from an old copy, or
                 \* expired, or suffered a failed cache call

sessionVars == <<now, sessions, lists, call, swallowed, excused>>

Never   == 0    \* the time at which a key without a time to live goes
Session == [expiresAt : Nat, dies : Nat]
List    == [tokens : SUBSET Token, dies : Nat]

\* overtaken is history: the list was written, or relied on, since the call read it
\* or deleted the key.
Quiet == [pc |-> "idle", user |-> NoToken, token |-> NoToken, tokens |-> {},
         expiresAt |-> 0, ttl |-> 0, depth |-> 0, overtaken |-> FALSE]

For(t) == [Quiet EXCEPT !.user = OwnerOf[t], !.token = t]

AtCall(c, pc) == call[c].pc = pc
Becomes(c, r) == call' = [call EXCEPT ![c] = r]

-----------------------------------------------------------------------------
(* Variants with a bug, to show that the properties can fail. *)

\* Math.max(..., 0) is missing.
CalculateTtlUnclamped(expiresAt) == (expiresAt - now) \div Second

\* The list is written as if this were the user's only session.
ListedAlone(c) == {call[c].token}

-----------------------------------------------------------------------------
(* The store *)

Live(entry) == entry # None /\ (entry.dies = Never \/ now < entry.dies)

\* Keyv: 0 is no time to live.
DiesAfter(ttl) == IF ttl = 0 THEN Never ELSE now + ttl

ListOf(u) == IF Live(lists[u]) THEN lists[u].tokens ELSE {}

Expired(s) == s.expiresAt < now

CalculateTtl(expiresAt) == IF expiresAt > now THEN (expiresAt - now) \div Second ELSE 0

\* CacheService swallows the errors of the store: a set or delete that fails does
\* nothing, a get that fails reads nothing, and the call goes on.
Swallowed(u) ==
  /\ swallowed < MaxSwallowed /\ swallowed' = swallowed + 1
  /\ excused' = excused \union {u}

NoError == UNCHANGED <<swallowed, excused>>

\* set or delete of a session's key
PutSession(t, entry) ==
  \/ NoError /\ sessions' = [sessions EXCEPT ![t] = entry]
  \/ Swallowed(OwnerOf[t]) /\ UNCHANGED sessions

\* get of the list: what is read is L
GetList(u, L) == (NoError /\ L = ListOf(u)) \/ (Swallowed(u) /\ L = {})

\* A frame of deleteSession returns to the one around it, if there is one.
Returned(c) ==
  IF call[c].depth > 1
  THEN [For(call[c].token) EXCEPT !.pc = "unwind", !.depth = call[c].depth - 1]
  ELSE Quiet

\* c is done with the list; another call that goes on to write it has read it, or
\* deleted a key, too early to know.
LeaveList(c) ==
  call' = [d \in Call |->
    IF d = c THEN Returned(c)
    ELSE [call[d] EXCEPT !.overtaken =
            @ \/ /\ call[d].user = call[c].user
                 /\ call[d].pc \in {"listAdd", "cutRead", "listCut", "dropEach"}]]

\* set or delete of the list
PutList(c, list) ==
  LET u == call[c].user
  IN \/ /\ lists' = [lists EXCEPT ![u] = list]
        /\ LeaveList(c)
        /\ excused' = IF call[c].overtaken \/ (lists[u] # None /\ ~Live(lists[u]))
                      THEN excused \union {u} ELSE excused
        /\ UNCHANGED swallowed
     \/ Swallowed(u) /\ Becomes(c, Returned(c)) /\ UNCHANGED lists

-----------------------------------------------------------------------------
(* saveSession *)

CacheTtl(expiresAt, ttl) == IF ttl = 0 THEN CalculateTtl(expiresAt) ELSE ttl

SetSession(c, t, expiresAt, ttl) ==
  /\ PutSession(t, [expiresAt |-> expiresAt, dies |-> DiesAfter(CacheTtl(expiresAt, ttl))])
  /\ Becomes(c, [For(t) EXCEPT !.pc = "listRead", !.ttl = CacheTtl(expiresAt, ttl)])

SaveSession(c, t) ==
  /\ AtCall(c, "idle")
  /\ \E l \in Lifetime, ttl \in Ttl : SetSession(c, t, now + l, ttl)
  /\ UNCHANGED <<now, lists>>

ListRead(c) ==
  /\ AtCall(c, "listRead")
  /\ \E L \in SUBSET Token :
       /\ GetList(call[c].user, L)
       /\ IF call[c].token \in L THEN LeaveList(c)
          ELSE call' = [call EXCEPT ![c].pc = "listAdd", ![c].tokens = L]
  /\ UNCHANGED <<now, sessions, lists>>

ListedToo(c) == call[c].tokens \union {call[c].token}

ListAdd(c) ==
  /\ AtCall(c, "listAdd")
  /\ PutList(c, [tokens |-> ListedToo(c), dies |-> DiesAfter(call[c].ttl)])
  /\ UNCHANGED <<now, sessions>>

-----------------------------------------------------------------------------
(* getSession, which answers, but for an expired session calls deleteSession, and
   deleteSession, whose first step is getSession of the same token: "again" is the
   innermost of these gets, depth the number of unfinished frames of deleteSession. *)

\* The get at the start of deleteSession, and what comes of it.
GetForDeletion(t, pc) ==
  LET found == Live(sessions[t])
  IN \/ pc = "again"  /\ found /\ Expired(sessions[t])  /\ NoError
     \/ pc = "drop"   /\ found /\ ~Expired(sessions[t]) /\ NoError
     \/ pc = "unwind" /\ ~found /\ NoError
     \/ pc = "unwind" /\ found /\ Swallowed(OwnerOf[t])

Deeper(d) == IF d < MaxDepth THEN d + 1 ELSE d

GetExpired(c, t) ==
  /\ AtCall(c, "idle")
  /\ Live(sessions[t]) /\ Expired(sessions[t])
  /\ Becomes(c, [For(t) EXCEPT !.pc = "again", !.depth = 1])
  /\ UNCHANGED <<now, sessions, lists, swallowed, excused>>

DeleteSession(c, t) ==
  /\ AtCall(c, "idle")
  /\ \E pc \in {"again", "drop", "unwind"} :
       /\ GetForDeletion(t, pc)
       /\ Becomes(c, [For(t) EXCEPT !.pc = pc,
                                    !.depth = IF pc = "again" THEN Deeper(1) ELSE 1])
  /\ UNCHANGED <<now, sessions, lists>>

\* Beyond MaxDepth the recursion goes on without a change of state.
GetAgain(c) ==
  /\ AtCall(c, "again")
  /\ \E pc \in {"again", "drop", "unwind"} :
       /\ GetForDeletion(call[c].token, pc)
       /\ call' = [call EXCEPT ![c].pc = pc,
                               ![c].depth = IF pc = "again" THEN Deeper(@) ELSE @]
  /\ UNCHANGED <<now, sessions, lists>>

\* A frame whose getSession found nothing deletes the key, and that is all.
Unwind(c) ==
  /\ AtCall(c, "unwind")
  /\ PutSession(call[c].token, None)
  /\ Becomes(c, Returned(c))
  /\ UNCHANGED <<now, lists>>

(* A frame whose getSession returned a session *)

Drop(c) ==
  /\ AtCall(c, "drop")
  /\ PutSession(call[c].token, None)
  /\ call' = [call EXCEPT ![c].pc = "cutRead"]
  /\ UNCHANGED <<now, lists>>

CutRead(c) ==
  /\ AtCall(c, "cutRead")
  /\ \E L \in SUBSET Token :
       /\ GetList(call[c].user, L)
       /\ call' = [call EXCEPT ![c].pc = "listCut", ![c].tokens = L \ {call[c].token}]
  /\ UNCHANGED <<now, sessions, lists>>

\* set without a TTL, or delete
ListCut(c) ==
  /\ AtCall(c, "listCut")
  /\ PutList(c, IF call[c].tokens = {} THEN None
                ELSE [tokens |-> call[c].tokens, dies |-> DiesAfter(DefaultTtl)])
  /\ UNCHANGED <<now, sessions>>

(* deleteUserSessions *)

DeleteUserSessions(c, u) ==
  /\ AtCall(c, "idle")
  /\ \E L \in SUBSET Token :
       /\ GetList(u, L)
       /\ Becomes(c, [Quiet EXCEPT !.pc = "dropEach", !.user = u, !.tokens = L])
  /\ UNCHANGED <<now, sessions, lists>>

DropEach(c) ==
  /\ AtCall(c, "dropEach")
  /\ \E t \in call[c].tokens :
       /\ PutSession(t, None)
       /\ call' = [call EXCEPT ![c].tokens = @ \ {t}]
  /\ UNCHANGED <<now, lists>>

DropList(c) ==
  /\ AtCall(c, "dropEach")
  /\ call[c].tokens = {}
  /\ PutList(c, None)
  /\ UNCHANGED <<now, sessions>>

(* updateSessionExpiration of a session that has not expired *)

UpdateSessionExpiration(c, t) ==
  /\ AtCall(c, "idle")
  /\ Live(sessions[t]) /\ ~Expired(sessions[t])
  /\ \E l \in Lifetime :
       Becomes(c, [For(t) EXCEPT !.pc = "resave", !.expiresAt = now + l])
  /\ UNCHANGED <<now, sessions, lists, swallowed, excused>>

Resave(c) ==
  /\ AtCall(c, "resave")
  /\ SetSession(c, call[c].token, call[c].expiresAt, 0)
  /\ UNCHANGED <<now, lists>>

-----------------------------------------------------------------------------
Tick ==
  /\ now < MaxTime
  /\ now' = now + 1
  /\ UNCHANGED <<sessions, lists, call, swallowed, excused>>

SessionInit ==
  /\ now = 0
  /\ sessions = [t \in Token |-> None]
  /\ lists = [u \in Owner |-> None]
  /\ call = [c \in Call |-> Quiet]
  /\ swallowed = 0
  /\ excused = {}

CallStarts(c, t) ==
  \/ SaveSession(c, t) \/ GetExpired(c, t) \/ DeleteSession(c, t)
  \/ UpdateSessionExpiration(c, t)

CallSteps(c) ==
  \/ ListRead(c) \/ ListAdd(c) \/ GetAgain(c) \/ Unwind(c) \/ Drop(c) \/ CutRead(c)
  \/ ListCut(c) \/ DropEach(c) \/ DropList(c) \/ Resave(c)

SessionNext ==
  \/ \E c \in Call :
       \/ CallSteps(c)
       \/ \E t \in Token : CallStarts(c, t)
       \/ \E u \in Owner : DeleteUserSessions(c, u)
  \/ Tick

SessionSpec == SessionInit /\ [][SessionNext]_sessionVars

\* An await settles.
FairSessionSpec == SessionSpec /\ \A c \in Call : WF_sessionVars(CallSteps(c))

-----------------------------------------------------------------------------
(* Properties *)

Awaiting == {"idle", "listRead", "listAdd", "again", "unwind", "drop", "cutRead",
             "listCut", "dropEach", "resave"}

\* Types of the store and of the calls.
SessionTypeOK ==
  /\ now \in 0..MaxTime
  /\ sessions \in [Token -> Session \union {None}]
  /\ lists \in [Owner -> List \union {None}]
  /\ call \in [Call -> [pc : Awaiting, user : Owner \union {NoToken},
                        token : Token \union {NoToken}, tokens : SUBSET Token,
                        expiresAt : Nat, ttl : Nat,
                        depth : 0..MaxDepth + 1, overtaken : BOOLEAN]]
  /\ swallowed \in 0..MaxSwallowed
  /\ excused \subseteq Owner

\* A token that a call is about to list, or to delete.
UnderWay == {"listRead", "listAdd", "drop"}

\* When deleteUserSessions returns, none of the user's sessions can be read but one
\* whose save, or deletion, is under way; or the list misled it.
RevocationLeavesNone ==
  [][\A c \in Call :
       AtCall(c, "dropEach") /\ call'[c].pc = "idle" /\ call[c].user \notin excused' =>
         \A t \in Token :
           OwnerOf[t] = call[c].user /\ Live(sessions[t]) =>
             \E d \in Call : call[d].token = t /\ call[d].pc \in UnderWay]_sessionVars

\* What the comment of deleteUserSessions says: it deletes all sessions of the user.
RevocationDeletesAll ==
  [][\A c \in Call :
       AtCall(c, "dropEach") /\ call'[c].pc = "idle" =>
         \A t \in Token :
           OwnerOf[t] = call[c].user => ~Live(sessions[t]) \/ Expired(sessions[t])]_sessionVars

\* What the comment of getSession says: it answers undefined for an expired session.
EveryCallReturns == \A c \in Call : ~AtCall(c, "idle") ~> AtCall(c, "idle")

=============================================================================
