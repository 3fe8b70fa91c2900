-------------------------------- MODULE Rooms --------------------------------
(***************************************************************************)
(* The two WebSocket gateways on several instances of the application,     *)
(* joined by the Redis adapter of socket.io.                               *)
(*                                                                         *)
(* An emit reaches the sockets of the emitting instance at once, and is    *)
(* published to the other instances, each of which gives it to those of    *)
(* its own sockets that are in the room when it arrives.  Redis keeps the  *)
(* order of one publisher and forgets what a subscriber misses.            *)
(*                                                                         *)
(* The guard verifies the token of the handshake again at every event; it  *)
(* waits for nothing outside the process, so guard and handler are one     *)
(* action, enabled while the token is valid.  Answers to the calling       *)
(* socket (room_joined and the like) and the contents of events are left   *)
(* out.  A connection that ends takes its socket out of all rooms, and a   *)
(* client that connects again is another socket.                           *)
(***************************************************************************)
EXTENDS Naturals, FiniteSets, SequencesExt

CONSTANTS
  Instance,       \* processes of the application
  Socket,         \* client connections
  HomeOf,         \* socket -> the instance it is connected to
  Conversations,  \* sockets of the namespace /conversations
  Room,           \* conversation rooms
  UserRoom,       \* socket of /notifications -> the room of the user of its token
  MaxEvents,      \* bound: events emitted
  MaxLost,        \* bound: publications that Redis loses
  NoSocket, Everyone

ASSUME RoomsAssumption ==
  /\ HomeOf \in [Socket -> Instance]
  /\ Conversations \subseteq Socket
  /\ DOMAIN UserRoom = Socket \ Conversations
  /\ MaxEvents \in Nat /\ MaxLost \in Nat
  /\ NoSocket \notin Socket

VARIABLES
  open,           \* socket -> "new", "open" or "closed"
  valid,          \* sockets not yet closed whose token has not expired
  rooms,          \* socket -> the rooms it is in
  channel,        \* <<from, to>> -> events published and not yet received
  heard,          \* socket -> the events it received, in order
  events,         \* events emitted so far, each [id, from, room, except, chat]
  owed,           \* history: <<event id, socket>>, in the room since it was emitted
  missed          \* history: <<event id, instance>> that Redis lost

roomVars == <<open, valid, rooms, channel, heard, events, owed, missed>>

AnyRoom == Room \union {UserRoom[s] : s \in DOMAIN UserRoom}

-----------------------------------------------------------------------------
(* Variants with a bug, to show that the properties can fail. *)

\* createIOServer leaves out server.adapter: only the sockets of this instance.
RelayedNowhere(e) == channel

\* The emitting instance takes its own publication for another's.
RelayedHomeToo(e) ==
  [p \in Instance \X Instance |-> IF p[1] = e.from THEN Append(channel[p], e) ELSE channel[p]]

-----------------------------------------------------------------------------
(* Redis adapter *)

\* The sockets an event is for: those of its namespace that are in the room, or all
\* of them, but for the caller where the handler used client.to.
Audience(e) ==
  {s \in Socket : /\ open[s] = "open" /\ s # e.except
                  /\ (s \in Conversations) = e.chat
                  /\ e.room = Everyone \/ e.room \in rooms[s]}

Taken(s, e) == Append(heard[s], e.id)

HeardAt(i, e) ==
  [s \in Socket |-> IF HomeOf[s] = i /\ s \in Audience(e) THEN Taken(s, e) ELSE heard[s]]

Relayed(e) ==
  [p \in Instance \X Instance |->
     IF p[1] = e.from /\ p[2] # e.from THEN Append(channel[p], e) ELSE channel[p]]

Emit(i, chat, room, except) ==
  LET e == [id |-> Len(events) + 1, from |-> i, room |-> room,
            except |-> except, chat |-> chat]
  IN /\ Len(events) < MaxEvents
     /\ events' = Append(events, e)
     /\ heard' = HeardAt(i, e)
     /\ channel' = Relayed(e)
     /\ owed' = owed \union ({e.id} \X Audience(e))
     /\ UNCHANGED <<open, valid, rooms, missed>>

Receive(p) ==
  /\ channel[p] # <<>>
  /\ heard' = HeardAt(p[2], Head(channel[p]))
  /\ channel' = [channel EXCEPT ![p] = Tail(@)]
  /\ UNCHANGED <<open, valid, rooms, events, owed, missed>>

Lose(p) ==
  /\ channel[p] # <<>>
  /\ Cardinality(missed) < MaxLost
  /\ missed' = missed \union {<<Head(channel[p]).id, p[2]>>}
  /\ channel' = [channel EXCEPT ![p] = Tail(@)]
  /\ UNCHANGED <<open, valid, rooms, heard, events, owed>>

-----------------------------------------------------------------------------
(* Connections and the guard *)

Connect(s) ==
  /\ open[s] = "new"
  /\ open' = [open EXCEPT ![s] = "open"]
  /\ UNCHANGED <<valid, rooms, channel, heard, events, owed, missed>>

OwedToOthers(s) == {o \in owed : o[2] # s}

Disconnect(s) ==
  /\ open[s] = "open"
  /\ open' = [open EXCEPT ![s] = "closed"]
  /\ rooms' = [rooms EXCEPT ![s] = {}]
  /\ valid' = valid \ {s}
  /\ owed' = OwedToOthers(s)
  /\ UNCHANGED <<channel, heard, events, missed>>

TokenExpires(s) ==
  /\ open[s] = "open" /\ s \in valid
  /\ valid' = valid \ {s}
  /\ UNCHANGED <<open, rooms, channel, heard, events, owed, missed>>

CanActivate(s) == open[s] = "open" /\ s \in valid

-----------------------------------------------------------------------------
(* Handlers *)

Join(s, r) ==
  /\ CanActivate(s)
  /\ rooms' = [rooms EXCEPT ![s] = @ \union {r}]
  /\ UNCHANGED <<open, valid, channel, heard, events, owed, missed>>

\* What was emitted to the room before is no longer owed to the socket.
Leave(s, r) ==
  /\ CanActivate(s)
  /\ rooms' = [rooms EXCEPT ![s] = @ \ {r}]
  /\ owed' = {o \in owed : o[2] = s => events[o[1]].room # r}
  /\ UNCHANGED <<open, valid, channel, heard, events, missed>>

HandleJoinConversation(s, r) == s \in Conversations /\ Join(s, r)
HandleLeaveConversation(s, r) == s \in Conversations /\ Leave(s, r)
HandleJoinRoom(s) == s \notin Conversations /\ Join(s, UserRoom[s])
HandleLeaveRoom(s) == s \notin Conversations /\ Leave(s, UserRoom[s])

\* The room is the one the message names, whether or not the caller is in it.
HandleSendMessage(s, r) ==
  s \in Conversations /\ CanActivate(s) /\ Emit(HomeOf[s], TRUE, r, NoSocket)

HandleTyping(s, r) ==
  s \in Conversations /\ CanActivate(s) /\ Emit(HomeOf[s], TRUE, r, s)

HandleMessageRead(s, r) ==
  s \in Conversations /\ CanActivate(s) /\ Emit(HomeOf[s], TRUE, r, NoSocket)

\* Called by the application, on any instance.
BroadcastMessage(i, r) == Emit(i, TRUE, r, NoSocket)
NotifyConversationUpdate(i, r) == Emit(i, TRUE, r, NoSocket)
SendNotificationToUser(i, s) == Emit(i, FALSE, UserRoom[s], NoSocket)
BroadcastNotification(i) == Emit(i, FALSE, Everyone, NoSocket)

-----------------------------------------------------------------------------
RoomsInit ==
  /\ open = [s \in Socket |-> "new"]
  /\ valid = Socket
  /\ rooms = [s \in Socket |-> {}]
  /\ channel = [p \in Instance \X Instance |-> <<>>]
  /\ heard = [s \in Socket |-> <<>>]
  /\ events = <<>>
  /\ owed = {}
  /\ missed = {}

ChatStep(s, r) ==
  \/ HandleJoinConversation(s, r)
  \/ HandleLeaveConversation(s, r)
  \/ HandleSendMessage(s, r)
  \/ HandleTyping(s, r)
  \/ HandleMessageRead(s, r)

RoomsStep ==
  \/ \E s \in Socket : Connect(s) \/ Disconnect(s) \/ TokenExpires(s)
  \/ \E s \in Conversations, r \in Room : ChatStep(s, r)
  \/ \E s \in Socket \ Conversations : HandleJoinRoom(s) \/ HandleLeaveRoom(s)
  \/ \E i \in Instance, r \in Room : BroadcastMessage(i, r) \/ NotifyConversationUpdate(i, r)
  \/ \E i \in Instance, s \in Socket \ Conversations : SendNotificationToUser(i, s)
  \/ \E i \in Instance : BroadcastNotification(i)
  \/ \E p \in Instance \X Instance : Receive(p) \/ Lose(p)

RoomsSpec == RoomsInit /\ [][RoomsStep]_roomVars

-----------------------------------------------------------------------------
(* Properties *)

Event == [id : 1..MaxEvents, from : Instance, room : AnyRoom \union {Everyone},
          except : Socket \union {NoSocket}, chat : BOOLEAN]

RoomsTypeOK ==
  /\ open \in [Socket -> {"new", "open", "closed"}]
  /\ valid \in SUBSET Socket
  /\ rooms \in [Socket -> SUBSET AnyRoom]
  /\ channel \in [Instance \X Instance -> Seq(Event)]
  /\ heard \in [Socket -> Seq(1..MaxEvents)]
  /\ events \in Seq(Event)
  /\ owed \in SUBSET ((1..MaxEvents) \X Socket)
  /\ missed \in SUBSET ((1..MaxEvents) \X Instance)

\* Joining, leaving, local emits and late deliveries together never give a socket an
\* event twice, nor two events of one instance in another order than it emitted them.
HeardOnceInOrder ==
  \A s \in Socket : \A m, n \in DOMAIN heard[s] :
    (m < n /\ events[heard[s][m]].from = events[heard[s][n]].from)
      => heard[s][m] < heard[s][n]

\* A socket that was in the room when an event was emitted, on whatever instance,
\* and has stayed, has heard it, or the event is on its way to the socket's instance,
\* or Redis lost it on that way.
MissedOnlyIfLost ==
  \A o \in owed :
    LET home == HomeOf[o[2]]  e == events[o[1]] IN
    \/ Contains(heard[o[2]], e.id)
    \/ Contains(channel[<<e.from, home>>], e)
    \/ <<e.id, home>> \in missed

=============================================================================
