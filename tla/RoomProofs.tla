------------------------------ MODULE RoomProofs ------------------------------
(***************************************************************************)
(* Proofs about Rooms, for any instances, sockets and rooms, any number of *)
(* events, and any number of publications that Redis loses.                *)
(*                                                                         *)
(* Neither property is inductive.  The order in which a socket hears is    *)
(* kept by the order in the channels, and by every channel being ahead of  *)
(* what its instance has heard; what a socket is owed reaches it because   *)
(* it is still in the audience when the event arrives.                     *)
(***************************************************************************)
EXTENDS Rooms, TLAPS

\* An event's id is its place among the events.
EventsNumbered ==
  /\ events \in Seq(Event)
  /\ \A k \in 1..Len(events) : events[k].id = k

\* A channel holds events of its publisher, for another instance, in order.
ChannelsOrdered ==
  \A p \in Instance \X Instance :
    /\ \A n \in 1..Len(channel[p]) :
         LET e == channel[p][n] IN
         /\ e.id \in 1..Len(events) /\ events[e.id] = e
         /\ e.from = p[1] /\ p[1] # p[2]
    /\ \A m, n \in 1..Len(channel[p]) : m < n => channel[p][m].id < channel[p][n].id

\* A socket has heard nothing that its instance is still to receive, nor anything
\* the same publisher emitted later.
ChannelsAhead ==
  \A s \in Socket : \A n \in 1..Len(heard[s]) :
    /\ heard[s][n] \in 1..Len(events)
    /\ LET p == <<events[heard[s][n]].from, HomeOf[s]>> IN
       \A k \in 1..Len(channel[p]) : heard[s][n] < channel[p][k].id

\* A socket is owed only what it could still hear.
OwedCanHear ==
  \A o \in owed : o[1] \in 1..Len(events) /\ o[2] \in Audience(events[o[1]])

RoomsInv ==
  /\ RoomsTypeOK
  /\ EventsNumbered
  /\ ChannelsOrdered
  /\ ChannelsAhead
  /\ HeardOnceInOrder
  /\ OwedCanHear
  /\ MissedOnlyIfLost

-----------------------------------------------------------------------------
(* Sequences *)

LEMMA Appended ==
  ASSUME NEW S, NEW q \in Seq(S), NEW e \in S
  PROVE  /\ Append(q, e) \in Seq(S) /\ Len(Append(q, e)) = Len(q) + 1 /\ Len(q) \in Nat
         /\ \A k \in 1..Len(q) : Append(q, e)[k] = q[k]
         /\ Append(q, e)[Len(q) + 1] = e
OBVIOUS

LEMMA Shortened ==
  ASSUME NEW S, NEW q \in Seq(S), q # <<>>
  PROVE  /\ Tail(q) \in Seq(S) /\ Len(Tail(q)) = Len(q) - 1
         /\ Len(q) \in Nat \ {0} /\ Head(q) = q[1] /\ Head(q) \in S
         /\ \A k \in 1..Len(q) - 1 : Tail(q)[k] = q[k + 1]
OBVIOUS

-----------------------------------------------------------------------------
(* What hearing, relaying and taking from a channel do *)

\* What a socket has heard after an event reached its instance: what it had, and the
\* event last if it was for it.
LEMMA HeardCases ==
  ASSUME RoomsTypeOK, NEW i \in Instance, NEW e \in Event, heard' = HeardAt(i, e)
  PROVE  /\ heard' \in [Socket -> Seq(1..MaxEvents)]
         /\ \A s \in Socket : \A n \in 1..Len(heard'[s]) :
              \/ n \in 1..Len(heard[s]) /\ heard'[s][n] = heard[s][n]
              \/ /\ n = Len(heard[s]) + 1 /\ heard'[s][n] = e.id
                 /\ HomeOf[s] = i /\ s \in Audience(e)
         /\ \A s \in Socket : \A n \in 1..Len(heard[s]) :
              n \in 1..Len(heard'[s]) /\ heard'[s][n] = heard[s][n]
         /\ \A s \in Audience(e) :
              HomeOf[s] = i => \E n \in 1..Len(heard'[s]) : heard'[s][n] = e.id
<1>1. e.id \in 1..MaxEvents /\ heard \in [Socket -> Seq(1..MaxEvents)]
  BY DEF Event, RoomsTypeOK
<1> DEFINE for(s) == HomeOf[s] = i /\ s \in Audience(e)
<1>2. \A s \in Socket : heard'[s] = IF for(s) THEN Append(heard[s], e.id) ELSE heard[s]
  BY DEF HeardAt, Taken
<1>3. Audience(e) \subseteq Socket
  BY DEF Audience
<1>4. ASSUME NEW s \in Socket
      PROVE  /\ heard'[s] \in Seq(1..MaxEvents)
             /\ \A n \in 1..Len(heard'[s]) :
                  \/ n \in 1..Len(heard[s]) /\ heard'[s][n] = heard[s][n]
                  \/ n = Len(heard[s]) + 1 /\ heard'[s][n] = e.id /\ for(s)
             /\ \A n \in 1..Len(heard[s]) :
                  n \in 1..Len(heard'[s]) /\ heard'[s][n] = heard[s][n]
             /\ for(s) => \E n \in 1..Len(heard'[s]) : heard'[s][n] = e.id
  <2>1. heard[s] \in Seq(1..MaxEvents) /\ Len(heard[s]) \in Nat
    BY <1>1
  <2>2. CASE for(s)
    <3>1. heard'[s] = Append(heard[s], e.id)
      BY <1>2, <2>2
    <3>2. /\ heard'[s] \in Seq(1..MaxEvents) /\ Len(heard'[s]) = Len(heard[s]) + 1
          /\ \A n \in 1..Len(heard[s]) : heard'[s][n] = heard[s][n]
          /\ heard'[s][Len(heard[s]) + 1] = e.id
      BY <1>1, <2>1, <3>1, Appended
    <3> HIDE DEF for
    <3> QED BY <2>1, <2>2, <3>2
  <2>3. CASE ~for(s)
    BY <1>2, <2>1, <2>3
  <2> QED BY <2>2, <2>3
<1>5. heard' = [s \in Socket |-> heard'[s]]
  BY DEF HeardAt
<1> QED BY <1>3, <1>4, <1>5

\* What a channel holds after an event was emitted.
LEMMA RelayedCases ==
  ASSUME RoomsTypeOK, NEW e \in Event, NEW i, e.from = i, channel' = Relayed(e)
  PROVE  /\ channel' \in [Instance \X Instance -> Seq(Event)]
         /\ \A p \in Instance \X Instance : \A k \in 1..Len(channel'[p]) :
              \/ k \in 1..Len(channel[p]) /\ channel'[p][k] = channel[p][k]
              \/ /\ k = Len(channel[p]) + 1 /\ channel'[p][k] = e
                 /\ p[1] = i /\ p[2] # i
         /\ \A p \in Instance \X Instance : \A k \in 1..Len(channel[p]) :
              k \in 1..Len(channel'[p]) /\ channel'[p][k] = channel[p][k]
         /\ \A p \in Instance \X Instance :
              p[1] = i /\ p[2] # i =>
                \E k \in 1..Len(channel'[p]) : channel'[p][k] = e
<1>1. channel \in [Instance \X Instance -> Seq(Event)]
  BY DEF RoomsTypeOK
<1> DEFINE for(p) == p[1] = i /\ p[2] # i
<1>2. \A p \in Instance \X Instance :
        channel'[p] = IF for(p) THEN Append(channel[p], e) ELSE channel[p]
  BY DEF Relayed
<1>3. ASSUME NEW p \in Instance \X Instance
      PROVE  /\ channel'[p] \in Seq(Event)
             /\ \A k \in 1..Len(channel'[p]) :
                  \/ k \in 1..Len(channel[p]) /\ channel'[p][k] = channel[p][k]
                  \/ k = Len(channel[p]) + 1 /\ channel'[p][k] = e /\ for(p)
             /\ \A k \in 1..Len(channel[p]) :
                  k \in 1..Len(channel'[p]) /\ channel'[p][k] = channel[p][k]
             /\ for(p) => \E k \in 1..Len(channel'[p]) : channel'[p][k] = e
  <2>1. channel[p] \in Seq(Event) /\ Len(channel[p]) \in Nat
    BY <1>1
  <2>2. CASE for(p)
    <3>1. channel'[p] = Append(channel[p], e)
      BY <1>2, <2>2
    <3>2. /\ channel'[p] \in Seq(Event) /\ Len(channel'[p]) = Len(channel[p]) + 1
          /\ \A k \in 1..Len(channel[p]) : channel'[p][k] = channel[p][k]
          /\ channel'[p][Len(channel[p]) + 1] = e
      BY <2>1, <3>1, Appended
    <3> HIDE DEF for
    <3> QED BY <2>1, <2>2, <3>2
  <2>3. CASE ~for(p)
    BY <1>2, <2>1, <2>3
  <2> QED BY <2>2, <2>3
<1>4. channel' = [p \in Instance \X Instance |-> channel'[p]]
  BY DEF Relayed
<1> QED BY <1>3, <1>4

\* What the channels hold after the first event of one is taken from it.
LEMMA TakenCases ==
  ASSUME RoomsTypeOK, NEW p \in Instance \X Instance, channel[p] # <<>>,
         channel' = [channel EXCEPT ![p] = Tail(@)]
  PROVE  /\ channel' \in [Instance \X Instance -> Seq(Event)]
         /\ Head(channel[p]) = channel[p][1] /\ 1 \in 1..Len(channel[p])
         /\ channel[p][1] \in Event
         /\ \A k \in 1..Len(channel'[p]) :
              k + 1 \in 1..Len(channel[p]) /\ channel'[p][k] = channel[p][k + 1]
         /\ \A q \in Instance \X Instance : q # p => channel'[q] = channel[q]
         /\ \A k \in 1..Len(channel[p]) :
              k # 1 => k - 1 \in 1..Len(channel'[p]) /\ channel'[p][k - 1] = channel[p][k]
<1>1. channel \in [Instance \X Instance -> Seq(Event)]
  BY DEF RoomsTypeOK
<1>2. channel[p] \in Seq(Event) /\ channel'[p] = Tail(channel[p])
  BY <1>1
<1>3. /\ channel'[p] \in Seq(Event) /\ Len(channel'[p]) = Len(channel[p]) - 1
      /\ Len(channel[p]) \in Nat \ {0} /\ Head(channel[p]) = channel[p][1]
      /\ Head(channel[p]) \in Event
      /\ \A k \in 1..Len(channel[p]) - 1 : channel'[p][k] = channel[p][k + 1]
  <2>1. /\ Tail(channel[p]) \in Seq(Event) /\ Len(Tail(channel[p])) = Len(channel[p]) - 1
        /\ Len(channel[p]) \in Nat \ {0} /\ Head(channel[p]) = channel[p][1]
        /\ Head(channel[p]) \in Event
        /\ \A k \in 1..Len(channel[p]) - 1 : Tail(channel[p])[k] = channel[p][k + 1]
    BY <1>2, Shortened
  <2> QED BY <1>2, <2>1
<1>4. channel' \in [Instance \X Instance -> Seq(Event)]
  BY <1>1, <1>3
<1>5. \A k \in 1..Len(channel[p]) :
        k # 1 => k - 1 \in 1..Len(channel[p]) - 1 /\ (k - 1) + 1 = k
  BY <1>3
<1> QED BY <1>1, <1>3, <1>4, <1>5


-----------------------------------------------------------------------------
(* Emitting *)

\* The order in the channels, event by event and pair by pair.
LEMMA OrderedChannels ==
  ASSUME \A p \in Instance \X Instance : \A n \in 1..Len(channel'[p]) :
           /\ channel'[p][n].id \in 1..Len(events')
           /\ events'[channel'[p][n].id] = channel'[p][n]
           /\ channel'[p][n].from = p[1] /\ p[1] # p[2],
         \A p \in Instance \X Instance : \A m, n \in 1..Len(channel'[p]) :
           m < n => channel'[p][m].id < channel'[p][n].id
  PROVE  ChannelsOrdered'
BY DEF ChannelsOrdered

LEMMA EmitTypes ==
  ASSUME RoomsInv, NEW i \in Instance, NEW chat \in BOOLEAN,
         NEW room \in AnyRoom \union {Everyone}, NEW except \in Socket \union {NoSocket},
         Emit(i, chat, room, except)
  PROVE  \E e \in Event :
           /\ e.id = Len(events) + 1 /\ e.from = i
           /\ events' = Append(events, e) /\ heard' = HeardAt(i, e) /\ channel' = Relayed(e)
           /\ owed' = owed \union ({e.id} \X Audience(e))
           /\ UNCHANGED <<open, valid, rooms, missed>>
<1> DEFINE e == [id |-> Len(events) + 1, from |-> i, room |-> room,
                 except |-> except, chat |-> chat]
<1>1. Len(events) \in Nat /\ Len(events) < MaxEvents
  BY DEF Emit, RoomsInv, EventsNumbered
<1>2. e \in Event /\ e.id = Len(events) + 1 /\ e.from = i
  BY <1>1, RoomsAssumption DEF Event
<1>3. /\ events' = Append(events, e) /\ heard' = HeardAt(i, e) /\ channel' = Relayed(e)
      /\ owed' = owed \union ({e.id} \X Audience(e))
      /\ UNCHANGED <<open, valid, rooms, missed>>
  BY DEF Emit
<1> HIDE DEF e
<1> QED BY <1>2, <1>3

LEMMA EmitKeeps ==
  ASSUME RoomsInv, NEW i \in Instance, NEW chat \in BOOLEAN,
         NEW room \in AnyRoom \union {Everyone}, NEW except \in Socket \union {NoSocket},
         Emit(i, chat, room, except)
  PROVE  RoomsInv'
<1>1. PICK e \in Event :
        /\ e.id = Len(events) + 1 /\ e.from = i
        /\ events' = Append(events, e) /\ heard' = HeardAt(i, e) /\ channel' = Relayed(e)
        /\ owed' = owed \union ({e.id} \X Audience(e))
        /\ UNCHANGED <<open, valid, rooms, missed>>
  BY EmitTypes
<1>2. /\ events \in Seq(Event) /\ Len(events) \in Nat
      /\ \A k \in 1..Len(events) : events[k].id = k
  BY DEF RoomsInv, EventsNumbered
<1>3. /\ events' \in Seq(Event) /\ Len(events') = Len(events) + 1
      /\ \A k \in 1..Len(events) : events'[k] = events[k]
      /\ events'[Len(events) + 1] = e
  BY <1>1, <1>2, Appended
<1>4. /\ heard' \in [Socket -> Seq(1..MaxEvents)]
      /\ \A s \in Socket : \A n \in 1..Len(heard'[s]) :
           \/ n \in 1..Len(heard[s]) /\ heard'[s][n] = heard[s][n]
           \/ n = Len(heard[s]) + 1 /\ heard'[s][n] = e.id /\ HomeOf[s] = i
      /\ \A s \in Socket : \A n \in 1..Len(heard[s]) :
           n \in 1..Len(heard'[s]) /\ heard'[s][n] = heard[s][n]
      /\ \A s \in Audience(e) :
           HomeOf[s] = i => \E n \in 1..Len(heard'[s]) : heard'[s][n] = e.id
  BY <1>1, HeardCases DEF RoomsInv
<1>5. /\ channel' \in [Instance \X Instance -> Seq(Event)]
      /\ \A p \in Instance \X Instance : \A k \in 1..Len(channel'[p]) :
           \/ k \in 1..Len(channel[p]) /\ channel'[p][k] = channel[p][k]
           \/ k = Len(channel[p]) + 1 /\ channel'[p][k] = e /\ p[1] = i /\ p[2] # i
      /\ \A p \in Instance \X Instance : \A k \in 1..Len(channel[p]) :
           k \in 1..Len(channel'[p]) /\ channel'[p][k] = channel[p][k]
      /\ \A p \in Instance \X Instance :
           p[1] = i /\ p[2] # i => \E k \in 1..Len(channel'[p]) : channel'[p][k] = e
  <2>1. RoomsTypeOK /\ channel' = Relayed(e) /\ e.from = i
    BY <1>1 DEF RoomsInv
  <2>2. channel' \in [Instance \X Instance -> Seq(Event)]
    BY <2>1, RelayedCases
  <2>3. \A p \in Instance \X Instance : \A k \in 1..Len(channel'[p]) :
          \/ k \in 1..Len(channel[p]) /\ channel'[p][k] = channel[p][k]
          \/ k = Len(channel[p]) + 1 /\ channel'[p][k] = e /\ p[1] = i /\ p[2] # i
    BY <2>1, RelayedCases
  <2>4. \A p \in Instance \X Instance : \A k \in 1..Len(channel[p]) :
           k \in 1..Len(channel'[p]) /\ channel'[p][k] = channel[p][k]
    BY <2>1, RelayedCases
  <2>5. \A p \in Instance \X Instance :
           p[1] = i /\ p[2] # i => \E k \in 1..Len(channel'[p]) : channel'[p][k] = e
    BY <2>1, RelayedCases
  <2> QED BY <2>2, <2>3, <2>4, <2>5
<1>6. Audience(e) \subseteq Socket
  BY DEF Audience
<1>7. RoomsTypeOK'
  <2>1. e.id \in 1..MaxEvents
    BY DEF Event
  <2>2. owed' \in SUBSET ((1..MaxEvents) \X Socket)
    BY <1>1, <1>6, <2>1 DEF RoomsInv, RoomsTypeOK
  <2>3. /\ (open \in [Socket -> {"new", "open", "closed"}])'
        /\ (valid \in SUBSET Socket)' /\ (rooms \in [Socket -> SUBSET AnyRoom])'
        /\ (missed \in SUBSET ((1..MaxEvents) \X Instance))'
    BY <1>1 DEF RoomsInv, RoomsTypeOK
  <2> QED BY <1>3, <1>4, <1>5, <2>2, <2>3 DEF RoomsTypeOK
<1>8. EventsNumbered'
  <2>1. ASSUME NEW k \in 1..Len(events') PROVE events'[k].id = k
    <3>1. k \in 1..Len(events) \/ k = Len(events) + 1
      BY <1>2, <1>3
    <3> QED BY <1>1, <1>2, <1>3, <3>1
  <2> QED BY <1>3, <2>1 DEF EventsNumbered
<1>9. \A p \in Instance \X Instance : \A n \in 1..Len(channel[p]) :
        /\ channel[p][n].id \in 1..Len(events) /\ events[channel[p][n].id] = channel[p][n]
        /\ channel[p][n].from = p[1] /\ p[1] # p[2]
  BY DEF RoomsInv, ChannelsOrdered
<1>10. ChannelsOrdered'
  <2>1. ASSUME NEW p \in Instance \X Instance, NEW n \in 1..Len(channel'[p])
        PROVE  /\ channel'[p][n].id \in 1..Len(events')
               /\ events'[channel'[p][n].id] = channel'[p][n]
               /\ channel'[p][n].from = p[1] /\ p[1] # p[2]
    <3>1. CASE n \in 1..Len(channel[p]) /\ channel'[p][n] = channel[p][n]
      <4>1. /\ channel[p][n].id \in 1..Len(events)
            /\ events[channel[p][n].id] = channel[p][n]
            /\ channel[p][n].from = p[1] /\ p[1] # p[2]
        BY <1>9, <3>1
      <4> QED BY <1>2, <1>3, <3>1, <4>1
    <3>2. CASE channel'[p][n] = e /\ p[1] = i /\ p[2] # i
      BY <1>1, <1>2, <1>3, <3>2
    <3> QED BY <1>5, <3>1, <3>2
  <2>2. ASSUME NEW p \in Instance \X Instance, NEW m \in 1..Len(channel'[p]),
               NEW n \in 1..Len(channel'[p]), m < n
        PROVE  channel'[p][m].id < channel'[p][n].id
    <3>1. CASE n \in 1..Len(channel[p]) /\ channel'[p][n] = channel[p][n]
      <4>1. m \in 1..Len(channel[p]) /\ channel'[p][m] = channel[p][m]
        <5>1. m \in 1..Len(channel[p])
          BY <2>2, <3>1
        <5> QED BY <1>5, <2>2, <5>1
      <4>2. channel[p][m].id < channel[p][n].id
        BY <2>2, <3>1, <4>1 DEF RoomsInv, ChannelsOrdered
      <4> QED BY <3>1, <4>1, <4>2
    <3>2. CASE n = Len(channel[p]) + 1 /\ channel'[p][n] = e
      <4>1. m \in 1..Len(channel[p])
        BY <1>5, <2>2, <3>2
      <4>2. /\ channel'[p][m] = channel[p][m]
            /\ channel[p][m].id \in 1..Len(events)
        BY <1>5, <1>9, <2>2, <4>1
      <4>3. channel'[p][n].id = Len(events) + 1
        BY <1>1, <1>2, <3>2
      <4> QED BY <1>2, <4>2, <4>3
    <3> QED BY <1>5, <3>1, <3>2
  <2> QED BY <2>1, <2>2, OrderedChannels
<1>11. \A s \in Socket : \A n \in 1..Len(heard[s]) : heard[s][n] \in 1..Len(events)
  BY DEF RoomsInv, ChannelsAhead
<1>12. ChannelsAhead'
  <2>1. ASSUME NEW s \in Socket, NEW n \in 1..Len(heard'[s])
        PROVE  heard'[s][n] \in 1..Len(events')
    <3>1. CASE heard'[s][n] = e.id
      BY <1>1, <1>2, <1>3, <3>1
    <3>2. CASE n \in 1..Len(heard[s]) /\ heard'[s][n] = heard[s][n]
      <4>1. heard[s][n] \in 1..Len(events)
        BY <1>11, <2>1, <3>2
      <4> QED BY <1>2, <1>3, <3>2, <4>1
    <3> QED BY <1>4, <2>1, <3>1, <3>2
  <2>2. ASSUME NEW s \in Socket, NEW n \in 1..Len(heard'[s]),
               NEW p \in Instance \X Instance, p = <<events'[heard'[s][n]].from, HomeOf[s]>>,
               NEW k \in 1..Len(channel'[p])
        PROVE  heard'[s][n] < channel'[p][k].id
    <3>1. CASE heard'[s][n] = e.id /\ HomeOf[s] = i
      <4>1. p[1] = i /\ p[2] = i
        BY <1>1, <1>3, <2>2, <3>1
      <4> QED BY <1>5, <1>9, <4>1
    <3>2. CASE n \in 1..Len(heard[s]) /\ heard'[s][n] = heard[s][n]
      <4>1. heard[s][n] \in 1..Len(events) /\ p = <<events[heard[s][n]].from, HomeOf[s]>>
        BY <1>3, <1>11, <2>2, <3>2
      <4>2. CASE k \in 1..Len(channel[p]) /\ channel'[p][k] = channel[p][k]
        BY <3>2, <4>1, <4>2 DEF RoomsInv, ChannelsAhead
      <4>3. CASE channel'[p][k] = e
        BY <1>1, <1>2, <3>2, <4>1, <4>3
      <4> QED BY <1>5, <4>2, <4>3
    <3> QED BY <1>4, <3>1, <3>2
  <2>3. ASSUME NEW s \in Socket, NEW n \in 1..Len(heard'[s])
        PROVE  <<events'[heard'[s][n]].from, HomeOf[s]>> \in Instance \X Instance
    <3>1. events'[heard'[s][n]] \in Event
      BY <1>3, <2>1
    <3> QED BY <3>1, RoomsAssumption DEF Event
  <2> QED BY <2>1, <2>2, <2>3 DEF ChannelsAhead
<1>13. HeardOnceInOrder'
  <2>1. ASSUME NEW s \in Socket, NEW m \in 1..Len(heard'[s]), NEW n \in 1..Len(heard'[s]),
               m < n, events'[heard'[s][m]].from = events'[heard'[s][n]].from
        PROVE  heard'[s][m] < heard'[s][n]
    <3>1. heard[s] \in Seq(1..MaxEvents) /\ Len(heard[s]) \in Nat
      BY DEF RoomsInv, RoomsTypeOK
    <3>2. CASE n \in 1..Len(heard[s]) /\ heard'[s][n] = heard[s][n]
      <4>1. m \in 1..Len(heard[s]) /\ heard'[s][m] = heard[s][m]
        BY <1>4, <2>1, <3>1, <3>2
      <4>2. events[heard[s][m]].from = events[heard[s][n]].from
        BY <1>3, <1>11, <2>1, <3>2, <4>1
      <4>3. DOMAIN heard[s] = 1..Len(heard[s])
        BY <3>1
      <4> QED BY <2>1, <3>2, <4>1, <4>2, <4>3 DEF RoomsInv, HeardOnceInOrder
    <3>3. CASE n = Len(heard[s]) + 1 /\ heard'[s][n] = e.id
      <4>1. m \in 1..Len(heard[s]) /\ heard'[s][m] = heard[s][m]
        BY <1>4, <2>1, <3>1, <3>3
      <4> QED BY <1>1, <1>2, <1>11, <3>3, <4>1
    <3> QED BY <1>4, <3>2, <3>3
  <2>2. \A s \in Socket : DOMAIN heard'[s] = 1..Len(heard'[s])
    BY <1>4
  <2> QED BY <2>1, <2>2 DEF HeardOnceInOrder
<1>14. \A x : Audience(x)' = Audience(x)
  BY <1>1 DEF Audience
<1>15. ASSUME NEW o \in owed'
       PROVE  \/ o \in owed /\ o[1] \in 1..Len(events) /\ events'[o[1]] = events[o[1]]
              \/ o[1] = Len(events) + 1 /\ events'[o[1]] = e /\ o[2] \in Audience(e)
  BY <1>1, <1>3 DEF RoomsInv, OwedCanHear
<1>16. OwedCanHear'
  <2>1. ASSUME NEW o \in owed'
        PROVE  o[1] \in 1..Len(events') /\ o[2] \in Audience(events'[o[1]])
    BY <1>2, <1>3, <1>15, <2>1 DEF RoomsInv, OwedCanHear
  <2>2. \A o \in owed' : Audience(events'[o[1]]) = Audience(events[o[1]])'
    BY <1>1 DEF Audience
  <2> QED BY <2>1, <2>2 DEF OwedCanHear
<1>17. MissedOnlyIfLost'
  <2>1. ASSUME NEW o \in owed'
        PROVE  LET home == HomeOf[o[2]]  x == events'[o[1]] IN
               \/ \E n \in 1..Len(heard'[o[2]]) : heard'[o[2]][n] = x.id
               \/ \E n \in 1..Len(channel'[<<x.from, home>>]) : channel'[<<x.from, home>>][n] = x
               \/ <<x.id, home>> \in missed'
    <3>1. CASE o \in owed /\ o[1] \in 1..Len(events) /\ events'[o[1]] = events[o[1]]
      <4>1. PICK x \in Event, home \in Instance, s \in Socket :
              /\ x = events[o[1]] /\ s = o[2] /\ home = HomeOf[s]
              /\ <<x.from, home>> \in Instance \X Instance
        <5>1. events[o[1]] \in Event
          BY <1>2, <3>1
        <5>3. \A x \in Event : x.from \in Instance
          BY DEF Event
        <5>2. o[2] \in Socket /\ HomeOf[o[2]] \in Instance
          BY <3>1, RoomsAssumption DEF RoomsInv, RoomsTypeOK
        <5> QED BY <5>1, <5>2, <5>3
      <4>2. \/ \E n \in 1..Len(heard[s]) : heard[s][n] = x.id
            \/ \E n \in 1..Len(channel[<<x.from, home>>]) : channel[<<x.from, home>>][n] = x
            \/ <<x.id, home>> \in missed
        BY <3>1, <4>1 DEF RoomsInv, MissedOnlyIfLost, Contains
      <4>3. \/ \E n \in 1..Len(heard'[s]) : heard'[s][n] = x.id
            \/ \E n \in 1..Len(channel'[<<x.from, home>>]) : channel'[<<x.from, home>>][n] = x
            \/ <<x.id, home>> \in missed'
        <5> DEFINE p == <<x.from, home>>
        <5>1. p \in Instance \X Instance
          BY <4>1
        <5>2. CASE \E n \in 1..Len(heard[s]) : heard[s][n] = x.id
          BY <1>4, <5>2
        <5>3. CASE \E n \in 1..Len(channel[p]) : channel[p][n] = x
          <6> HIDE DEF p
          <6>1. \E n \in 1..Len(channel'[p]) : channel'[p][n] = x
            BY <1>5, <5>1, <5>3
          <6> QED BY <6>1 DEF p
        <5> QED BY <1>1, <4>2, <5>2, <5>3
      <4> QED BY <3>1, <4>1, <4>3
    <3>2. CASE o[1] = Len(events) + 1 /\ events'[o[1]] = e /\ o[2] \in Audience(e)
      <4>1. HomeOf[o[2]] \in Instance /\ e.from = i
        BY <1>1, <1>6, <3>2, RoomsAssumption
      <4>2. CASE HomeOf[o[2]] = i
        BY <1>4, <3>2, <4>2
      <4>3. CASE HomeOf[o[2]] # i
        <5> DEFINE p == <<i, HomeOf[o[2]]>>
        <5>1. p \in Instance \X Instance /\ p[1] = i /\ p[2] # i
          BY <4>1, <4>3
        <5> QED BY <1>5, <3>2, <4>1, <5>1
      <4> QED BY <4>2, <4>3
    <3> QED BY <1>15, <3>1, <3>2
  <2> QED BY <2>1 DEF MissedOnlyIfLost, Contains
<1> QED BY <1>7, <1>8, <1>10, <1>12, <1>13, <1>16, <1>17 DEF RoomsInv


-----------------------------------------------------------------------------
(* Taking from a channel *)

\* What the channels hold stays in order, and ahead of what was heard.
LEMMA TakingKeeps ==
  ASSUME RoomsInv, NEW p \in Instance \X Instance, channel[p] # <<>>,
         channel' = [channel EXCEPT ![p] = Tail(@)], UNCHANGED events
  PROVE  /\ ChannelsOrdered'
         /\ channel' \in [Instance \X Instance -> Seq(Event)]
         /\ \A k \in 1..Len(channel'[p]) : channel[p][1].id < channel'[p][k].id
         /\ \A q \in Instance \X Instance : \A v : \A k \in 1..Len(channel'[q]) :
              (\A j \in 1..Len(channel[q]) : v < channel[q][j].id) => v < channel'[q][k].id
<1>1. RoomsTypeOK
  BY DEF RoomsInv
<1>2. /\ channel' \in [Instance \X Instance -> Seq(Event)]
      /\ 1 \in 1..Len(channel[p])
      /\ \A k \in 1..Len(channel'[p]) :
           k + 1 \in 1..Len(channel[p]) /\ channel'[p][k] = channel[p][k + 1]
      /\ \A q \in Instance \X Instance : q # p => channel'[q] = channel[q]
  BY <1>1, TakenCases
<1>3. \A q \in Instance \X Instance :
        /\ \A n \in 1..Len(channel[q]) :
             /\ channel[q][n].id \in 1..Len(events) /\ events[channel[q][n].id] = channel[q][n]
             /\ channel[q][n].from = q[1] /\ q[1] # q[2]
        /\ \A m, n \in 1..Len(channel[q]) : m < n => channel[q][m].id < channel[q][n].id
  BY DEF RoomsInv, ChannelsOrdered
<1>4. ASSUME NEW q \in Instance \X Instance
      PROVE  /\ \A n \in 1..Len(channel'[q]) :
                  /\ channel'[q][n].id \in 1..Len(events)
                  /\ events[channel'[q][n].id] = channel'[q][n]
                  /\ channel'[q][n].from = q[1] /\ q[1] # q[2]
             /\ \A m, n \in 1..Len(channel'[q]) : m < n => channel'[q][m].id < channel'[q][n].id
  <2>1. CASE q = p
    <3>1. ASSUME NEW n \in 1..Len(channel'[p])
          PROVE  /\ channel'[p][n].id \in 1..Len(events)
                 /\ events[channel'[p][n].id] = channel'[p][n]
                 /\ channel'[p][n].from = p[1] /\ p[1] # p[2]
      BY <1>2, <1>3
    <3>2. ASSUME NEW m \in 1..Len(channel'[p]), NEW n \in 1..Len(channel'[p]), m < n
          PROVE  channel'[p][m].id < channel'[p][n].id
      <4>1. m + 1 \in 1..Len(channel[p]) /\ n + 1 \in 1..Len(channel[p]) /\ m + 1 < n + 1
        BY <1>2, <3>2
      <4>2. channel[p][m + 1].id < channel[p][n + 1].id
        BY <1>3, <4>1
      <4> QED BY <1>2, <4>2
    <3> QED BY <2>1, <3>1, <3>2
  <2>2. CASE q # p
    BY <1>2, <1>3, <2>2
  <2> QED BY <2>1, <2>2
<1>5. ChannelsOrdered'
  <2>1. ASSUME NEW q \in Instance \X Instance, NEW n \in 1..Len(channel'[q])
        PROVE  /\ channel'[q][n].id \in 1..Len(events')
               /\ events'[channel'[q][n].id] = channel'[q][n]
               /\ channel'[q][n].from = q[1] /\ q[1] # q[2]
    BY <1>4, <2>1
  <2>2. ASSUME NEW q \in Instance \X Instance,
               NEW m \in 1..Len(channel'[q]), NEW n \in 1..Len(channel'[q]), m < n
        PROVE  channel'[q][m].id < channel'[q][n].id
    BY <1>4, <2>2
  <2> QED BY <2>1, <2>2, OrderedChannels
<1>6. ASSUME NEW k \in 1..Len(channel'[p]) PROVE channel[p][1].id < channel'[p][k].id
  BY <1>2, <1>3, <1>6
<1>7. ASSUME NEW q \in Instance \X Instance, NEW v, NEW k \in 1..Len(channel'[q]),
             \A j \in 1..Len(channel[q]) : v < channel[q][j].id
      PROVE  v < channel'[q][k].id
  <2>1. CASE q = p
    BY <1>2, <1>7, <2>1
  <2>2. CASE q # p
    BY <1>2, <1>7, <2>2
  <2> QED BY <2>1, <2>2
<1> QED BY <1>2, <1>5, <1>6, <1>7

\* What an owed event is, and where it goes.
LEMMA OwedFacts ==
  ASSUME RoomsInv, NEW o \in owed
  PROVE  \E x \in Event, s \in Socket, q \in Instance \X Instance :
           /\ x = events[o[1]] /\ s = o[2] /\ q = <<x.from, HomeOf[s]>>
           /\ s \in Audience(x) /\ q[2] = HomeOf[s]
           /\ \/ \E n \in 1..Len(heard[s]) : heard[s][n] = x.id
              \/ \E k \in 1..Len(channel[q]) : channel[q][k] = x
              \/ <<x.id, q[2]>> \in missed
<1>1. events[o[1]] \in Event /\ o[2] \in Audience(events[o[1]])
  BY DEF RoomsInv, OwedCanHear, EventsNumbered
<1>2. \A x \in Event : x.from \in Instance
  BY DEF Event
<1>3. o[2] \in Socket /\ HomeOf[o[2]] \in Instance
  BY RoomsAssumption DEF RoomsInv, RoomsTypeOK
<1> DEFINE x == events[o[1]]
           s == o[2]
           q == <<x.from, HomeOf[s]>>
<1>4. \/ \E n \in 1..Len(heard[s]) : heard[s][n] = x.id
      \/ \E k \in 1..Len(channel[q]) : channel[q][k] = x
      \/ <<x.id, HomeOf[s]>> \in missed
  BY DEF RoomsInv, MissedOnlyIfLost, Contains
<1>5. q \in Instance \X Instance /\ q[2] = HomeOf[s]
  BY <1>1, <1>2, <1>3
<1> QED BY <1>1, <1>3, <1>4, <1>5

LEMMA ReceiveKeeps ==
  ASSUME RoomsInv, NEW p \in Instance \X Instance, Receive(p)
  PROVE  RoomsInv'
<1>1. /\ channel[p] # <<>> /\ channel' = [channel EXCEPT ![p] = Tail(@)]
      /\ heard' = HeardAt(p[2], Head(channel[p]))
      /\ UNCHANGED <<open, valid, rooms, events, owed, missed>>
  BY DEF Receive
<1>2. RoomsTypeOK
  BY DEF RoomsInv
<1>3. /\ Head(channel[p]) = channel[p][1] /\ 1 \in 1..Len(channel[p]) /\ channel[p][1] \in Event
      /\ \A q \in Instance \X Instance : q # p => channel'[q] = channel[q]
      /\ \A k \in 1..Len(channel[p]) :
           k # 1 => k - 1 \in 1..Len(channel'[p]) /\ channel'[p][k - 1] = channel[p][k]
  BY <1>1, <1>2, TakenCases
<1>4. /\ ChannelsOrdered'
      /\ channel' \in [Instance \X Instance -> Seq(Event)]
      /\ \A k \in 1..Len(channel'[p]) : channel[p][1].id < channel'[p][k].id
      /\ \A q \in Instance \X Instance : \A v : \A k \in 1..Len(channel'[q]) :
           (\A j \in 1..Len(channel[q]) : v < channel[q][j].id) => v < channel'[q][k].id
  BY <1>1, TakingKeeps
<1>5. PICK e \in Event, i \in Instance :
        /\ e = channel[p][1] /\ i = p[2] /\ heard' = HeardAt(i, e)
        /\ e.id \in 1..Len(events) /\ events[e.id] = e /\ e.from = p[1] /\ p = <<e.from, i>>
        /\ \A k \in 1..Len(channel'[p]) : e.id < channel'[p][k].id
  <2>1. /\ channel[p][1].id \in 1..Len(events) /\ events[channel[p][1].id] = channel[p][1]
        /\ channel[p][1].from = p[1]
    BY <1>3 DEF RoomsInv, ChannelsOrdered
  <2>2. p[2] \in Instance /\ p = <<p[1], p[2]>>
    OBVIOUS
  <2> QED BY <1>1, <1>3, <1>4, <2>1, <2>2
<1>6. /\ heard' \in [Socket -> Seq(1..MaxEvents)]
      /\ \A s \in Socket : \A n \in 1..Len(heard'[s]) :
           \/ n \in 1..Len(heard[s]) /\ heard'[s][n] = heard[s][n]
           \/ n = Len(heard[s]) + 1 /\ heard'[s][n] = e.id /\ HomeOf[s] = i
      /\ \A s \in Socket : \A n \in 1..Len(heard[s]) :
           n \in 1..Len(heard'[s]) /\ heard'[s][n] = heard[s][n]
      /\ \A s \in Audience(e) :
           HomeOf[s] = i => \E n \in 1..Len(heard'[s]) : heard'[s][n] = e.id
  <2>1. heard' = HeardAt(i, e)
    BY <1>5
  <2> QED BY <1>2, <2>1, HeardCases
<1>7. \A s \in Socket : \A n \in 1..Len(heard[s]) :
        /\ heard[s][n] \in 1..Len(events)
        /\ \A q : q = <<events[heard[s][n]].from, HomeOf[s]>> =>
             \A k \in 1..Len(channel[q]) : heard[s][n] < channel[q][k].id
  BY DEF RoomsInv, ChannelsAhead
<1>8. RoomsTypeOK'
  BY <1>1, <1>2, <1>4, <1>6 DEF RoomsTypeOK
<1>9. EventsNumbered'
  BY <1>1 DEF RoomsInv, EventsNumbered
<1>10. ChannelsAhead'
  <2>1. ASSUME NEW s \in Socket, NEW n \in 1..Len(heard'[s])
        PROVE  heard'[s][n] \in 1..Len(events)
    BY <1>5, <1>6, <1>7
  <2>2. ASSUME NEW s \in Socket, NEW n \in 1..Len(heard'[s]),
               NEW q \in Instance \X Instance, q = <<events[heard'[s][n]].from, HomeOf[s]>>,
               NEW k \in 1..Len(channel'[q])
        PROVE  heard'[s][n] < channel'[q][k].id
    <3>1. CASE heard'[s][n] = e.id /\ HomeOf[s] = i
      BY <1>5, <2>2, <3>1
    <3>2. CASE n \in 1..Len(heard[s]) /\ heard'[s][n] = heard[s][n]
      <4>1. \A j \in 1..Len(channel[q]) : heard[s][n] < channel[q][j].id
        BY <1>7, <2>2, <3>2
      <4> QED BY <1>4, <3>2, <4>1
    <3> QED BY <1>6, <3>1, <3>2
  <2>3. ASSUME NEW s \in Socket, NEW n \in 1..Len(heard'[s])
        PROVE  <<events[heard'[s][n]].from, HomeOf[s]>> \in Instance \X Instance
    <3>1. events[heard'[s][n]] \in Event
      BY <2>1 DEF RoomsInv, EventsNumbered
    <3> QED BY <3>1, RoomsAssumption DEF Event
  <2> QED BY <1>1, <2>1, <2>2, <2>3 DEF ChannelsAhead
<1>11. HeardOnceInOrder'
  <2>1. ASSUME NEW s \in Socket, NEW m \in 1..Len(heard'[s]), NEW n \in 1..Len(heard'[s]),
               m < n, events[heard'[s][m]].from = events[heard'[s][n]].from
        PROVE  heard'[s][m] < heard'[s][n]
    <3>1. heard[s] \in Seq(1..MaxEvents) /\ Len(heard[s]) \in Nat
      BY <1>2 DEF RoomsTypeOK
    <3>2. CASE n \in 1..Len(heard[s]) /\ heard'[s][n] = heard[s][n]
      <4>1. m \in 1..Len(heard[s]) /\ heard'[s][m] = heard[s][m]
        BY <1>6, <2>1, <3>1, <3>2
      <4>2. DOMAIN heard[s] = 1..Len(heard[s])
        BY <3>1
      <4> QED BY <2>1, <3>2, <4>1, <4>2 DEF RoomsInv, HeardOnceInOrder
    <3>3. CASE n = Len(heard[s]) + 1 /\ heard'[s][n] = e.id /\ HomeOf[s] = i
      <4>1. m \in 1..Len(heard[s]) /\ heard'[s][m] = heard[s][m]
        BY <1>6, <2>1, <3>1, <3>3
      <4>2. p = <<events[heard[s][m]].from, HomeOf[s]>>
        BY <1>5, <2>1, <3>3, <4>1
      <4>3. \A k \in 1..Len(channel[p]) : heard[s][m] < channel[p][k].id
        BY <1>7, <4>1, <4>2
      <4> QED BY <1>3, <1>5, <3>3, <4>1, <4>3
    <3> QED BY <1>6, <3>2, <3>3
  <2>2. \A s \in Socket : DOMAIN heard'[s] = 1..Len(heard'[s])
    BY <1>6
  <2> QED BY <1>1, <2>1, <2>2 DEF HeardOnceInOrder
<1>12. OwedCanHear'
  BY <1>1 DEF RoomsInv, OwedCanHear, Audience
<1>13. MissedOnlyIfLost'
  <2>1. ASSUME NEW o \in owed
        PROVE  LET home == HomeOf[o[2]]  x == events[o[1]] IN
               \/ \E n \in 1..Len(heard'[o[2]]) : heard'[o[2]][n] = x.id
               \/ \E n \in 1..Len(channel'[<<x.from, home>>]) : channel'[<<x.from, home>>][n] = x
               \/ <<x.id, home>> \in missed
    <3>1. PICK x \in Event, s \in Socket, q \in Instance \X Instance :
            /\ x = events[o[1]] /\ s = o[2] /\ q = <<x.from, HomeOf[s]>>
            /\ s \in Audience(x) /\ q[2] = HomeOf[s]
            /\ \/ \E n \in 1..Len(heard[s]) : heard[s][n] = x.id
               \/ \E k \in 1..Len(channel[q]) : channel[q][k] = x
               \/ <<x.id, q[2]>> \in missed
      BY OwedFacts
    <3>2. CASE \E n \in 1..Len(heard[s]) : heard[s][n] = x.id
      BY <1>6, <3>1, <3>2
    <3>3. CASE <<x.id, q[2]>> \in missed
      BY <3>1, <3>3
    <3>4. CASE \E k \in 1..Len(channel[q]) : channel[q][k] = x
      <4>1. PICK k \in 1..Len(channel[q]) : channel[q][k] = x
        BY <3>4
      <4>2. CASE q # p
        <5>1. k \in 1..Len(channel'[q]) /\ channel'[q][k] = x
          BY <1>3, <4>1, <4>2
        <5> QED BY <3>1, <5>1
      <4>3. CASE q = p /\ k # 1
        <5>1. k - 1 \in 1..Len(channel'[q]) /\ channel'[q][k - 1] = x
          BY <1>3, <4>1, <4>3
        <5> QED BY <3>1, <5>1
      <4>4. CASE q = p /\ k = 1
        <5>1. e = x /\ HomeOf[s] = i
          BY <1>5, <3>1, <4>1, <4>4
        <5>2. \E n \in 1..Len(heard'[s]) : heard'[s][n] = x.id
          BY <1>6, <3>1, <5>1
        <5> QED BY <3>1, <5>2
      <4> QED BY <4>2, <4>3, <4>4
    <3> QED BY <3>1, <3>2, <3>3, <3>4
  <2> QED BY <1>1, <2>1 DEF MissedOnlyIfLost, Contains
<1> QED BY <1>4, <1>8, <1>9, <1>10, <1>11, <1>12, <1>13 DEF RoomsInv

LEMMA LoseKeeps ==
  ASSUME RoomsInv, NEW p \in Instance \X Instance, Lose(p)
  PROVE  RoomsInv'
<1>1. /\ channel[p] # <<>> /\ channel' = [channel EXCEPT ![p] = Tail(@)]
      /\ missed' = missed \union {<<Head(channel[p]).id, p[2]>>}
      /\ UNCHANGED <<open, valid, rooms, heard, events, owed>>
  BY DEF Lose
<1>2. RoomsTypeOK
  BY DEF RoomsInv
<1>3. /\ Head(channel[p]) = channel[p][1] /\ channel[p][1] \in Event
      /\ \A q \in Instance \X Instance : q # p => channel'[q] = channel[q]
      /\ \A k \in 1..Len(channel[p]) :
           k # 1 => k - 1 \in 1..Len(channel'[p]) /\ channel'[p][k - 1] = channel[p][k]
  BY <1>1, <1>2, TakenCases
<1>4. /\ ChannelsOrdered'
      /\ channel' \in [Instance \X Instance -> Seq(Event)]
      /\ \A q \in Instance \X Instance : \A v : \A k \in 1..Len(channel'[q]) :
           (\A j \in 1..Len(channel[q]) : v < channel[q][j].id) => v < channel'[q][k].id
  BY <1>1, TakingKeeps
<1>5. RoomsTypeOK'
  <2>1. Head(channel[p]).id \in 1..MaxEvents /\ p[2] \in Instance
    BY <1>3 DEF Event
  <2> QED BY <1>1, <1>2, <1>4, <2>1 DEF RoomsTypeOK
<1>6. EventsNumbered' /\ HeardOnceInOrder'
  BY <1>1 DEF RoomsInv, EventsNumbered, HeardOnceInOrder
<1>7. OwedCanHear'
  BY <1>1 DEF RoomsInv, OwedCanHear, Audience
<1>8. ChannelsAhead'
  <2>1. ASSUME NEW s \in Socket, NEW n \in 1..Len(heard[s])
        PROVE  heard[s][n] \in 1..Len(events)
    BY DEF RoomsInv, ChannelsAhead
  <2>2. ASSUME NEW s \in Socket, NEW n \in 1..Len(heard[s]),
               NEW q \in Instance \X Instance, q = <<events[heard[s][n]].from, HomeOf[s]>>,
               NEW k \in 1..Len(channel'[q])
        PROVE  heard[s][n] < channel'[q][k].id
    <3>1. \A j \in 1..Len(channel[q]) : heard[s][n] < channel[q][j].id
      BY <2>2 DEF RoomsInv, ChannelsAhead
    <3> QED BY <1>4, <3>1
  <2>3. ASSUME NEW s \in Socket, NEW n \in 1..Len(heard[s])
        PROVE  <<events[heard[s][n]].from, HomeOf[s]>> \in Instance \X Instance
    <3>1. events[heard[s][n]] \in Event
      BY <2>1 DEF RoomsInv, EventsNumbered
    <3> QED BY <3>1, RoomsAssumption DEF Event
  <2> QED BY <1>1, <2>1, <2>2, <2>3 DEF ChannelsAhead
<1>9. MissedOnlyIfLost'
  <2>1. ASSUME NEW o \in owed
        PROVE  LET home == HomeOf[o[2]]  x == events[o[1]] IN
               \/ \E n \in 1..Len(heard[o[2]]) : heard[o[2]][n] = x.id
               \/ \E n \in 1..Len(channel'[<<x.from, home>>]) : channel'[<<x.from, home>>][n] = x
               \/ <<x.id, home>> \in missed'
    <3>1. PICK x \in Event, s \in Socket, q \in Instance \X Instance :
            /\ x = events[o[1]] /\ s = o[2] /\ q = <<x.from, HomeOf[s]>>
            /\ s \in Audience(x) /\ q[2] = HomeOf[s]
            /\ \/ \E n \in 1..Len(heard[s]) : heard[s][n] = x.id
               \/ \E k \in 1..Len(channel[q]) : channel[q][k] = x
               \/ <<x.id, q[2]>> \in missed
      BY OwedFacts
    <3>2. CASE \E n \in 1..Len(heard[s]) : heard[s][n] = x.id
      BY <3>1, <3>2
    <3>3. CASE <<x.id, q[2]>> \in missed
      BY <1>1, <3>1, <3>3
    <3>4. CASE \E k \in 1..Len(channel[q]) : channel[q][k] = x
      <4>1. PICK k \in 1..Len(channel[q]) : channel[q][k] = x
        BY <3>4
      <4>2. CASE q # p
        <5>1. k \in 1..Len(channel'[q]) /\ channel'[q][k] = x
          BY <1>3, <4>1, <4>2
        <5> QED BY <3>1, <5>1
      <4>3. CASE q = p /\ k # 1
        <5>1. k - 1 \in 1..Len(channel'[q]) /\ channel'[q][k - 1] = x
          BY <1>3, <4>1, <4>3
        <5> QED BY <3>1, <5>1
      <4>4. CASE q = p /\ k = 1
        BY <1>1, <1>3, <3>1, <4>1, <4>4
      <4> QED BY <4>2, <4>3, <4>4
    <3> QED BY <3>1, <3>2, <3>3, <3>4
  <2>2. UNCHANGED <<owed, heard, events>>
    BY <1>1
  <2> QED BY <2>1, <2>2 DEF MissedOnlyIfLost, Contains
<1> QED BY <1>4, <1>5, <1>6, <1>7, <1>8, <1>9 DEF RoomsInv


-----------------------------------------------------------------------------
(* Connections, rooms, and tokens *)

\* A step that emits nothing and delivers nothing keeps the rest, as long as whoever is
\* still owed an event is still in its audience.
LEMMA QuietKeeps ==
  ASSUME RoomsInv, RoomsTypeOK', UNCHANGED <<channel, heard, events, missed>>,
         owed' \subseteq owed,
         \A o \in owed' : o[2] \in Audience(events[o[1]])'
  PROVE  RoomsInv'
<1>1. EventsNumbered' /\ ChannelsOrdered' /\ ChannelsAhead' /\ HeardOnceInOrder'
  BY DEF RoomsInv, EventsNumbered, ChannelsOrdered, ChannelsAhead, HeardOnceInOrder
<1>2. OwedCanHear'
  BY DEF RoomsInv, OwedCanHear
<1>3. MissedOnlyIfLost'
  BY DEF RoomsInv, MissedOnlyIfLost
<1> QED BY <1>1, <1>2, <1>3 DEF RoomsInv

LEMMA ConnectionKeeps ==
  ASSUME RoomsInv, NEW s \in Socket, Connect(s) \/ Disconnect(s) \/ TokenExpires(s)
  PROVE  RoomsInv'
<1>1. RoomsTypeOK /\ \A o \in owed : o[2] \in Audience(events[o[1]])
  BY DEF RoomsInv, OwedCanHear
<1>2. CASE Connect(s)
  <2>1. RoomsTypeOK'
    BY <1>1, <1>2 DEF Connect, RoomsTypeOK
  <2>2. \A o \in owed' : o[2] \in Audience(events[o[1]])'
    BY <1>1, <1>2 DEF Connect, Audience, RoomsTypeOK
  <2> QED BY <1>2, <2>1, <2>2, QuietKeeps DEF Connect
<1>3. CASE Disconnect(s)
  <2>1. RoomsTypeOK'
    BY <1>1, <1>3 DEF Disconnect, RoomsTypeOK, OwedToOthers
  <2>2. \A o \in owed' : o[2] \in Audience(events[o[1]])'
    BY <1>1, <1>3 DEF Disconnect, Audience, RoomsTypeOK, OwedToOthers
  <2>3. owed' \subseteq owed /\ UNCHANGED <<channel, heard, events, missed>>
    BY <1>3 DEF Disconnect, OwedToOthers
  <2> QED BY <2>1, <2>2, <2>3, QuietKeeps
<1>4. CASE TokenExpires(s)
  <2>1. RoomsTypeOK'
    BY <1>1, <1>4 DEF TokenExpires, RoomsTypeOK
  <2>2. \A o \in owed' : o[2] \in Audience(events[o[1]])'
    BY <1>1, <1>4 DEF TokenExpires, Audience
  <2> QED BY <1>4, <2>1, <2>2, QuietKeeps DEF TokenExpires
<1> QED BY <1>2, <1>3, <1>4

LEMMA JoinKeeps ==
  ASSUME RoomsInv, NEW s \in Socket, NEW r \in AnyRoom, Join(s, r)
  PROVE  RoomsInv'
<1>1. RoomsTypeOK /\ \A o \in owed : o[2] \in Audience(events[o[1]])
  BY DEF RoomsInv, OwedCanHear
<1>2. RoomsTypeOK'
  BY <1>1 DEF Join, RoomsTypeOK
<1>3. \A o \in owed' : o[2] \in Audience(events[o[1]])'
  BY <1>1 DEF Join, Audience, RoomsTypeOK
<1> QED BY <1>2, <1>3, QuietKeeps DEF Join

LEMMA LeaveKeeps ==
  ASSUME RoomsInv, NEW s \in Socket, NEW r \in AnyRoom, Leave(s, r)
  PROVE  RoomsInv'
<1>1. RoomsTypeOK /\ \A o \in owed : o[2] \in Audience(events[o[1]])
  BY DEF RoomsInv, OwedCanHear
<1>2. /\ rooms' = [rooms EXCEPT ![s] = @ \ {r}]
      /\ owed' = {o \in owed : o[2] = s => events[o[1]].room # r}
      /\ UNCHANGED <<open, valid, channel, heard, events, missed>>
  BY DEF Leave
<1>3. RoomsTypeOK'
  BY <1>1, <1>2 DEF RoomsTypeOK
<1>4. ASSUME NEW o \in owed'
      PROVE  o[2] \in Audience(events[o[1]])'
  BY <1>1, <1>2 DEF Audience, RoomsTypeOK
<1> QED BY <1>2, <1>3, <1>4, QuietKeeps

-----------------------------------------------------------------------------
LEMMA InitRoomsInv == RoomsInit => RoomsInv
<1> SUFFICES ASSUME RoomsInit PROVE RoomsInv
  OBVIOUS
<1>1. /\ heard = [s \in Socket |-> <<>>] /\ events = <<>> /\ owed = {} /\ missed = {}
      /\ channel = [p \in Instance \X Instance |-> <<>>]
  BY DEF RoomsInit
<1>2. RoomsTypeOK
  BY <1>1 DEF RoomsInit, RoomsTypeOK
<1>3. EventsNumbered
  BY <1>1 DEF EventsNumbered
<1>4. ChannelsOrdered
  BY <1>1 DEF ChannelsOrdered
<1>5. ChannelsAhead
  BY <1>1 DEF ChannelsAhead
<1>6. HeardOnceInOrder
  BY <1>1 DEF HeardOnceInOrder
<1> QED BY <1>1, <1>2, <1>3, <1>4, <1>5, <1>6 DEF RoomsInv, OwedCanHear, MissedOnlyIfLost

LEMMA NextRoomsInv == RoomsInv /\ [RoomsStep]_roomVars => RoomsInv'
<1> SUFFICES ASSUME RoomsInv, [RoomsStep]_roomVars PROVE RoomsInv'
  OBVIOUS
<1>1. /\ Conversations \subseteq Socket /\ Room \subseteq AnyRoom
      /\ \A s \in Socket \ Conversations : UserRoom[s] \in AnyRoom
      /\ \A s \in Socket : HomeOf[s] \in Instance
  BY RoomsAssumption DEF AnyRoom
<1>2. ASSUME NEW s \in Socket, Connect(s) \/ Disconnect(s) \/ TokenExpires(s) PROVE RoomsInv'
  BY <1>2, ConnectionKeeps
<1>3. ASSUME NEW s \in Conversations, NEW r \in Room, ChatStep(s, r) PROVE RoomsInv'
  <2>1. s \in Socket /\ HomeOf[s] \in Instance /\ r \in AnyRoom
    BY <1>1
  <2>2. CASE Join(s, r)
    BY <2>1, <2>2, JoinKeeps
  <2>3. CASE Leave(s, r)
    BY <2>1, <2>3, LeaveKeeps
  <2>4. CASE Emit(HomeOf[s], TRUE, r, NoSocket) \/ Emit(HomeOf[s], TRUE, r, s)
    BY <2>1, <2>4, EmitKeeps
  <2> QED BY <1>3, <2>2, <2>3, <2>4 DEF ChatStep, HandleJoinConversation,
             HandleLeaveConversation, HandleSendMessage, HandleTyping, HandleMessageRead
<1>4. ASSUME NEW s \in Socket \ Conversations, HandleJoinRoom(s) \/ HandleLeaveRoom(s)
      PROVE  RoomsInv'
  BY <1>1, <1>4, JoinKeeps, LeaveKeeps DEF HandleJoinRoom, HandleLeaveRoom
<1>5. ASSUME NEW i \in Instance, NEW chat \in BOOLEAN, NEW r \in AnyRoom \union {Everyone},
             Emit(i, chat, r, NoSocket)
      PROVE  RoomsInv'
  BY <1>5, EmitKeeps
<1>6. ASSUME NEW i \in Instance, NEW r \in Room,
             BroadcastMessage(i, r) \/ NotifyConversationUpdate(i, r)
      PROVE  RoomsInv'
  BY <1>1, <1>5, <1>6 DEF BroadcastMessage, NotifyConversationUpdate
<1>7. ASSUME NEW i \in Instance, NEW s \in Socket \ Conversations, SendNotificationToUser(i, s)
      PROVE  RoomsInv'
  BY <1>1, <1>5, <1>7 DEF SendNotificationToUser
<1>8. ASSUME NEW i \in Instance, BroadcastNotification(i) PROVE RoomsInv'
  BY <1>5, <1>8 DEF BroadcastNotification
<1>9. ASSUME NEW p \in Instance \X Instance, Receive(p) \/ Lose(p) PROVE RoomsInv'
  BY <1>9, ReceiveKeeps, LoseKeeps
<1>10. CASE UNCHANGED roomVars
  <2>1. /\ RoomsTypeOK' /\ UNCHANGED <<channel, heard, events, missed, owed>>
        /\ \A o \in owed : o[2] \in Audience(events[o[1]])'
    BY <1>10 DEF roomVars, RoomsInv, RoomsTypeOK, OwedCanHear, Audience
  <2> QED BY <2>1, QuietKeeps
<1> QED BY <1>2, <1>3, <1>4, <1>6, <1>7, <1>8, <1>9, <1>10 DEF RoomsStep

LEMMA RoomsInvariance == RoomsSpec => []RoomsInv
BY InitRoomsInv, NextRoomsInv, PTL DEF RoomsSpec

\* Sockets, rooms, channels and events keep their types.
THEOREM RoomTypes == RoomsSpec => []RoomsTypeOK
<1>1. RoomsInv => RoomsTypeOK
  BY DEF RoomsInv
<1> QED BY <1>1, RoomsInvariance, PTL

\* No socket hears an event twice, nor one publisher's events in another order than they
\* were emitted: for any number of instances, on whichever of them the socket is.
THEOREM EventsHeardInOrder == RoomsSpec => []HeardOnceInOrder
<1>1. RoomsInv => HeardOnceInOrder
  BY DEF RoomsInv
<1> QED BY <1>1, RoomsInvariance, PTL

\* Only what Redis loses is missed by a socket that is in the room when an event is
\* emitted, and stays: the adapter itself drops nothing.
THEOREM StayingIsHearing == RoomsSpec => []MissedOnlyIfLost
<1>1. RoomsInv => MissedOnlyIfLost
  BY DEF RoomsInv
<1> QED BY <1>1, RoomsInvariance, PTL


=============================================================================
