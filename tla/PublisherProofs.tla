--------------------------- MODULE PublisherProofs ---------------------------
(***************************************************************************)
(* Proofs about EventPublisher, for any sets of events, aggregates and     *)
(* workers, any number of calls that overlap in any way, and any number of *)
(* faults.                                                                 *)
(*                                                                         *)
(* A row is in use once its INSERT was started, unless that INSERT failed  *)
(* without effect.  Three facts carry the properties.  A call that awaits  *)
(* has a row in use for every event its aggregate still holds, but for     *)
(* those added since it began.  A call that resolved has no row of an      *)
(* event that is still there.  And two rows of an event that are in use    *)
(* already have the reason that the property wants of two that are stored. *)
(***************************************************************************)
EXTENDS EventPublisher, OutboxProofs, FiniteSetTheorems

InUse(r) == r \in inflight \/ outbox[r].stage # "unused"

PTypes ==
  /\ raised \in [Aggregate -> SUBSET Event]
  /\ calls \in [Aggregate -> {0} \union Attempt]
  /\ call \in [Aggregate -> [Attempt -> {"unused", "awaiting", "resolved", "rejected"}]]
  /\ inflight \subseteq Row
  /\ dead \subseteq Aggregate
  /\ owner \in [Event -> Aggregate \union {Nobody}]
  /\ meanwhile \in [Event -> SUBSET Attempt]
  /\ beside \in [Aggregate -> [Attempt -> SUBSET Attempt]]

RaisedAreOwned == \A a \in Aggregate : \A e \in raised[a] : owner[e] = a

\* Calls are made in the order of their numbers.
CallsAreNumbered ==
  \A a \in Aggregate, k \in Attempt : k > calls[a] => call[a][k] = "unused"

\* A row in use belongs to a call that was made, and is inserted once.
RowsHaveCalls ==
  \A e \in Event, k \in Attempt :
    /\ InUse(<<e, k>>) => owner[e] \in Aggregate /\ call[owner[e]][k] # "unused"
    /\ <<e, k>> \in inflight => outbox[<<e, k>>].stage = "unused"

CallsHaveRows ==
  \A a \in Aggregate \ dead, k \in Attempt : call[a][k] = "awaiting" =>
    \A e \in raised[a] : k \in meanwhile[e] \/ InUse(<<e, k>>)

ResolvedCallsAreOver ==
  \A a \in Aggregate, k \in Attempt : call[a][k] = "resolved" =>
    \A e \in raised[a] : ~InUse(<<e, k>>)

SecondRowsHaveReasons ==
  \A e \in Event, j \in Attempt, k \in Attempt :
    j < k /\ InUse(<<e, j>>) /\ InUse(<<e, k>>) =>
      call[owner[e]][j] = "rejected" \/ j \in beside[owner[e]][k]

PInv ==
  /\ IInv
  /\ PTypes
  /\ RaisedAreOwned
  /\ CallsAreNumbered
  /\ RowsHaveCalls
  /\ CallsHaveRows
  /\ ResolvedCallsAreOver
  /\ SecondRowsHaveReasons
  /\ LostOnlyIfAddedMeanwhile

-----------------------------------------------------------------------------
LEMMA AttemptFacts ==
  IsFiniteSet(Attempt) /\ Attempt \subseteq Nat /\ 0 \notin Attempt
<1>1. Cardinality(Attempt) \in Nat
  BY PublisherAssumption, FS_CardinalityType
<1> QED BY <1>1, PublisherAssumption

LEMMA CallsAreCounted ==
  ASSUME PTypes, NEW a \in Aggregate
  PROVE  calls[a] \in Nat
<1>1. calls[a] \in {0} \union Attempt
  BY DEF PTypes
<1>2. \A k \in {0} \union Attempt : k \in Nat
  BY AttemptFacts
<1> QED BY <1>1, <1>2

LEMMA RowFacts ==
  /\ \A e \in Event, k \in Attempt : <<e, k>> \in Row /\ OwnerOf(<<e, k>>) = owner[e]
  /\ \A r \in Row : EventOf(r) \in Event /\ r[2] \in Attempt /\ r = <<EventOf(r), r[2]>>
BY DEF Row, EventOf, OwnerOf

LEMMA FaultIsCounted ==
  ASSUME TypeOK, Fault
  PROVE  faults' \in 0..MaxFaults
BY OutboxAssumption DEF TypeOK, Fault

-----------------------------------------------------------------------------
(* The INSERT of a row in use, also one whose answer is lost *)

\* What the INSERT changes, apart from the answer.
Inserts(r) ==
  /\ \E t \in Stamp : outbox' = [outbox EXCEPT ![r] = NewEntry(t)]
  /\ UNCHANGED <<job, task, seen, log, recorded>>

LEMMA InsertFacts ==
  ASSUME TypeOK, NEW r \in Row, Inserts(r)
  PROVE  /\ outbox' \in [Row -> Entry]
         /\ outbox'[r].stage = "stored" /\ ~outbox'[r].published
         /\ outbox'[r].retryCount = 0
         /\ \A q \in Row : q # r => outbox'[q] = outbox[q]
<1>1. PICK t \in Stamp : outbox' = [outbox EXCEPT ![r] = NewEntry(t)]
  BY DEF Inserts
<1>2. NewEntry(t) \in Entry
  BY OutboxAssumption DEF NewEntry, Entry, Stage
<1> QED BY <1>1, <1>2 DEF TypeOK, NewEntry

LEMMA InsertKeepsIInv ==
  ASSUME IInv, NEW r \in Row, outbox[r].stage = "unused", Inserts(r),
         faults' \in 0..MaxFaults
  PROVE  IInv'
<1> USE DEF IInv
<1>1. /\ outbox' \in [Row -> Entry]
      /\ outbox'[r].stage = "stored" /\ ~outbox'[r].published /\ outbox'[r].retryCount = 0
      /\ \A q \in Row : q # r => outbox'[q] = outbox[q]
      /\ log[r] = 0 /\ recorded[r] = 0
  BY InsertFacts DEF FreshRows
<1>2. TypeOK'
  BY <1>1 DEF Inserts, TypeOK
<1>3. (FreshRows /\ MarkersHaveSent /\ HeldCounts)'
  BY <1>1 DEF Inserts, FreshRows, MarkersHaveSent, HeldCounts
<1>4. (NoEventLost /\ RetryCountSound)'
  BY <1>1 DEF Inserts, NoEventLost, RetryCountSound
<1> QED BY <1>2, <1>3, <1>4

LEMMA FaultKeepsIInv ==
  ASSUME IInv, Fault, UNCHANGED <<outbox, job, task, seen, log, recorded>>
  PROVE  IInv'
<1>1. faults' \in 0..MaxFaults
  BY FaultIsCounted DEF IInv
<1> QED BY <1>1 DEF IInv, TypeOK, FreshRows, MarkersHaveSent, HeldCounts, NoEventLost,
           RetryCountSound

-----------------------------------------------------------------------------
(* The steps of aggregates and calls *)

\* addDomainEvent: the event is new, so none of its rows is in use.
LEMMA RaiseKeeps ==
  ASSUME PInv, NEW a \in Aggregate, NEW e \in Event, Raise(a, e)
  PROVE  PInv'
<1>1. UNCHANGED <<vars, calls, call, inflight, dead, beside>> /\ owner[e] = Nobody
  BY DEF Raise
<1>2. /\ owner' = [owner EXCEPT ![e] = a]
      /\ raised' = [raised EXCEPT ![a] = @ \union {e}]
      /\ meanwhile' = [meanwhile EXCEPT ![e] = Awaiting(a)]
  BY DEF Raise
<1>3. /\ owner'[e] = a /\ meanwhile'[e] = Awaiting(a)
      /\ \A o \in Event \ {e} : owner'[o] = owner[o] /\ meanwhile'[o] = meanwhile[o]
      /\ \A b \in Aggregate \ {a} : raised'[b] = raised[b]
      /\ raised'[a] = raised[a] \union {e}
  BY <1>2 DEF PInv, PTypes
<1>4. IInv'
  BY <1>1, NextIInv DEF PInv
<1>5. PTypes'
  BY <1>1, <1>2 DEF PInv, PTypes, Awaiting
<1>6. /\ \A o \in Event, k \in Attempt : InUse(<<o, k>>)' = InUse(<<o, k>>)
      /\ \A k \in Attempt : ~InUse(<<e, k>>)
  BY <1>1, PublisherAssumption DEF InUse, vars, PInv, RowsHaveCalls
<1>7. e \notin raised[a] /\ raised[a] \subseteq Event
  BY <1>1, PublisherAssumption DEF PInv, RaisedAreOwned, PTypes
<1>8. RaisedAreOwned'
  BY <1>1, <1>3, PublisherAssumption DEF PInv, RaisedAreOwned, PTypes
<1>9. CallsAreNumbered'
  BY <1>1 DEF PInv, CallsAreNumbered
<1>10. RowsHaveCalls'
  <2> SUFFICES ASSUME NEW o \in Event, NEW k \in Attempt
               PROVE  /\ InUse(<<o, k>>)' => owner'[o] \in Aggregate /\ call'[owner'[o]][k] # "unused"
                      /\ <<o, k>> \in inflight' => outbox'[<<o, k>>].stage = "unused"
    BY DEF RowsHaveCalls
  <2>1. UNCHANGED <<outbox, call, inflight>>
    BY <1>1 DEF vars
  <2>2. InUse(<<o, k>>) => o # e /\ owner'[o] = owner[o]
    BY <1>3, <1>6
  <2> QED BY <1>6, <2>1, <2>2 DEF PInv, RowsHaveCalls
<1>11. CallsHaveRows'
  <2> SUFFICES ASSUME NEW b \in Aggregate \ dead, NEW k \in Attempt,
                      call[b][k] = "awaiting", NEW o \in raised'[b]
               PROVE  k \in meanwhile'[o] \/ InUse(<<o, k>>)'
    BY <1>1 DEF CallsHaveRows
  <2>1. CASE o = e
    <3>1. b = a
      BY <1>3, <1>8, <2>1 DEF RaisedAreOwned
    <3> QED BY <1>3, <2>1, <3>1 DEF Awaiting
  <2>2. CASE o # e
    <3>1. o \in raised[b] /\ o \in Event
      BY <1>3, <2>2 DEF PInv, PTypes
    <3> QED BY <1>3, <1>6, <2>2, <3>1 DEF PInv, CallsHaveRows
  <2> QED BY <2>1, <2>2
<1>12. ResolvedCallsAreOver'
  <2> SUFFICES ASSUME NEW b \in Aggregate, NEW k \in Attempt,
                      call[b][k] = "resolved", NEW o \in raised'[b]
               PROVE  ~InUse(<<o, k>>)'
    BY <1>1 DEF ResolvedCallsAreOver
  <2>1. CASE o = e
    BY <1>6, <2>1
  <2>2. CASE o # e
    <3>1. o \in raised[b] /\ o \in Event
      BY <1>3, <2>2 DEF PInv, PTypes
    <3> QED BY <1>6, <3>1 DEF PInv, ResolvedCallsAreOver
  <2> QED BY <2>1, <2>2
<1>13. SecondRowsHaveReasons'
  <2> SUFFICES ASSUME NEW o \in Event, NEW j \in Attempt, NEW k \in Attempt,
                      j < k, InUse(<<o, j>>)', InUse(<<o, k>>)'
               PROVE  call[owner'[o]][j] = "rejected" \/ j \in beside[owner'[o]][k]
    BY <1>1 DEF SecondRowsHaveReasons
  <2>1. o # e
    BY <1>6
  <2> QED BY <1>3, <1>6, <2>1 DEF PInv, SecondRowsHaveReasons
<1>14. LostOnlyIfAddedMeanwhile'
  <2> SUFFICES ASSUME NEW o \in Event, owner'[o] # Nobody, o \notin raised'[owner'[o]]
               PROVE  \/ \E k \in Attempt : HasRow(o, k)'
                      \/ \E k \in meanwhile'[o] : call'[owner'[o]][k] = "resolved"
    BY DEF LostOnlyIfAddedMeanwhile
  <2>1. o # e
    BY <1>3
  <2>2. owner'[o] = owner[o] /\ meanwhile'[o] = meanwhile[o] /\ owner[o] \in Aggregate
    BY <1>3, <2>1 DEF PInv, PTypes
  <2>3. o \notin raised[owner[o]]
    BY <1>3, <2>2
  <2> QED BY <1>1, <2>2, <2>3 DEF PInv, LostOnlyIfAddedMeanwhile, HasRow, vars
<1> QED BY <1>4, <1>5, <1>8, <1>9, <1>10, <1>11, <1>12, <1>13, <1>14 DEF PInv

\* publishFromAggregate puts one row into use for every event the aggregate holds: a
\* first row, or one more beside the rows of calls that rejected or still await.
LEMMA PublishKeeps ==
  ASSUME PInv, NEW a \in Aggregate, PublishFromAggregate(a)
  PROVE  PInv'
<1> DEFINE m == calls[a] + 1
<1>0. PICK n \in Attempt : n = m
  BY DEF PublishFromAggregate
<1>1. UNCHANGED <<vars, raised, dead, owner, meanwhile>>
  BY DEF PublishFromAggregate
<1>2. /\ calls' = [calls EXCEPT ![a] = n]
      /\ call' = [call EXCEPT ![a][n] = "awaiting"]
      /\ inflight' = inflight \union (raised[a] \X {n})
      /\ beside' = [beside EXCEPT ![a][n] = Awaiting(a)]
  BY <1>0 DEF PublishFromAggregate
<1>3. calls[a] \in Nat /\ n \in Nat /\ n > calls[a] /\ \A k \in Attempt : k \in Nat
  BY <1>0, CallsAreCounted, AttemptFacts DEF PInv
<1>4. call[a][n] = "unused" /\ \A k \in Attempt : k > n => call[a][k] = "unused"
  BY <1>0, <1>3 DEF PInv, CallsAreNumbered
<1>5. /\ calls'[a] = n /\ call'[a][n] = "awaiting" /\ beside'[a][n] = Awaiting(a)
      /\ \A b \in Aggregate \ {a} : calls'[b] = calls[b]
      /\ \A b \in Aggregate, k \in Attempt : b # a \/ k # n =>
           call'[b][k] = call[b][k] /\ beside'[b][k] = beside[b][k]
      /\ \A e \in raised[a] : e \in Event /\ owner[e] = a
  BY <1>2 DEF PInv, PTypes, RaisedAreOwned
<1>6. IInv'
  BY <1>1, NextIInv DEF PInv
<1>7. PTypes'
  <2>1. calls' \in [Aggregate -> {0} \union Attempt]
    BY <1>2 DEF PInv, PTypes
  <2>2. call' \in [Aggregate -> [Attempt -> {"unused", "awaiting", "resolved", "rejected"}]]
    <3> DEFINE Stand == {"unused", "awaiting", "resolved", "rejected"}
    <3>1. call \in [Aggregate -> [Attempt -> Stand]] /\ "awaiting" \in Stand
      BY DEF PInv, PTypes
    <3> HIDE DEF Stand
    <3>2. call' \in [Aggregate -> [Attempt -> Stand]]
      BY <1>2, <3>1
    <3> QED BY <3>2 DEF Stand
  <2>4. inflight' \subseteq Row
    BY <1>2, <1>5 DEF PInv, PTypes, Row
  <2>3. beside' \in [Aggregate -> [Attempt -> SUBSET Attempt]]
    <3>1. Awaiting(a) \in SUBSET Attempt
      BY DEF Awaiting
    <3> QED BY <1>2, <3>1 DEF PInv, PTypes
  <2> QED BY <1>1, <2>1, <2>2, <2>3, <2>4 DEF PInv, PTypes
<1>8. \A e \in Event, k \in Attempt :
        /\ <<e, k>> \in inflight' <=> <<e, k>> \in inflight \/ (e \in raised[a] /\ k = n)
        /\ InUse(<<e, k>>)' <=> InUse(<<e, k>>) \/ (e \in raised[a] /\ k = n)
  BY <1>1, <1>2 DEF InUse, vars
<1>9. \A e \in Event, k \in Attempt : owner[e] = a /\ k >= n => ~InUse(<<e, k>>)
  <2>1. ASSUME NEW k \in Attempt, k >= n
        PROVE  call[a][k] = "unused"
    <3>1. k = n \/ k > n
      BY <1>3, <2>1
    <3> QED BY <1>4, <3>1
  <2> QED BY <2>1 DEF PInv, RowsHaveCalls
<1>10. RaisedAreOwned' /\ LostOnlyIfAddedMeanwhile'
  <2>1. RaisedAreOwned'
    BY <1>1 DEF PInv, RaisedAreOwned
  <2>2. ASSUME NEW b \in Aggregate, NEW k \in Attempt, call[b][k] = "resolved"
        PROVE  call'[b][k] = "resolved"
    BY <1>4, <1>5, <2>2
  <2>3. ASSUME NEW e \in Event, owner[e] # Nobody, e \notin raised[owner[e]]
        PROVE  \/ \E k \in Attempt : HasRow(e, k)'
               \/ \E k \in meanwhile[e] : call'[owner[e]][k] = "resolved"
    <3>1. owner[e] \in Aggregate /\ meanwhile[e] \subseteq Attempt
      BY <2>3 DEF PInv, PTypes
    <3> QED BY <1>1, <2>2, <2>3, <3>1 DEF PInv, LostOnlyIfAddedMeanwhile, HasRow, vars
  <2> QED BY <1>1, <2>1, <2>3 DEF LostOnlyIfAddedMeanwhile
<1>11. CallsAreNumbered'
  BY <1>3, <1>4, <1>5 DEF PInv, CallsAreNumbered
<1>12. RowsHaveCalls'
  <2> SUFFICES ASSUME NEW e \in Event, NEW k \in Attempt
               PROVE  /\ InUse(<<e, k>>)' => owner[e] \in Aggregate /\ call'[owner[e]][k] # "unused"
                      /\ <<e, k>> \in inflight' => outbox[<<e, k>>].stage = "unused"
    BY <1>1 DEF RowsHaveCalls, vars
  <2>1. CASE e \in raised[a] /\ k = n
    <3>1. ~InUse(<<e, k>>)
      BY <1>3, <1>5, <1>9, <2>1
    <3> QED BY <1>5, <2>1, <3>1 DEF InUse
  <2>2. CASE ~(e \in raised[a] /\ k = n)
    <3>1. InUse(<<e, k>>)' => InUse(<<e, k>>)
      BY <1>8, <2>2
    <3>2. <<e, k>> \in inflight' => <<e, k>> \in inflight
      BY <1>8, <2>2
    <3>3. InUse(<<e, k>>) => owner[e] \in Aggregate /\ call'[owner[e]][k] # "unused"
      BY <1>5 DEF PInv, RowsHaveCalls
    <3> QED BY <3>1, <3>2, <3>3 DEF PInv, RowsHaveCalls
  <2> QED BY <2>1, <2>2
<1>13. CallsHaveRows'
  <2> SUFFICES ASSUME NEW b \in Aggregate \ dead, NEW k \in Attempt,
                      call'[b][k] = "awaiting", NEW e \in raised[b]
               PROVE  k \in meanwhile[e] \/ InUse(<<e, k>>)'
    BY <1>1 DEF CallsHaveRows
  <2>0. e \in Event
    BY DEF PInv, PTypes
  <2>1. CASE b = a /\ k = n
    BY <1>8, <2>0, <2>1
  <2>2. CASE b # a \/ k # n
    BY <1>5, <1>8, <2>0, <2>2 DEF PInv, CallsHaveRows
  <2> QED BY <2>1, <2>2
<1>14. ResolvedCallsAreOver'
  <2> SUFFICES ASSUME NEW b \in Aggregate, NEW k \in Attempt,
                      call'[b][k] = "resolved", NEW e \in raised[b]
               PROVE  ~InUse(<<e, k>>)'
    BY <1>1 DEF ResolvedCallsAreOver
  <2>1. e \in Event /\ owner[e] = b
    BY DEF PInv, PTypes, RaisedAreOwned
  <2>2. b # a \/ k # n
    BY <1>5
  <2>3. ~(e \in raised[a] /\ k = n)
    BY <1>5, <2>1, <2>2
  <2> QED BY <1>5, <1>8, <2>1, <2>2, <2>3 DEF PInv, ResolvedCallsAreOver
<1>15. SecondRowsHaveReasons'
  <2> SUFFICES ASSUME NEW e \in Event, NEW j \in Attempt, NEW k \in Attempt,
                      j < k, InUse(<<e, j>>)', InUse(<<e, k>>)'
               PROVE  call'[owner[e]][j] = "rejected" \/ j \in beside'[owner[e]][k]
    BY <1>1 DEF SecondRowsHaveReasons
  <2>1. CASE e \in raised[a] /\ k = n
    <3>1. j # n /\ owner[e] = a
      BY <1>3, <1>5, <2>1
    <3>2. InUse(<<e, j>>)
      BY <1>8, <3>1
    <3>3. call[a][j] \in {"unused", "awaiting", "resolved", "rejected"}
      BY DEF PInv, PTypes
    <3>4. call[a][j] # "unused" /\ call[a][j] # "resolved"
      BY <2>1, <3>1, <3>2 DEF PInv, RowsHaveCalls, ResolvedCallsAreOver
    <3> QED BY <1>5, <2>1, <3>1, <3>3, <3>4 DEF Awaiting
  <2>2. CASE ~(e \in raised[a] /\ k = n)
    <3>1. InUse(<<e, k>>)
      BY <1>8, <2>2
    <3>2. ~(e \in raised[a] /\ j = n)
      BY <1>3, <1>5, <1>9, <3>1
    <3>3. InUse(<<e, j>>)
      BY <1>8, <3>2
    <3>4. owner[e] \in Aggregate
      BY <3>1 DEF PInv, RowsHaveCalls
    <3>5. owner[e] = a => k # n /\ j # n
      BY <1>3, <1>9, <3>1, <3>3
    <3> QED BY <1>5, <3>1, <3>3, <3>4, <3>5 DEF PInv, SecondRowsHaveReasons
  <2> QED BY <2>1, <2>2
<1> QED BY <1>6, <1>7, <1>10, <1>11, <1>12, <1>13, <1>14, <1>15 DEF PInv

-----------------------------------------------------------------------------
(* A save settles, a call returns, a process dies *)

\* A step that starts no INSERT: it ends some of those under way, for the rows of
\* live aggregates only with a row or with a rejection.
LEMMA EndOfSaves ==
  ASSUME PInv, IInv', UNCHANGED <<raised, calls, owner, meanwhile, beside>>,
         inflight' \subseteq inflight, dead \subseteq dead', PTypes',
         \A r \in Row : outbox[r].stage # "unused" => outbox'[r].stage # "unused",
         \A r \in Row : r \in inflight' => outbox'[r].stage = outbox[r].stage,
         \A r \in Row : InUse(r)' => InUse(r),
         \A a \in Aggregate, k \in Attempt :
           call'[a][k] = call[a][k] \/ (call[a][k] = "awaiting" /\ call'[a][k] = "rejected"),
         \A e \in Event, k \in Attempt :
           InUse(<<e, k>>) /\ owner[e] \notin dead' /\ call'[owner[e]][k] = "awaiting"
             => InUse(<<e, k>>)'
  PROVE  PInv'
<1>1. RaisedAreOwned' /\ CallsAreNumbered'
  <2>1. CallsAreNumbered'
    <3> SUFFICES ASSUME NEW a \in Aggregate, NEW k \in Attempt, k > calls[a]
                 PROVE  call'[a][k] = "unused"
      BY DEF CallsAreNumbered
    <3>1. call[a][k] = "unused"
      BY DEF PInv, CallsAreNumbered
    <3> QED BY <3>1
  <2> QED BY <2>1 DEF PInv, RaisedAreOwned
<1>2. RowsHaveCalls'
  <2> SUFFICES ASSUME NEW e \in Event, NEW k \in Attempt
               PROVE  /\ InUse(<<e, k>>)' => owner'[e] \in Aggregate /\ call'[owner'[e]][k] # "unused"
                      /\ <<e, k>> \in inflight' => outbox'[<<e, k>>].stage = "unused"
    BY DEF RowsHaveCalls
  <2>1. InUse(<<e, k>>)' => InUse(<<e, k>>)
    BY RowFacts DEF InUse
  <2>2. InUse(<<e, k>>) => owner[e] \in Aggregate /\ call[owner[e]][k] # "unused"
    BY DEF PInv, RowsHaveCalls
  <2>3. <<e, k>> \in inflight' => outbox'[<<e, k>>].stage = "unused"
    BY RowFacts DEF PInv, RowsHaveCalls
  <2>4. InUse(<<e, k>>) => call'[owner[e]][k] # "unused"
    <3> SUFFICES ASSUME InUse(<<e, k>>) PROVE call'[owner[e]][k] # "unused"
      OBVIOUS
    <3>1. \/ call'[owner[e]][k] = call[owner[e]][k]
          \/ call'[owner[e]][k] = "rejected"
      BY <2>2
    <3>2. "rejected" # "unused"
      OBVIOUS
    <3> QED BY <2>2, <3>1, <3>2
  <2> QED BY <2>1, <2>2, <2>3, <2>4
<1>3. CallsHaveRows'
  <2> SUFFICES ASSUME NEW a \in Aggregate \ dead', NEW k \in Attempt,
                      call'[a][k] = "awaiting", NEW e \in raised[a]
               PROVE  k \in meanwhile[e] \/ InUse(<<e, k>>)'
    BY DEF CallsHaveRows
  <2>1. a \in Aggregate \ dead /\ call[a][k] = "awaiting"
    OBVIOUS
  <2>2. e \in Event /\ owner[e] = a
    BY DEF PInv, PTypes, RaisedAreOwned
  <2>3. k \in meanwhile[e] \/ InUse(<<e, k>>)
    BY <2>1 DEF PInv, CallsHaveRows
  <2> QED BY <2>2, <2>3
<1>4. ResolvedCallsAreOver'
  <2> SUFFICES ASSUME NEW a \in Aggregate, NEW k \in Attempt,
                      call'[a][k] = "resolved", NEW e \in raised[a]
               PROVE  ~InUse(<<e, k>>)'
    BY DEF ResolvedCallsAreOver
  <2>1. call[a][k] = "resolved" /\ e \in Event
    BY DEF PInv, PTypes
  <2>2. ~InUse(<<e, k>>)
    BY <2>1 DEF PInv, ResolvedCallsAreOver
  <2> QED BY <2>1, <2>2, RowFacts DEF InUse
<1>5. SecondRowsHaveReasons'
  <2> SUFFICES ASSUME NEW e \in Event, NEW j \in Attempt, NEW k \in Attempt,
                      j < k, InUse(<<e, j>>)', InUse(<<e, k>>)'
               PROVE  call'[owner[e]][j] = "rejected" \/ j \in beside[owner[e]][k]
    BY DEF SecondRowsHaveReasons
  <2>1. InUse(<<e, j>>) /\ InUse(<<e, k>>)
    BY RowFacts DEF InUse
  <2>2. owner[e] \in Aggregate
    BY <2>1 DEF PInv, RowsHaveCalls
  <2>3. call[owner[e]][j] = "rejected" \/ j \in beside[owner[e]][k]
    BY <2>1 DEF PInv, SecondRowsHaveReasons
  <2> QED BY <2>2, <2>3
<1>6. LostOnlyIfAddedMeanwhile'
  <2> SUFFICES ASSUME NEW e \in Event, owner[e] # Nobody, e \notin raised[owner[e]]
               PROVE  \/ \E k \in Attempt : HasRow(e, k)'
                      \/ \E k \in meanwhile[e] : call'[owner[e]][k] = "resolved"
    BY DEF LostOnlyIfAddedMeanwhile
  <2>1. owner[e] \in Aggregate /\ meanwhile[e] \subseteq Attempt
    BY DEF PInv, PTypes
  <2>2. ASSUME NEW k \in Attempt, HasRow(e, k)
        PROVE  HasRow(e, k)'
    BY <2>2, RowFacts DEF HasRow
  <2>3. ASSUME NEW k \in meanwhile[e], call[owner[e]][k] = "resolved"
        PROVE  call'[owner[e]][k] = "resolved"
    BY <2>1, <2>3
  <2> QED BY <2>2, <2>3 DEF PInv, LostOnlyIfAddedMeanwhile
<1> QED BY <1>1, <1>2, <1>3, <1>4, <1>5, <1>6 DEF PInv

LEMMA SaveResolvesKeeps ==
  ASSUME PInv, NEW r \in Row, SaveResolves(r)
  PROVE  PInv'
<1>1. /\ r \in inflight /\ outbox[r].stage = "unused" /\ Inserts(r)
      /\ inflight' = inflight \ {r}
      /\ UNCHANGED <<raised, calls, call, dead, owner, meanwhile, beside, faults>>
  BY DEF SaveResolves, Save, Inserts
<1>2. /\ outbox'[r].stage # "unused"
      /\ \A q \in Row : q # r => outbox'[q] = outbox[q]
  BY <1>1, InsertFacts DEF PInv, IInv
<1>3. faults' \in 0..MaxFaults
  BY <1>1 DEF PInv, IInv, TypeOK
<1>4. IInv'
  BY <1>1, <1>3, InsertKeepsIInv DEF PInv
<1>5. PTypes'
  BY <1>1 DEF PInv, PTypes
<1>6. \A q \in Row : InUse(q)' <=> InUse(q)
  BY <1>1, <1>2 DEF InUse
<1>7. \A q \in Row : outbox[q].stage # "unused" => outbox'[q].stage # "unused"
  BY <1>1, <1>2
<1>8. \A q \in Row : q \in inflight' => outbox'[q].stage = outbox[q].stage
  BY <1>1, <1>2
<1> QED BY <1>1, <1>4, <1>5, <1>6, <1>7, <1>8, EndOfSaves, RowFacts

\* The call of the save awaits no longer, whether the row was stored or not.
LEMMA SaveRejectsKeeps ==
  ASSUME PInv, NEW r \in Row, SaveRejects(r)
  PROVE  PInv'
<1>1. /\ r \in inflight /\ Fault
      /\ Inserts(r) \/ UNCHANGED outbox
      /\ inflight' = inflight \ {r}
      /\ call' = AfterFailedSave(OwnerOf(r), r[2])
      /\ UNCHANGED <<job, task, seen, log, recorded, raised, calls, dead, owner, meanwhile, beside>>
  BY DEF SaveRejects, Inserts
<1>2. PICK e \in Event, n \in Attempt : r = <<e, n>>
  BY DEF Row
<1>3. outbox[r].stage = "unused" /\ owner[e] \in Aggregate /\ OwnerOf(r) = owner[e] /\ r[2] = n
  BY <1>1, <1>2, RowFacts DEF PInv, RowsHaveCalls, InUse
<1>4. /\ \A q \in Row : q # r => outbox'[q] = outbox[q]
      /\ Inserts(r) => outbox'[r].stage # "unused"
  BY <1>1, InsertFacts DEF PInv, IInv
<1>5. IInv'
  <2>1. faults' \in 0..MaxFaults
    BY <1>1, FaultIsCounted DEF PInv, IInv
  <2> QED BY <1>1, <1>3, <2>1, InsertKeepsIInv, FaultKeepsIInv DEF PInv
<1>6. /\ call' \in [Aggregate -> [Attempt -> {"unused", "awaiting", "resolved", "rejected"}]]
      /\ call'[owner[e]][n] # "awaiting"
      /\ \A a \in Aggregate, k \in Attempt :
           call'[a][k] = call[a][k] \/ (call[a][k] = "awaiting" /\ call'[a][k] = "rejected")
  <2>1. CASE n \in Awaiting(owner[e])
    <3>1. call' = [call EXCEPT ![owner[e]][n] = "rejected"]
      BY <1>1, <1>3, <2>1 DEF AfterFailedSave
    <3> QED BY <1>3, <2>1, <3>1 DEF PInv, PTypes, Awaiting
  <2>2. CASE n \notin Awaiting(owner[e])
    <3>1. call' = call
      BY <1>1, <1>3, <2>2 DEF AfterFailedSave
    <3> QED BY <1>3, <2>2, <3>1 DEF PInv, PTypes, Awaiting
  <2> QED BY <2>1, <2>2
<1>7. PTypes'
  BY <1>1, <1>6 DEF PInv, PTypes
<1>8. /\ \A q \in Row : InUse(q)' => InUse(q)
      /\ \A q \in Row : q # r => (InUse(q) => InUse(q)')
  BY <1>1, <1>3, <1>4 DEF InUse
<1>9. /\ \A q \in Row : outbox[q].stage # "unused" => outbox'[q].stage # "unused"
      /\ \A q \in Row : q \in inflight' => outbox'[q].stage = outbox[q].stage
  BY <1>1, <1>3, <1>4
<1>10. ASSUME NEW o \in Event, NEW k \in Attempt,
              InUse(<<o, k>>), call'[owner[o]][k] = "awaiting"
       PROVE  InUse(<<o, k>>)'
  <2>1. <<o, k>> # r
    BY <1>2, <1>6, <1>10
  <2> QED BY <1>8, <1>10, <2>1, RowFacts
<1>11. inflight' \subseteq inflight /\ dead \subseteq dead'
  BY <1>1
<1> QED BY <1>1, <1>5, <1>6, <1>7, <1>8, <1>9, <1>10, <1>11, EndOfSaves

\* The saves that are lost with the process belong to its aggregate.
LEMMA ProcessDiesKeeps ==
  ASSUME PInv, NEW a \in Aggregate, ProcessDies(a)
  PROVE  PInv'
<1>1. /\ Fault /\ dead' = dead \union {a}
      /\ UNCHANGED <<outbox, job, task, seen, log, recorded>>
      /\ UNCHANGED <<raised, calls, call, owner, meanwhile, beside>>
  BY DEF ProcessDies
<1>2. /\ inflight' \subseteq inflight
      /\ \A r \in inflight : r \notin inflight' => OwnerOf(r) = a
  BY DEF ProcessDies
<1>3. IInv'
  BY <1>1, FaultKeepsIInv DEF PInv
<1>4. PTypes'
  BY <1>1, <1>2 DEF PInv, PTypes
<1>5. \A r \in Row : InUse(r)' => InUse(r)
  BY <1>1, <1>2 DEF InUse
<1>6. ASSUME NEW e \in Event, NEW k \in Attempt, InUse(<<e, k>>), owner[e] \notin dead'
      PROVE  InUse(<<e, k>>)'
  BY <1>1, <1>2, <1>6, RowFacts DEF InUse
<1> QED BY <1>1, <1>2, <1>3, <1>4, <1>5, <1>6, EndOfSaves

\* All rows of the call were inserted, so clearing the aggregate loses none of the
\* events that were there when the call began.
LEMMA PublishResolvesKeeps ==
  ASSUME PInv, NEW a \in Aggregate, NEW n \in Attempt, PublishResolves(a, n)
  PROVE  PInv'
<1>1. /\ UNCHANGED <<vars, calls, inflight, dead, owner, meanwhile, beside>>
      /\ a \notin dead /\ call[a][n] = "awaiting" /\ AllSaved(a, n)
      /\ raised' = [raised EXCEPT ![a] = {}] /\ call' = [call EXCEPT ![a][n] = "resolved"]
  BY DEF PublishResolves, Cleared, Awaiting
<1>2. /\ raised'[a] = {} /\ call'[a][n] = "resolved"
      /\ \A b \in Aggregate : b # a => raised'[b] = raised[b]
      /\ \A b \in Aggregate, k \in Attempt : b # a \/ k # n => call'[b][k] = call[b][k]
  BY <1>1 DEF PInv, PTypes
<1>3. \A e \in Event, k \in Attempt : InUse(<<e, k>>)' = InUse(<<e, k>>)
  BY <1>1 DEF InUse, vars
<1>4. IInv'
  BY <1>1, NextIInv DEF PInv
<1>5. PTypes'
  <2>1. /\ raised' \in [Aggregate -> SUBSET Event]
        /\ call' \in [Aggregate -> [Attempt -> {"unused", "awaiting", "resolved", "rejected"}]]
    BY <1>1 DEF PInv, PTypes
  <2> QED BY <1>1, <2>1 DEF PInv, PTypes
<1>6. RaisedAreOwned'
  BY <1>1, <1>2 DEF PInv, RaisedAreOwned
<1>7. CallsAreNumbered' /\ RowsHaveCalls'
  BY <1>1, <1>2, <1>3 DEF PInv, CallsAreNumbered, RowsHaveCalls, vars
<1>8. CallsHaveRows'
  <2> SUFFICES ASSUME NEW b \in Aggregate \ dead, NEW k \in Attempt,
                      call'[b][k] = "awaiting", NEW e \in raised'[b]
               PROVE  k \in meanwhile[e] \/ InUse(<<e, k>>)'
    BY <1>1 DEF CallsHaveRows
  <2>1. b # a
    BY <1>2
  <2>2. e \in raised[b] /\ e \in Event /\ call[b][k] = "awaiting"
    BY <1>2, <2>1 DEF PInv, PTypes
  <2> QED BY <1>3, <2>2 DEF PInv, CallsHaveRows
<1>9. ResolvedCallsAreOver'
  <2> SUFFICES ASSUME NEW b \in Aggregate, NEW k \in Attempt,
                      call'[b][k] = "resolved", NEW e \in raised'[b]
               PROVE  ~InUse(<<e, k>>)'
    BY DEF ResolvedCallsAreOver
  <2>1. b # a
    BY <1>2
  <2>2. e \in raised[b] /\ e \in Event /\ call[b][k] = "resolved"
    BY <1>2, <2>1 DEF PInv, PTypes
  <2> QED BY <1>3, <2>2 DEF PInv, ResolvedCallsAreOver
<1>10. SecondRowsHaveReasons'
  <2> SUFFICES ASSUME NEW e \in Event, NEW j \in Attempt, NEW k \in Attempt,
                      j < k, InUse(<<e, j>>), InUse(<<e, k>>)
               PROVE  call'[owner[e]][j] = "rejected" \/ j \in beside[owner[e]][k]
    BY <1>1, <1>3 DEF SecondRowsHaveReasons
  <2>1. owner[e] \in Aggregate
    BY DEF PInv, RowsHaveCalls
  <2>2. call[owner[e]][j] = "rejected" \/ j \in beside[owner[e]][k]
    BY DEF PInv, SecondRowsHaveReasons
  <2>3. call[owner[e]][j] = "rejected" => call'[owner[e]][j] = "rejected"
    BY <1>1, <1>2, <2>1
  <2> QED BY <2>2, <2>3
<1>11. LostOnlyIfAddedMeanwhile'
  <2> SUFFICES ASSUME NEW e \in Event, owner[e] # Nobody, e \notin raised'[owner[e]]
               PROVE  \/ \E k \in Attempt : HasRow(e, k)
                      \/ \E k \in meanwhile[e] : call'[owner[e]][k] = "resolved"
    BY <1>1 DEF LostOnlyIfAddedMeanwhile, HasRow, vars
  <2>0. owner[e] \in Aggregate /\ meanwhile[e] \subseteq Attempt
    BY DEF PInv, PTypes
  <2>1. CASE e \in raised[owner[e]]
    <3>1. owner[e] = a
      BY <1>2, <2>0, <2>1
    <3>2. n \in meanwhile[e] \/ InUse(<<e, n>>)
      BY <1>1, <2>1, <3>1 DEF PInv, CallsHaveRows
    <3>3. <<e, n>> \notin inflight
      BY <1>1, <3>1, RowFacts DEF AllSaved
    <3> QED BY <1>2, <3>1, <3>2, <3>3 DEF InUse, HasRow
  <2>2. CASE e \notin raised[owner[e]]
    <3>1. ASSUME NEW k \in meanwhile[e], call[owner[e]][k] = "resolved"
          PROVE  call'[owner[e]][k] = "resolved"
      BY <1>1, <1>2, <2>0, <3>1
    <3> QED BY <2>2, <3>1 DEF PInv, LostOnlyIfAddedMeanwhile
  <2> QED BY <2>1, <2>2
<1> QED BY <1>4, <1>5, <1>6, <1>7, <1>8, <1>9, <1>10, <1>11 DEF PInv

-----------------------------------------------------------------------------
(* The processor, and the invariant *)

\* No step of the outbox alone puts a row into use or takes one out of it.
LEMMA ProcessorOnRows ==
  ASSUME IInv, [ProcessorNext]_vars, NEW q \in Row
  PROVE  outbox'[q].stage = "unused" <=> outbox[q].stage = "unused"
<1>1. CASE \E w \in Worker : WorkerStep(w)
  BY <1>1, WorkerStepOnRow
<1>2. CASE DeleteOldPublishedEvents
  BY <1>2, CleanupFacts DEF IInv, Stored
<1>3. CASE UNCHANGED vars
  BY <1>3 DEF vars
<1> QED BY <1>1, <1>2, <1>3 DEF ProcessorNext

LEMMA ProcessorKeeps ==
  ASSUME PInv, [ProcessorNext]_vars, UNCHANGED pubVars
  PROVE  PInv'
<1>1. UNCHANGED <<raised, calls, call, inflight, dead, owner, meanwhile, beside>>
  BY DEF pubVars
<1>2. IInv'
  BY NextIInv DEF PInv, Next
<1>3. \A r \in Row : outbox'[r].stage = "unused" <=> outbox[r].stage = "unused"
  BY ProcessorOnRows DEF PInv
<1>4. \A r \in Row : r \in inflight => outbox'[r].stage = outbox[r].stage
  <2>1. \A r \in Row : r \in inflight => outbox[r].stage = "unused"
    BY DEF PInv, RowsHaveCalls, Row
  <2> QED BY <1>3, <2>1
<1>5. \A r \in Row : InUse(r)' <=> InUse(r)
  BY <1>1, <1>3 DEF InUse
<1>6. PTypes'
  BY <1>1 DEF PInv, PTypes
<1> QED BY <1>1, <1>2, <1>3, <1>4, <1>5, <1>6, EndOfSaves, RowFacts

LEMMA InitPInv == PInit => PInv
<1> SUFFICES ASSUME PInit PROVE PInv
  OBVIOUS
<1>1. IInv
  BY InitIInv DEF PInit
<1>2. PTypes
  BY DEF PInit, PTypes
<1>3. \A e \in Event, k \in Attempt : ~InUse(<<e, k>>)
  BY RowFacts DEF PInit, Init, InUse
<1>4. /\ RaisedAreOwned /\ CallsAreNumbered /\ RowsHaveCalls /\ CallsHaveRows
      /\ ResolvedCallsAreOver /\ SecondRowsHaveReasons /\ LostOnlyIfAddedMeanwhile
  BY <1>3 DEF PInit, InUse, RaisedAreOwned, CallsAreNumbered, RowsHaveCalls, CallsHaveRows,
     ResolvedCallsAreOver, SecondRowsHaveReasons, LostOnlyIfAddedMeanwhile
<1> QED BY <1>1, <1>2, <1>4 DEF PInv

LEMMA NextPInv == PInv /\ [PNext]_allVars => PInv'
<1> SUFFICES ASSUME PInv, [PNext]_allVars PROVE PInv'
  OBVIOUS
<1>1. CASE PublisherNext
  BY <1>1, RaiseKeeps, PublishKeeps, PublishResolvesKeeps, ProcessDiesKeeps,
     SaveResolvesKeeps, SaveRejectsKeeps DEF PublisherNext, SaveSettles
<1>2. CASE ProcessorNext /\ UNCHANGED pubVars
  BY <1>2, ProcessorKeeps
<1>3. CASE UNCHANGED allVars
  BY <1>3, ProcessorKeeps DEF allVars
<1> QED BY <1>1, <1>2, <1>3 DEF PNext

LEMMA PInvariance == PSpec => []PInv
BY InitPInv, NextPInv, PTL DEF PSpec

\* Everything keeps its type, the rows in flight and the history included.
THEOREM PublisherTypes == PSpec => []PTypeOK
<1>1. PInv => PTypeOK
  BY DEF PInv, PTypes, PTypeOK, IInv
<1> QED BY <1>1, PInvariance, PTL

\* Whichever saves fail, are answered late or are lost with a process, and however the
\* calls on an aggregate overlap: an event that left its aggregate without a row was
\* added while a call that has resolved since was awaiting.
THEOREM ClearedEventsHaveRows == PSpec => []LostOnlyIfAddedMeanwhile
<1>1. PInv => LostOnlyIfAddedMeanwhile
  BY DEF PInv
<1> QED BY <1>1, PInvariance, PTL

\* An event gets a second row only from a call that began after the first call with it
\* had rejected, or while that one was awaiting.
THEOREM DuplicateRowsHaveReasons == PSpec => []SecondRowHasAReason
<1>1. PInv => SecondRowHasAReason
  BY DEF PInv, SecondRowsHaveReasons, SecondRowHasAReason, HasRow, InUse
<1> QED BY <1>1, PInvariance, PTL

\* What the outbox promises on its own it keeps behind the publisher, whose saves may
\* be committed without an answer.
THEOREM NothingLostBehindPublisher == PSpec => [](NoEventLost /\ RetryCountSound)
<1>1. PInv => NoEventLost /\ RetryCountSound
  BY DEF PInv, IInv
<1> QED BY <1>1, PInvariance, PTL

-----------------------------------------------------------------------------
(* Publisher and processor together implement the delivery service *)

LEMMA InsertRefines ==
  ASSUME TypeOK, NEW r \in Row, outbox[r].stage = "unused", Inserts(r)
  PROVE  Delivery!Accept(r)
<1>1. /\ outbox'[r].stage = "stored" /\ ~outbox'[r].published
      /\ \A q \in Row : q # r => outbox'[q] = outbox[q]
      /\ UNCHANGED log
  BY InsertFacts DEF Inserts
<1>2. r \notin Accepted /\ Accepted' = Accepted \union {r}
  BY <1>1 DEF Accepted
<1>3. Unpublished' = Unpublished \union {r}
  BY <1>1 DEF Unpublished, Stored
<1>4. Sent' = Sent
  BY <1>1 DEF Sent
<1> QED BY <1>2, <1>3, <1>4 DEF Delivery!Accept

LEMMA PNextRefines == PInv /\ [PNext]_allVars => [Delivery!Next]_(Delivery!dvars)
<1> SUFFICES ASSUME PInv, [PNext]_allVars
             PROVE  Delivery!Next \/ UNCHANGED Delivery!dvars
  OBVIOUS
<1>1. ASSUME NEW r \in Row, SaveSettles(r)
      PROVE  Delivery!Next \/ UNCHANGED Delivery!dvars
  <2>1. outbox[r].stage = "unused" /\ TypeOK
    <3>1. r \in inflight
      BY <1>1 DEF SaveSettles, SaveResolves, SaveRejects
    <3>2. r = <<EventOf(r), r[2]>> /\ EventOf(r) \in Event /\ r[2] \in Attempt
      BY RowFacts
    <3> QED BY <3>1, <3>2 DEF PInv, IInv, RowsHaveCalls
  <2>2. Inserts(r) \/ UNCHANGED <<outbox, log>>
    BY <1>1 DEF SaveSettles, SaveResolves, Save, SaveRejects, Inserts
  <2> QED BY <2>1, <2>2, InsertRefines, SilentStep DEF Delivery!Next
<1>2. ASSUME NEW a \in Aggregate,
             \/ \E e \in Event : Raise(a, e)
             \/ PublishFromAggregate(a)
             \/ \E k \in Attempt : PublishResolves(a, k)
             \/ ProcessDies(a)
      PROVE  UNCHANGED Delivery!dvars
  BY <1>2, SilentStep DEF Raise, PublishFromAggregate, PublishResolves, ProcessDies, vars
<1>3. CASE ProcessorNext
  BY <1>3, NextRefines DEF PInv, Next
<1>4. CASE UNCHANGED allVars
  BY <1>4, SilentStep DEF allVars, vars
<1> QED BY <1>1, <1>2, <1>3, <1>4 DEF PNext, PublisherNext

\* From the INSERT on, with answers lost and processes dying, the composition does
\* what the delivery service may do: the abstract specification knows no publisher.
THEOREM PublisherImplementsDelivery == PSpec => ImplementsDelivery
<1>1. PSpec => Delivery!Init /\ [][Delivery!Next]_(Delivery!dvars)
  BY InitRefines, PNextRefines, PInvariance, PTL DEF PSpec, PInit
<1> QED BY <1>1 DEF ImplementsDelivery, Delivery!Safety

=============================================================================
