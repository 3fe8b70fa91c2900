--------------------------- MODULE EventPublisher ---------------------------
(***************************************************************************)
(* DomainEventPublisher in front of the outbox: aggregates collect domain  *)
(* events in memory, publishFromAggregate stores one row per event with    *)
(* Promise.all, and clears the aggregate once all of them are stored.  The *)
(* rows are then taken by the processor of module Outbox.                  *)
(*                                                                         *)
(* Promise.all rejects at the first failed save while its other saves are  *)
(* still under way, so a caller that tries again may run beside the saves  *)
(* of its earlier call.  Nothing keeps code that holds the aggregate from  *)
(* adding events to it, or from calling publishFromAggregate on it again,  *)
(* while a call is awaiting.                                               *)
(***************************************************************************)
EXTENDS Outbox

CONSTANTS
  Aggregate,   \* aggregate objects in memory
  Nobody       \* owner of an event that has not happened yet

ASSUME PublisherAssumption ==
  /\ IsFiniteSet(Attempt)
  /\ Attempt = 1..Cardinality(Attempt)
  /\ Nobody \notin Aggregate

VARIABLES
  raised,      \* aggregate -> its _domainEvents
  calls,       \* aggregate -> how many calls of publishFromAggregate it has seen
  call,        \* aggregate -> call, by its number -> how its promise stands
  inflight,    \* rows whose INSERT is under way
  dead,        \* aggregates whose process died
  owner,       \* history: event -> the aggregate that raised it
  meanwhile,   \* history: event -> the calls that were awaiting when it was raised
  beside       \* history: aggregate -> call -> the calls awaiting when it began

pubVars == <<raised, calls, call, inflight, dead, owner, meanwhile, beside>>
allVars == <<vars, pubVars>>

OwnerOf(r) == owner[EventOf(r)]
Awaiting(a) == {k \in Attempt : call[a][k] = "awaiting"}

-----------------------------------------------------------------------------
(* Variants with a bug, to show that the properties can fail. *)

\* publishAll uses allSettled, like the processor: a failed save goes unnoticed.
AfterFailedSaveUnnoticed(a, k) == call

\* publishFromAggregate forgets to clear the aggregate.
ClearedNot(a) == raised

-----------------------------------------------------------------------------
(* AggregateRoot and DomainEventPublisher *)

\* addDomainEvent: a new event (its id is a fresh uuid) on a live aggregate.
Raise(a, e) ==
  /\ a \notin dead
  /\ owner[e] = Nobody
  /\ owner' = [owner EXCEPT ![e] = a]
  /\ raised' = [raised EXCEPT ![a] = @ \union {e}]
  /\ meanwhile' = [meanwhile EXCEPT ![e] = Awaiting(a)]
  /\ UNCHANGED <<vars, calls, call, inflight, dead, beside>>

\* publishFromAggregate: the events are copied and every save is started.
PublishFromAggregate(a) ==
  /\ a \notin dead
  /\ raised[a] # {}
  /\ calls[a] + 1 \in Attempt
  /\ calls' = [calls EXCEPT ![a] = @ + 1]
  /\ call' = [call EXCEPT ![a][calls[a] + 1] = "awaiting"]
  /\ inflight' = inflight \union (raised[a] \X {calls[a] + 1})
  /\ beside' = [beside EXCEPT ![a][calls[a] + 1] = Awaiting(a)]
  /\ UNCHANGED <<vars, raised, dead, owner, meanwhile>>

\* One save resolves.
SaveResolves(r) ==
  /\ r \in inflight
  /\ Save(r)
  /\ inflight' = inflight \ {r}
  /\ UNCHANGED <<raised, calls, call, dead, owner, meanwhile, beside>>

\* Promise.all of the call that a save belongs to rejects, if it still awaits.
AfterFailedSave(a, k) ==
  IF k \in Awaiting(a) THEN [call EXCEPT ![a][k] = "rejected"] ELSE call

\* One save rejects, with the INSERT committed or not.
SaveRejects(r) ==
  /\ r \in inflight
  /\ Fault
  /\ \/ UNCHANGED outbox
     \/ \E t \in Stamp : outbox' = [outbox EXCEPT ![r] = NewEntry(t)]
  /\ inflight' = inflight \ {r}
  /\ call' = AfterFailedSave(OwnerOf(r), r[2])
  /\ UNCHANGED <<job, task, seen, log, recorded, raised, calls, dead, owner, meanwhile, beside>>

AllSaved(a, k) == \A r \in inflight : ~(OwnerOf(r) = a /\ r[2] = k)

Cleared(a) == [raised EXCEPT ![a] = {}]

\* Promise.all resolves; clearDomainEvents runs in the same continuation.
PublishResolves(a, k) ==
  /\ a \notin dead
  /\ k \in Awaiting(a)
  /\ AllSaved(a, k)
  /\ raised' = Cleared(a)
  /\ call' = [call EXCEPT ![a][k] = "resolved"]
  /\ UNCHANGED <<vars, calls, inflight, dead, owner, meanwhile, beside>>

\* The process of the aggregate dies (its events and calls stay as a record of what
\* it held); the saves already sent may still commit, or are lost with it.
ProcessDies(a) ==
  /\ a \notin dead
  /\ Fault
  /\ dead' = dead \union {a}
  /\ \E lost \in SUBSET {r \in inflight : OwnerOf(r) = a} : inflight' = inflight \ lost
  /\ UNCHANGED <<outbox, job, task, seen, log, recorded,
                 raised, calls, call, owner, meanwhile, beside>>

-----------------------------------------------------------------------------
PInit ==
  /\ Init
  /\ raised = [a \in Aggregate |-> {}]
  /\ calls = [a \in Aggregate |-> 0]
  /\ call = [a \in Aggregate |-> [k \in Attempt |-> "unused"]]
  /\ inflight = {}
  /\ dead = {}
  /\ owner = [e \in Event |-> Nobody]
  /\ meanwhile = [e \in Event |-> {}]
  /\ beside = [a \in Aggregate |-> [k \in Attempt |-> {}]]

SaveSettles(r) == SaveResolves(r) \/ SaveRejects(r)

PublisherNext ==
  \/ \E a \in Aggregate :
       \/ \E e \in Event : Raise(a, e)
       \/ PublishFromAggregate(a)
       \/ \E k \in Attempt : PublishResolves(a, k)
       \/ ProcessDies(a)
  \/ \E r \in Row : SaveSettles(r)

PNext == PublisherNext \/ (ProcessorNext /\ UNCHANGED pubVars)

PSpec == PInit /\ [][PNext]_allVars

\* The fairness of the processor, and: a save settles, and a call whose saves are
\* done returns.  Whether a caller retries a rejected call is left open.
PFairSpec ==
  /\ PSpec
  /\ \A w \in Worker :
       /\ WF_allVars(Finish(w) /\ UNCHANGED pubVars)
       /\ \A r \in Row : WF_allVars(TaskStep(w, r) /\ UNCHANGED pubVars)
  /\ \A r \in Row : WF_allVars(SaveSettles(r))
  /\ \A a \in Aggregate, k \in Attempt : WF_allVars(PublishResolves(a, k))

-----------------------------------------------------------------------------
(* Properties *)

\* Publisher and outbox keep their types.
PTypeOK ==
  /\ TypeOK
  /\ raised \in [Aggregate -> SUBSET Event]
  /\ calls \in [Aggregate -> {0} \union Attempt]
  /\ call \in [Aggregate -> [Attempt -> {"unused", "awaiting", "resolved", "rejected"}]]
  /\ inflight \subseteq Row
  /\ dead \subseteq Aggregate
  /\ owner \in [Event -> Aggregate \union {Nobody}]
  /\ meanwhile \in [Event -> SUBSET Attempt]
  /\ beside \in [Aggregate -> [Attempt -> SUBSET Attempt]]

HasRow(e, k) == outbox[<<e, k>>].stage # "unused"

\* An event that left its aggregate without a row in the outbox was added while a
\* call that has resolved since was awaiting its saves: whichever saves fail, and in
\* whatever order the saves of overlapping calls settle, clearDomainEvents loses
\* nothing else.
LostOnlyIfAddedMeanwhile ==
  \A e \in Event : owner[e] # Nobody /\ e \notin raised[owner[e]] =>
    \/ \E k \in Attempt : HasRow(e, k)
    \/ \E k \in meanwhile[e] : call[owner[e]][k] = "resolved"

\* The outbox has a second row of an event only if the call that stored the first
\* one rejected, or was still awaiting when the other began: a call that returned
\* is not repeated by a later one.
SecondRowHasAReason ==
  \A e \in Event, j \in Attempt, k \in Attempt :
    j < k /\ HasRow(e, j) /\ HasRow(e, k) =>
      call[owner[e]][j] = "rejected" \/ j \in beside[owner[e]][k]

=============================================================================
