------------------------------- MODULE Outbox -------------------------------
(***************************************************************************)
(* The transactional outbox: the table domain_event_outbox behind          *)
(* OutboxRepository, the OutboxProcessor instances that poll it, and the   *)
(* Kafka producer they send through.                                       *)
(*                                                                         *)
(* One process() call of an instance is a job.  It reads a batch with one  *)
(* query and runs publishEvent for every row of the batch concurrently, so *)
(* each (worker, row) pair is a task with its own program counter; a task  *)
(* moves at every await of publishEvent.  The rows are not locked: another *)
(* instance may hold the same row.                                         *)
(*                                                                         *)
(* A row is <<event, attempt>>: the row that the attempt-th call of the    *)
(* publisher stores for the event.  It stands for the row's uuid.  The     *)
(* columns no decision depends on (payload, topic, lastError, ...) are     *)
(* left out, and so is published_at: any published row may be old enough   *)
(* for the cleanup.                                                        *)
(* created_at is filled in by the database with the time at which the      *)
(* transaction of the save began: rows may share it, and a row with an     *)
(* earlier one may become visible after a row with a later one.            *)
(***************************************************************************)
EXTENDS Naturals, FiniteSets

CONSTANTS
  Event,       \* domain events (eventId)
  Attempt,     \* calls of the publisher that may each store an event
  Worker,      \* instances of OutboxProcessor
  Poison,      \* events whose message Kafka refuses every time
  Stamp,       \* the values of created_at that are told apart
  BatchLimit,  \* the argument of findUnpublished: 100 in the code
  MaxFaults,   \* bound: errors and crashes in a behaviour
  MaxRetry     \* bound: retry counts are not counted beyond it

ASSUME OutboxAssumption ==
  /\ IsFiniteSet(Worker)
  /\ Poison \subseteq Event
  /\ Stamp \subseteq Nat
  /\ BatchLimit \in Nat \ {0}
  /\ MaxFaults \in Nat
  /\ MaxRetry \in Nat \ {0}

VARIABLES
  outbox,      \* the table, row by row
  job,         \* worker -> how its last process() call stands
  task,        \* worker -> row -> where publishEvent stands for that row
  seen,        \* worker -> row -> outboxEntry.retryCount in recordFailure
  log,         \* row -> copies of its message in the Kafka topic
  recorded,    \* history: row -> recordFailure updates that reached the row
  faults       \* history: errors and crashes so far

vars == <<outbox, job, task, seen, log, recorded, faults>>

Row == Event \X Attempt
EventOf(r) == r[1]

Stage   == {"unused", "stored", "deleted"}
Entry   == [stage : Stage, createdAt : Nat, published : BOOLEAN, retryCount : 0..MaxRetry]
Job     == {"idle", "running", "resolved", "rejected"}
Settled == {"none", "fulfilled", "rejected"}
Pending == {"sending", "marking", "reading", "writing"}

Stored(r)      == outbox[r].stage = "stored"
Unpublished    == {r \in Row : Stored(r) /\ ~outbox[r].published}
Bump(n)        == IF n < MaxRetry THEN n + 1 ELSE n
Fault          == faults < MaxFaults /\ faults' = faults + 1

\* What ORDER BY created_at LIMIT n may return of a set of rows: which of several
\* rows of the same age it takes is up to the database.
Oldest(S, n) ==
  {B \in SUBSET S :
     /\ IsFiniteSet(B)
     /\ Cardinality(B) = n \/ (B = S /\ Cardinality(S) < n)
     /\ \A r \in B, q \in S \ B : outbox[r].createdAt <= outbox[q].createdAt}

-----------------------------------------------------------------------------
(* Variants of the definitions below with a bug somebody could write: each *)
(* shows that a property checked on this module can fail.                  *)

\* The first attempt is not to count as a retry: the count starts below zero.
NewEntryBelowZero(t) ==
  [stage |-> "stored", createdAt |-> t, published |-> FALSE, retryCount |-> 0 - 1]

\* The row is marked before the message is sent.
BatchTaskMarkFirst == "marking"

\* recordFailure writes the whole entity it read back with save().
WithFailureSaved(w, r) ==
  [outbox EXCEPT ![r].retryCount = Bump(seen[w][r]), ![r].published = FALSE]

\* recordFailure increments twice.
WithFailureTwice(w, r) ==
  [outbox EXCEPT ![r].retryCount = Bump(Bump(seen[w][r]))]

\* The poll forgets WHERE published = false.
FindUnpublishedAll == Oldest({r \in Row : Stored(r)}, BatchLimit)

\* The poll takes one row less than its limit.
FindUnpublishedShort == Oldest(Unpublished, BatchLimit - 1)

\* The poll forgets ORDER BY.
FindUnpublishedAnyOrder ==
  {B \in SUBSET Unpublished : Cardinality(B) = BatchLimit \/ B = Unpublished}

\* markAsPublished updates every unpublished row instead of the one with the id.
WithMarkAsPublishedAll(r) ==
  [q \in Row |-> IF q \in Unpublished THEN [outbox[q] EXCEPT !.published = TRUE]
                                      ELSE outbox[q]]

\* The catch block sends the message again.
CatchBlockRetry == "sending"

-----------------------------------------------------------------------------
(* OutboxRepository *)

NewEntry(t) ==
  [stage |-> "stored", createdAt |-> t, published |-> FALSE, retryCount |-> 0]

\* save: what DomainEventPublisher.publish stores for one event.
Save(r) ==
  /\ outbox[r].stage = "unused"
  /\ \E t \in Stamp : outbox' = [outbox EXCEPT ![r] = NewEntry(t)]
  /\ UNCHANGED <<job, task, seen, log, recorded, faults>>

\* findUnpublished(limit): what it may return.
FindUnpublished == Oldest(Unpublished, BatchLimit)

\* markAsPublished: an UPDATE by id, which a deleted row does not match.
WithMarkAsPublished(r) ==
  IF Stored(r) THEN [outbox EXCEPT ![r].published = TRUE] ELSE outbox

\* recordFailure, second statement: an UPDATE of two columns by id, from the
\* count that the first statement read.
WithFailure(w, r) == [outbox EXCEPT ![r].retryCount = Bump(seen[w][r])]

\* deleteOldPublishedEvents: published = true AND published_at < cutoff; which of
\* the published rows are older than the cutoff is left open.
DeleteOldPublishedEvents ==
  \E old \in SUBSET {r \in Row : Stored(r) /\ outbox[r].published} :
    /\ old # {}
    /\ outbox' = [r \in Row |-> IF r \in old THEN [outbox[r] EXCEPT !.stage = "deleted"]
                                             ELSE outbox[r]]
    /\ UNCHANGED <<job, task, seen, log, recorded, faults>>

-----------------------------------------------------------------------------
(* OutboxProcessor *)

\* What publishEvent awaits first, for every row of the batch.
BatchTask == "sending"

\* process(): the batch is read, and publishEvent starts for each of its rows;
\* an empty batch returns at once.
Poll(w) ==
  /\ job[w] # "running"
  /\ \E B \in FindUnpublished :
       /\ job' = [job EXCEPT ![w] = IF B = {} THEN "resolved" ELSE "running"]
       /\ task' = [task EXCEPT ![w] = [r \in Row |-> IF r \in B THEN BatchTask ELSE "none"]]
  /\ UNCHANGED <<outbox, seen, log, recorded, faults>>

\* process(): findUnpublished rejects, and so does the job.
PollFails(w) ==
  /\ job[w] # "running"
  /\ Fault
  /\ job' = [job EXCEPT ![w] = "rejected"]
  /\ task' = [task EXCEPT ![w] = [r \in Row |-> "none"]]
  /\ UNCHANGED <<outbox, seen, log, recorded>>

Goto(w, r, pc) == task' = [task EXCEPT ![w][r] = pc]

\* What publishEvent awaits in its catch block: the findOne of recordFailure.
CatchBlock == "reading"

\* publishEvent: kafkaProducer.send resolves.
Send(w, r) ==
  /\ task[w][r] = "sending"
  /\ EventOf(r) \notin Poison
  /\ log' = [log EXCEPT ![r] = @ + 1]
  /\ Goto(w, r, "marking")
  /\ UNCHANGED <<outbox, job, seen, recorded, faults>>

\* kafkaProducer.send rejects because the broker refuses the message...
SendRefused(w, r) ==
  /\ task[w][r] = "sending"
  /\ EventOf(r) \in Poison
  /\ Goto(w, r, CatchBlock)
  /\ UNCHANGED <<outbox, job, seen, log, recorded, faults>>

\* ... or because of an outage, with the message appended or not.
SendFails(w, r) ==
  /\ task[w][r] = "sending"
  /\ EventOf(r) \notin Poison
  /\ Fault
  /\ \E appended \in {0, 1} : log' = [log EXCEPT ![r] = @ + appended]
  /\ Goto(w, r, CatchBlock)
  /\ UNCHANGED <<outbox, job, seen, recorded>>

\* publishEvent: markAsPublished resolves.
Mark(w, r) ==
  /\ task[w][r] = "marking"
  /\ outbox' = WithMarkAsPublished(r)
  /\ Goto(w, r, "fulfilled")
  /\ UNCHANGED <<job, seen, log, recorded, faults>>

\* markAsPublished rejects, with the UPDATE committed or not: the catch block
\* treats it like a failed send.
MarkFails(w, r) ==
  /\ task[w][r] = "marking"
  /\ Fault
  /\ outbox' \in {outbox, WithMarkAsPublished(r)}
  /\ Goto(w, r, CatchBlock)
  /\ UNCHANGED <<job, seen, log, recorded>>

\* recordFailure: findOne; it returns at once if the row is gone.
ReadEntry(w, r) ==
  /\ task[w][r] = "reading"
  /\ IF Stored(r)
     THEN /\ seen' = [seen EXCEPT ![w][r] = outbox[r].retryCount]
          /\ Goto(w, r, "writing")
     ELSE /\ UNCHANGED seen
          /\ Goto(w, r, "rejected")
  /\ UNCHANGED <<outbox, job, log, recorded, faults>>

\* recordFailure: update; publishEvent then throws the original error.
WriteEntry(w, r) ==
  /\ task[w][r] = "writing"
  /\ IF Stored(r)
     THEN /\ outbox' = WithFailure(w, r)
          /\ recorded' = [recorded EXCEPT ![r] = Bump(@)]
     ELSE UNCHANGED <<outbox, recorded>>
  /\ Goto(w, r, "rejected")
  /\ UNCHANGED <<job, seen, log, faults>>

\* recordFailure itself rejects; its error replaces the original one.
RecordFailureFails(w, r) ==
  /\ task[w][r] \in {"reading", "writing"}
  /\ Fault
  /\ Goto(w, r, "rejected")
  /\ UNCHANGED <<outbox, job, seen, log, recorded>>

\* Promise.allSettled resolves whatever became of the single events.
AllSettled(w) == \A r \in Row : task[w][r] \in Settled

\* process(): returns.  No rejection of publishEvent reaches the job.
Finish(w) ==
  /\ job[w] = "running"
  /\ AllSettled(w)
  /\ job' = [job EXCEPT ![w] = "resolved"]
  /\ UNCHANGED <<outbox, task, seen, log, recorded, faults>>

\* The process dies and its promises with it; BullMQ will call it stalled.
Crash(w) ==
  /\ job[w] = "running"
  /\ Fault
  /\ job' = [job EXCEPT ![w] = "idle"]
  /\ task' = [task EXCEPT ![w] = [r \in Row |-> "none"]]
  /\ UNCHANGED <<outbox, seen, log, recorded>>

-----------------------------------------------------------------------------
Init ==
  /\ outbox = [r \in Row |-> [stage |-> "unused", createdAt |-> 0, published |-> FALSE,
                              retryCount |-> 0]]
  /\ job = [w \in Worker |-> "idle"]
  /\ task = [w \in Worker |-> [r \in Row |-> "none"]]
  /\ seen = [w \in Worker |-> [r \in Row |-> 0]]
  /\ log = [r \in Row |-> 0]
  /\ recorded = [r \in Row |-> 0]
  /\ faults = 0

\* One await of publishEvent settles.
TaskStep(w, r) ==
  \/ Send(w, r)
  \/ SendRefused(w, r)
  \/ SendFails(w, r)
  \/ Mark(w, r)
  \/ MarkFails(w, r)
  \/ ReadEntry(w, r)
  \/ WriteEntry(w, r)
  \/ RecordFailureFails(w, r)

WorkerStep(w) ==
  \/ Poll(w)
  \/ PollFails(w)
  \/ \E r \in Row : TaskStep(w, r)
  \/ Finish(w)
  \/ Crash(w)

\* Everything but the writes of the publisher.
ProcessorNext == (\E w \in Worker : WorkerStep(w)) \/ DeleteOldPublishedEvents

Next == (\E r \in Row : Save(r)) \/ ProcessorNext

Spec == Init /\ [][Next]_vars

\* Every await settles (kafkajs and the database driver time out), and a job whose
\* promises settled returns.  Nothing is assumed of the publisher or of the
\* cleanup, nor of Poll: no code adds a job to the queue it serves.
Fairness ==
  \A w \in Worker :
    /\ WF_vars(Finish(w))
    /\ \A r \in Row : WF_vars(TaskStep(w, r))

FairSpec == Spec /\ Fairness

-----------------------------------------------------------------------------
(* Properties *)

TypeOK ==
  /\ outbox \in [Row -> Entry]
  /\ job \in [Worker -> Job]
  /\ task \in [Worker -> [Row -> Settled \union Pending]]
  /\ seen \in [Worker -> [Row -> 0..MaxRetry]]
  /\ log \in [Row -> Nat]
  /\ recorded \in [Row -> 0..MaxRetry]
  /\ faults \in 0..MaxFaults

\* No event is lost: a row that the poll will not return any more (published, or
\* deleted by the cleanup) has its message in the topic, whatever failed, crashed
\* or ran twice between the send and the UPDATE of publishEvent.
NoEventLost ==
  \A r \in Row : outbox[r].published \/ outbox[r].stage = "deleted" => log[r] > 0

\* recordFailure's read-then-update may lose increments when two workers fail the
\* same row, but it never invents one, and it never loses all of them:
\* findFailedEvents sees every row that ever recorded a failure as failed.
RetryCountSound ==
  \A r \in Row :
    /\ outbox[r].retryCount <= recorded[r]
    /\ outbox[r].retryCount = 0 <=> recorded[r] = 0

\* A message is repeated only for a reason: every copy beyond one per worker (two
\* workers may hold the row at once) is paid for by an error or a crash.  With one
\* worker and no fault, delivery is exactly once.
DuplicatesBounded == \A r \in Row : log[r] <= Cardinality(Worker) + faults

\* Once published, a row stays published: no late recordFailure of another worker,
\* and no second job, puts it back into the poll.
PublishedForGood ==
  [][\A r \in Row : outbox[r].published => outbox'[r].published]_vars

\* A row leaves the table only when it is published: the cleanup never
\* takes a row that still has to be sent.
DeletedOnlyIfPublished ==
  [][\A r \in Row : Stored(r) /\ outbox'[r].stage = "deleted"
                    => outbox[r].published /\ log[r] > 0]_vars

\* Every process() call ends: a batch in which sends are refused, marks fail and
\* failures cannot be recorded does not keep the worker from the next job.
EveryJobSettles == \A w \in Worker : (job[w] = "running") ~> (job[w] # "running")

\* Claim of the integration test: if an event of the batch could not be published,
\* the job rejects, so that BullMQ retries it.
FailedEventFailsJob ==
  \A w \in Worker : job[w] = "resolved" => \A r \in Row : task[w][r] # "rejected"

\* Claim of the specification document, whose outbox increments in the database
\* (retry_count + 1): the count of a row is the number of failures recorded for it.
EveryFailureCounted == \A r \in Row : outbox[r].retryCount = recorded[r]

\* The abstract delivery service, and the state of it that this system is in.
HealthyRow == {r \in Row : EventOf(r) \notin Poison}
Accepted   == {r \in Row : outbox[r].stage # "unused"}
Sent       == {r \in Row : log[r] > 0}
Delivery == INSTANCE EventDelivery WITH
  Message   <- Row,
  Healthy   <- HealthyRow,
  accepted  <- Accepted,
  owed      <- Unpublished,
  delivered <- Sent

\* The outbox implements the delivery service: rows are accepted once, leave the
\* debt only after their message got through, and nothing else is delivered.
ImplementsDelivery == Delivery!Safety

\* Rows that Kafka refuses stay at the head of the oldest-first batch, because
\* findUnpublished neither counts retries nor looks past its limit: while as many of
\* them as a batch holds are older than every healthy row, no job takes up a healthy
\* one, and only the commit of a healthy row from an older (or as old) transaction
\* ends that.
Blocks(B) ==
  /\ B \subseteq Unpublished \ HealthyRow
  /\ Cardinality(B) = BatchLimit
  /\ \A r \in B, q \in Unpublished \cap HealthyRow : outbox[r].createdAt < outbox[q].createdAt

TakenUp(r) == \E w \in Worker : Poll(w) /\ task'[w][r] # "none"
OldRowCommits(B) ==
  \E q \in HealthyRow \ Accepted, r \in B :
    Stored(q)' /\ outbox'[q].createdAt <= outbox[r].createdAt

RefusedRowsBlock ==
  [][\A B \in SUBSET Unpublished : Blocks(B) =>
       /\ \A q \in HealthyRow : ~TakenUp(q)
       /\ Blocks(B)' \/ OldRowCommits(B)]_vars

\* If process() is called again and again, by whomever, and there are never as many
\* refused rows waiting as a batch holds, every stored row that Kafka can carry is
\* sent and marked, whatever fails finitely often.
HealthyEventsPublished ==
  /\ []<><<\E w \in Worker : Poll(w)>>_vars
  /\ [](Cardinality(Unpublished \ HealthyRow) < BatchLimit)
  => Delivery!Progress

\* Claim of the data model and of the research notes: a background worker polls the
\* outbox every 5 seconds, so every stored event Kafka can carry is sent.
StoredEventsAreSent == \A r \in HealthyRow : Stored(r) ~> (log[r] > 0)

=============================================================================
