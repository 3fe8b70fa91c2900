---------------------------- MODULE OutboxProofs ----------------------------
(***************************************************************************)
(* Proofs about module Outbox, for any number of events, rows and workers, *)
(* any batch limit and any number of faults.                               *)
(*                                                                         *)
(* The inductive invariant IInv adds to the properties what the code never *)
(* says in one place: a task that is about to mark a row has sent it, a    *)
(* row that was not stored yet is untouched, and the count a worker holds  *)
(* across the await of recordFailure is no larger than the failures that   *)
(* were recorded meanwhile.                                                *)
(***************************************************************************)
EXTENDS Outbox, TLAPS

\* A row that is not in the table yet has left no trace anywhere.
FreshRows ==
  \A r \in Row : outbox[r].stage = "unused" =>
    /\ ~outbox[r].published
    /\ log[r] = 0
    /\ recorded[r] = 0
    /\ \A w \in Worker : task[w][r] = "none"

\* Whoever will mark a row as published has had its message appended.
MarkersHaveSent ==
  \A w \in Worker, r \in Row : task[w][r] = "marking" => log[r] > 0

\* The count a worker read before its await may be stale, never too high.
HeldCounts ==
  \A w \in Worker, r \in Row : task[w][r] = "writing" => seen[w][r] <= recorded[r]

IInv ==
  /\ TypeOK
  /\ FreshRows
  /\ MarkersHaveSent
  /\ HeldCounts
  /\ NoEventLost
  /\ RetryCountSound

-----------------------------------------------------------------------------

\* Saturating increment: it stays in range, is positive, and is monotone.
LEMMA BumpFacts ==
  ASSUME NEW m \in 0..MaxRetry, NEW n \in 0..MaxRetry
  PROVE  /\ Bump(n) \in 0..MaxRetry
         /\ Bump(n) > 0
         /\ Bump(n) >= n
         /\ m <= n => Bump(m) <= Bump(n)
  BY OutboxAssumption DEF Bump

\* findUnpublished returns unpublished rows of the table only.
LEMMA FindUnpublishedFacts ==
  (\A B \in FindUnpublished : B \subseteq Unpublished) /\ Unpublished \subseteq Row
  BY DEF FindUnpublished, Oldest, Unpublished

\* Moving one program counter leaves the others where they were.
LEMMA GotoFacts ==
  ASSUME TypeOK, NEW w \in Worker, NEW r \in Row,
         NEW pc \in Settled \union Pending, Goto(w, r, pc)
  PROVE  /\ task' \in [Worker -> [Row -> Settled \union Pending]]
         /\ task'[w][r] = pc
         /\ \A v \in Worker, q \in Row :
              v # w \/ q # r => task'[v][q] = task[v][q]
  BY DEF TypeOK, Goto

\* The UPDATE of markAsPublished touches no other row and no other column.
LEMMA MarkFacts ==
  ASSUME TypeOK, NEW r \in Row
  PROVE  /\ WithMarkAsPublished(r) \in [Row -> Entry]
         /\ \A q \in Row :
              /\ WithMarkAsPublished(r)[q].stage = outbox[q].stage
              /\ WithMarkAsPublished(r)[q].retryCount = outbox[q].retryCount
              /\ q # r => WithMarkAsPublished(r)[q] = outbox[q]
              /\ outbox[q].published => WithMarkAsPublished(r)[q].published
         /\ Stored(r) => WithMarkAsPublished(r)[r].published
         /\ ~Stored(r) => WithMarkAsPublished(r) = outbox
  BY DEF TypeOK, WithMarkAsPublished, Entry, Stage, Stored

\* The UPDATE of recordFailure touches no other row and no other column.
LEMMA FailureFacts ==
  ASSUME TypeOK, NEW w \in Worker, NEW r \in Row
  PROVE  /\ WithFailure(w, r) \in [Row -> Entry]
         /\ \A q \in Row :
              /\ WithFailure(w, r)[q].stage = outbox[q].stage
              /\ WithFailure(w, r)[q].published = outbox[q].published
              /\ q # r => WithFailure(w, r)[q] = outbox[q]
         /\ WithFailure(w, r)[r].retryCount = Bump(seen[w][r])
<1>1. seen[w][r] \in 0..MaxRetry
  BY DEF TypeOK
<1>2. Bump(seen[w][r]) \in 0..MaxRetry
  BY <1>1, BumpFacts
<1>3. WithFailure(w, r) \in [Row -> Entry]
  BY <1>2 DEF TypeOK, WithFailure, Entry
<1>4. ASSUME NEW q \in Row
      PROVE  /\ WithFailure(w, r)[q].stage = outbox[q].stage
             /\ WithFailure(w, r)[q].published = outbox[q].published
             /\ q # r => WithFailure(w, r)[q] = outbox[q]
  BY DEF TypeOK, WithFailure, Entry
<1>5. WithFailure(w, r)[r].retryCount = Bump(seen[w][r])
  BY DEF TypeOK, WithFailure, Entry
<1> QED BY <1>3, <1>4, <1>5

-----------------------------------------------------------------------------

LEMMA InitIInv == Init => IInv
<1> SUFFICES ASSUME Init PROVE IInv
  OBVIOUS
<1>1. TypeOK
  BY OutboxAssumption
  DEF Init, TypeOK, Entry, Stage, Job, Settled, Pending
<1>2. FreshRows /\ MarkersHaveSent /\ HeldCounts
  BY DEF Init, FreshRows, MarkersHaveSent, HeldCounts
<1>3. NoEventLost /\ RetryCountSound
  BY DEF Init, NoEventLost, RetryCountSound
<1>4. QED
  BY <1>1, <1>2, <1>3 DEF IInv

\* A save stores one row that is not published and has no failure.
LEMMA SaveFacts ==
  ASSUME TypeOK, NEW r \in Row, Save(r)
  PROVE  /\ outbox' \in [Row -> Entry]
         /\ outbox[r].stage = "unused" /\ outbox'[r].stage = "stored"
         /\ ~outbox'[r].published /\ outbox'[r].retryCount = 0
         /\ \A q \in Row : q # r => outbox'[q] = outbox[q]
<1>1. PICK t \in Stamp : outbox' = [outbox EXCEPT ![r] = NewEntry(t)]
  BY DEF Save
<1>2. NewEntry(t) \in Entry
  BY OutboxAssumption DEF NewEntry, Entry, Stage
<1>3. QED
  BY <1>1, <1>2 DEF Save, TypeOK, NewEntry

LEMMA SaveIInv ==
  ASSUME IInv, NEW r \in Row, Save(r)
  PROVE  IInv'
<1> USE DEF IInv
<1>1. /\ outbox' \in [Row -> Entry]
      /\ outbox'[r].stage = "stored" /\ ~outbox'[r].published /\ outbox'[r].retryCount = 0
      /\ \A q \in Row : q # r => outbox'[q] = outbox[q]
      /\ log[r] = 0 /\ recorded[r] = 0
  BY SaveFacts DEF FreshRows
<1>2. TypeOK'
  BY <1>1 DEF Save, TypeOK
<1>3. (FreshRows /\ MarkersHaveSent /\ HeldCounts)'
  BY <1>1 DEF Save, FreshRows, MarkersHaveSent, HeldCounts
<1>4. (NoEventLost /\ RetryCountSound)'
  BY <1>1 DEF Save, NoEventLost, RetryCountSound
<1>5. QED
  BY <1>2, <1>3, <1>4

\* The cleanup changes no publication and deletes published rows only.
LEMMA CleanupFacts ==
  ASSUME TypeOK, DeleteOldPublishedEvents
  PROVE  /\ outbox' \in [Row -> Entry]
         /\ \A q \in Row :
              /\ outbox'[q].published = outbox[q].published
              /\ outbox'[q].retryCount = outbox[q].retryCount
              /\ outbox'[q].createdAt = outbox[q].createdAt
              /\ \/ outbox'[q].stage = outbox[q].stage
                 \/ Stored(q) /\ outbox[q].published /\ outbox'[q].stage = "deleted"
<1>1. PICK old \in SUBSET {r \in Row : Stored(r) /\ outbox[r].published} :
        outbox' = [r \in Row |-> IF r \in old THEN [outbox[r] EXCEPT !.stage = "deleted"]
                                             ELSE outbox[r]]
  BY DEF DeleteOldPublishedEvents
<1>2. QED
  BY <1>1 DEF TypeOK, Entry, Stage

LEMMA CleanupIInv ==
  ASSUME IInv, DeleteOldPublishedEvents
  PROVE  IInv'
<1> USE DEF IInv
<1>1. /\ outbox' \in [Row -> Entry]
      /\ \A q \in Row :
           /\ outbox'[q].published = outbox[q].published
           /\ outbox'[q].retryCount = outbox[q].retryCount
           /\ outbox'[q].stage = "unused" => outbox[q].stage = "unused"
           /\ outbox'[q].stage = "deleted" => outbox[q].published \/ outbox[q].stage = "deleted"
  BY CleanupFacts
<1>2. UNCHANGED <<job, task, seen, log, recorded, faults>>
  BY DEF DeleteOldPublishedEvents
<1>3. TypeOK'
  BY <1>1, <1>2 DEF TypeOK
<1>4. (FreshRows /\ MarkersHaveSent /\ HeldCounts)'
  BY <1>1, <1>2 DEF FreshRows, MarkersHaveSent, HeldCounts
<1>5. (NoEventLost /\ RetryCountSound)'
  BY <1>1, <1>2 DEF NoEventLost, RetryCountSound
<1>6. QED
  BY <1>3, <1>4, <1>5

\* A job starts tasks for unpublished rows only, and ends or drops them.
LEMMA JobTasks ==
  ASSUME TypeOK, NEW w \in Worker, Poll(w) \/ PollFails(w) \/ Finish(w) \/ Crash(w)
  PROVE  /\ task' \in [Worker -> [Row -> Settled \union Pending]]
         /\ \A v \in Worker, q \in Row :
              \/ task'[v][q] = task[v][q]
              \/ task'[v][q] = "none"
              \/ task'[v][q] = "sending" /\ q \in Unpublished
<1>1. CASE Poll(w)
  <2>1. PICK B \in FindUnpublished :
          task' = [task EXCEPT ![w] = [r \in Row |-> IF r \in B THEN "sending" ELSE "none"]]
    BY <1>1 DEF Poll, BatchTask
  <2>2. \A q \in B : q \in Unpublished
    BY FindUnpublishedFacts
  <2>3. [r \in Row |-> IF r \in B THEN "sending" ELSE "none"] \in [Row -> Settled \union Pending]
    BY DEF Settled, Pending
  <2>4. task' \in [Worker -> [Row -> Settled \union Pending]]
    BY <2>1, <2>3 DEF TypeOK
  <2>5. \A v \in Worker, q \in Row :
          task'[v][q] = IF v = w THEN IF q \in B THEN "sending" ELSE "none" ELSE task[v][q]
    BY <2>1 DEF TypeOK
  <2>6. ASSUME NEW v \in Worker, NEW q \in Row
        PROVE  \/ task'[v][q] = task[v][q]
               \/ task'[v][q] = "none"
               \/ task'[v][q] = "sending" /\ q \in Unpublished
    BY <2>2, <2>5
  <2>7. QED
    BY <2>4, <2>6
<1>2. CASE PollFails(w) \/ Finish(w) \/ Crash(w)
  <2>1. task' = task \/ task' = [task EXCEPT ![w] = [r \in Row |-> "none"]]
    BY <1>2 DEF PollFails, Finish, Crash
  <2>2. task \in [Worker -> [Row -> Settled \union Pending]]
    BY DEF TypeOK
  <2>3. [r \in Row |-> "none"] \in [Row -> Settled \union Pending]
    BY DEF Settled
  <2>4. \A v \in Worker, q \in Row : task'[v][q] = task[v][q] \/ task'[v][q] = "none"
    BY <2>1, <2>2
  <2>5. task' \in [Worker -> [Row -> Settled \union Pending]]
    BY <2>1, <2>2, <2>3
  <2>6. QED
    BY <2>4, <2>5
<1>3. QED
  BY <1>1, <1>2

\* Polling, finishing and crashing only start, end or drop tasks.
LEMMA JobIInv ==
  ASSUME IInv, NEW w \in Worker, Poll(w) \/ PollFails(w) \/ Finish(w) \/ Crash(w)
  PROVE  IInv'
<1> USE DEF IInv
<1>1. UNCHANGED <<outbox, seen, log, recorded>>
  BY DEF Poll, PollFails, Finish, Crash
<1>2. faults' \in 0..MaxFaults
  BY OutboxAssumption DEF Poll, PollFails, Finish, Crash, Fault, TypeOK
<1>3. job' \in [Worker -> Job]
  BY DEF Poll, PollFails, Finish, Crash, TypeOK, Job
<1>4. /\ task' \in [Worker -> [Row -> Settled \union Pending]]
      /\ \A v \in Worker, q \in Row :
           \/ task'[v][q] = task[v][q]
           \/ task'[v][q] = "none"
           \/ task'[v][q] = "sending" /\ q \in Unpublished
  BY JobTasks
<1>5. TypeOK'
  BY <1>1, <1>2, <1>3, <1>4 DEF TypeOK
<1>6. \A q \in Row : q \in Unpublished => outbox[q].stage # "unused"
  BY DEF Unpublished, Stored
<1>7. (FreshRows /\ MarkersHaveSent /\ HeldCounts)'
  BY <1>1, <1>4, <1>6 DEF FreshRows, MarkersHaveSent, HeldCounts
<1>8. (NoEventLost /\ RetryCountSound)'
  BY <1>1 DEF NoEventLost, RetryCountSound
<1>9. QED
  BY <1>5, <1>7, <1>8

\* The three ways in which kafkaProducer.send may settle.
LEMMA SendIInv ==
  ASSUME IInv, NEW w \in Worker, NEW r \in Row,
         Send(w, r) \/ SendRefused(w, r) \/ SendFails(w, r)
  PROVE  IInv'
<1> USE DEF IInv
<1>1. UNCHANGED <<outbox, job, seen, recorded>>
  BY DEF Send, SendRefused, SendFails
<1>2. faults' \in 0..MaxFaults
  BY OutboxAssumption DEF Send, SendRefused, SendFails, Fault, TypeOK
<1>3. /\ log' \in [Row -> Nat]
      /\ \A q \in Row : log'[q] >= log[q] /\ (q # r => log'[q] = log[q])
  <2>1. \E n \in {0, 1} : log' = [log EXCEPT ![r] = @ + n]
    <3>1. CASE Send(w, r)
      BY <3>1 DEF Send
    <3>2. CASE SendRefused(w, r)
      <4>1. log' = [log EXCEPT ![r] = @ + 0]
        BY <3>2 DEF SendRefused, TypeOK
      <4>2. QED
        BY <4>1
    <3>3. CASE SendFails(w, r)
      BY <3>3 DEF SendFails
    <3>4. QED
      BY <3>1, <3>2, <3>3
  <2>2. PICK n \in {0, 1} : log' = [log EXCEPT ![r] = @ + n]
    BY <2>1
  <2>3. QED
    BY <2>2 DEF TypeOK
<1>4. task[w][r] = "sending" /\ outbox[r].stage # "unused"
  BY DEF Send, SendRefused, SendFails, FreshRows
<1>5. \/ Goto(w, r, "marking") /\ log'[r] > 0
      \/ Goto(w, r, "reading")
  BY DEF Send, SendRefused, SendFails, CatchBlock, TypeOK
<1>6. PICK pc \in {"marking", "reading"} :
        Goto(w, r, pc) /\ (pc = "marking" => log'[r] > 0)
  BY <1>5
<1>7. /\ task' \in [Worker -> [Row -> Settled \union Pending]]
      /\ task'[w][r] = pc
      /\ \A v \in Worker, q \in Row : v # w \/ q # r => task'[v][q] = task[v][q]
  BY <1>6, GotoFacts DEF Settled, Pending
<1>8. TypeOK'
  BY <1>1, <1>2, <1>3, <1>7 DEF TypeOK
<1>9. (FreshRows /\ HeldCounts)'
  <2>1. FreshRows'
    BY <1>1, <1>3, <1>4, <1>7 DEF FreshRows
  <2>2. HeldCounts'
    BY <1>1, <1>7 DEF HeldCounts
  <2> QED BY <2>1, <2>2
<1>10. MarkersHaveSent'
  <2> SUFFICES ASSUME NEW v \in Worker, NEW q \in Row, task'[v][q] = "marking"
               PROVE  log'[q] > 0
    BY DEF MarkersHaveSent
  <2>1. CASE v = w /\ q = r
    BY <1>6, <1>7, <2>1
  <2>2. CASE v # w \/ q # r
    <3>1. log[q] > 0
      BY <1>7, <2>2 DEF MarkersHaveSent
    <3>2. log[q] \in Nat /\ log'[q] \in Nat /\ log'[q] >= log[q]
      BY <1>3 DEF TypeOK
    <3>3. QED
      BY <3>1, <3>2
  <2>3. QED
    BY <2>1, <2>2
<1>11. (NoEventLost /\ RetryCountSound)'
  BY <1>1, <1>3 DEF NoEventLost, RetryCountSound, TypeOK
<1>12. QED
  BY <1>8, <1>9, <1>10, <1>11

\* The UPDATE of markAsPublished, seen by the worker to succeed or not.
LEMMA MarkIInv ==
  ASSUME IInv, NEW w \in Worker, NEW r \in Row, Mark(w, r) \/ MarkFails(w, r)
  PROVE  IInv'
<1> USE DEF IInv
<1>1. UNCHANGED <<job, seen, log, recorded>>
  BY DEF Mark, MarkFails
<1>2. faults' \in 0..MaxFaults
  BY OutboxAssumption DEF Mark, MarkFails, Fault, TypeOK
<1>3. task[w][r] = "marking" /\ log[r] > 0 /\ outbox[r].stage # "unused"
  BY DEF Mark, MarkFails, MarkersHaveSent, FreshRows
<1>4. PICK pc \in {"fulfilled", "reading"} : Goto(w, r, pc)
  BY DEF Mark, MarkFails, CatchBlock
<1>5. /\ task' \in [Worker -> [Row -> Settled \union Pending]]
      /\ task'[w][r] = pc
      /\ \A v \in Worker, q \in Row : v # w \/ q # r => task'[v][q] = task[v][q]
  BY <1>4, GotoFacts DEF Settled, Pending
<1>6. /\ outbox' \in [Row -> Entry]
      /\ \A q \in Row :
           /\ outbox'[q].stage = outbox[q].stage
           /\ outbox'[q].retryCount = outbox[q].retryCount
           /\ q # r => outbox'[q] = outbox[q]
  <2>1. outbox' = outbox \/ outbox' = WithMarkAsPublished(r)
    BY DEF Mark, MarkFails
  <2>2. QED
    BY <2>1, MarkFacts DEF TypeOK
<1>7. TypeOK'
  BY <1>1, <1>2, <1>5, <1>6 DEF TypeOK
<1>8. (FreshRows /\ MarkersHaveSent /\ HeldCounts)'
  BY <1>1, <1>3, <1>5, <1>6 DEF FreshRows, MarkersHaveSent, HeldCounts
<1>9. (NoEventLost /\ RetryCountSound)'
  BY <1>1, <1>3, <1>6 DEF NoEventLost, RetryCountSound
<1>10. QED
  BY <1>7, <1>8, <1>9

LEMMA ReadEntryIInv ==
  ASSUME IInv, NEW w \in Worker, NEW r \in Row,
         ReadEntry(w, r) \/ RecordFailureFails(w, r)
  PROVE  IInv'
<1> USE DEF IInv
<1>1. UNCHANGED <<outbox, job, log, recorded>>
  BY DEF ReadEntry, RecordFailureFails
<1>2. faults' \in 0..MaxFaults
  BY OutboxAssumption DEF ReadEntry, RecordFailureFails, Fault, TypeOK
<1>3. task[w][r] # "none" /\ outbox[r].stage # "unused"
  BY DEF ReadEntry, RecordFailureFails, FreshRows
<1>4. PICK pc \in {"writing", "rejected"} :
        /\ Goto(w, r, pc)
        /\ pc = "writing" => seen' = [seen EXCEPT ![w][r] = outbox[r].retryCount]
        /\ pc = "rejected" => seen' = seen
  BY DEF ReadEntry, RecordFailureFails
<1>5. /\ task' \in [Worker -> [Row -> Settled \union Pending]]
      /\ task'[w][r] = pc
      /\ \A v \in Worker, q \in Row : v # w \/ q # r => task'[v][q] = task[v][q]
  BY <1>4, GotoFacts DEF Settled, Pending
<1>6. /\ seen' \in [Worker -> [Row -> 0..MaxRetry]]
      /\ pc = "writing" => seen'[w][r] = outbox[r].retryCount
      /\ \A v \in Worker, q \in Row : v # w \/ q # r => seen'[v][q] = seen[v][q]
  <2>1. outbox[r].retryCount \in 0..MaxRetry
    BY DEF TypeOK, Entry
  <2>2. CASE pc = "rejected"
    BY <1>4, <2>2 DEF TypeOK
  <2>3. CASE pc = "writing"
    <3>1. seen' = [seen EXCEPT ![w][r] = outbox[r].retryCount]
      BY <1>4, <2>3
    <3>2. seen \in [Worker -> [Row -> 0..MaxRetry]]
      BY DEF TypeOK
    <3>3. QED
      BY <2>1, <3>1, <3>2
  <2>4. QED
    BY <2>2, <2>3
<1>7. TypeOK'
  BY <1>1, <1>2, <1>5, <1>6 DEF TypeOK
<1>8. (FreshRows /\ MarkersHaveSent)'
  BY <1>1, <1>3, <1>5 DEF FreshRows, MarkersHaveSent
<1>9. HeldCounts'
  BY <1>1, <1>5, <1>6 DEF HeldCounts, RetryCountSound
<1>10. (NoEventLost /\ RetryCountSound)'
  BY <1>1 DEF NoEventLost, RetryCountSound
<1>11. QED
  BY <1>7, <1>8, <1>9, <1>10

LEMMA WriteEntryIInv ==
  ASSUME IInv, NEW w \in Worker, NEW r \in Row, WriteEntry(w, r)
  PROVE  IInv'
<1> USE DEF IInv
<1>1. UNCHANGED <<job, seen, log, faults>> /\ task[w][r] = "writing"
  BY DEF WriteEntry
<1>2. /\ task' \in [Worker -> [Row -> Settled \union Pending]]
      /\ task'[w][r] = "rejected"
      /\ \A v \in Worker, q \in Row : v # w \/ q # r => task'[v][q] = task[v][q]
  BY GotoFacts DEF WriteEntry, Settled, Pending
<1>3. outbox[r].stage # "unused"
  BY <1>1 DEF FreshRows
<1>4. CASE ~Stored(r)
  <2>1. UNCHANGED <<outbox, recorded>>
    BY <1>4 DEF WriteEntry
  <2>2. TypeOK'
    BY <1>1, <1>2, <2>1 DEF TypeOK
  <2>3. (FreshRows /\ MarkersHaveSent /\ HeldCounts)'
    BY <1>1, <1>2, <1>3, <2>1 DEF FreshRows, MarkersHaveSent, HeldCounts
  <2>4. (NoEventLost /\ RetryCountSound)'
    BY <1>1, <2>1 DEF NoEventLost, RetryCountSound
  <2>5. QED
    BY <2>2, <2>3, <2>4
<1>5. CASE Stored(r)
  <2>1. outbox' = WithFailure(w, r) /\ recorded' = [recorded EXCEPT ![r] = Bump(@)]
    BY <1>5 DEF WriteEntry
  <2>2. /\ seen[w][r] \in 0..MaxRetry /\ recorded[r] \in 0..MaxRetry
        /\ seen[w][r] <= recorded[r]
    BY <1>1 DEF TypeOK, HeldCounts
  <2>3. /\ Bump(recorded[r]) \in 0..MaxRetry
        /\ Bump(recorded[r]) >= recorded[r]
        /\ Bump(seen[w][r]) \in 0..MaxRetry
        /\ Bump(seen[w][r]) <= Bump(recorded[r])
        /\ Bump(seen[w][r]) > 0 /\ Bump(recorded[r]) > 0
    BY <2>2, BumpFacts
  <2>4. /\ recorded' \in [Row -> 0..MaxRetry]
        /\ recorded'[r] = Bump(recorded[r])
        /\ \A q \in Row : q # r => recorded'[q] = recorded[q]
    BY <2>1, <2>3 DEF TypeOK
  <2>5. /\ outbox' \in [Row -> Entry]
        /\ outbox'[r].retryCount = Bump(seen[w][r])
        /\ \A q \in Row :
             /\ outbox'[q].stage = outbox[q].stage
             /\ outbox'[q].published = outbox[q].published
             /\ q # r => outbox'[q] = outbox[q]
    BY <2>1, FailureFacts
  <2>6. TypeOK'
    BY <1>1, <1>2, <2>4, <2>5 DEF TypeOK
  <2>7. (FreshRows /\ MarkersHaveSent)'
    <3>1. FreshRows'
      BY <1>1, <1>2, <1>3, <2>4, <2>5 DEF FreshRows
    <3>2. MarkersHaveSent'
      BY <1>1, <1>2, <1>3, <2>5 DEF MarkersHaveSent
    <3> QED BY <3>1, <3>2
  <2>8. HeldCounts'
    <3> SUFFICES ASSUME NEW v \in Worker, NEW q \in Row, task'[v][q] = "writing"
                 PROVE  seen'[v][q] <= recorded'[q]
      BY DEF HeldCounts
    <3>1. task[v][q] = "writing" /\ seen[v][q] <= recorded[q]
      BY <1>2 DEF HeldCounts
    <3>2. seen[v][q] \in Nat /\ recorded[q] \in Nat /\ recorded'[q] >= recorded[q]
      BY <2>2, <2>3, <2>4 DEF TypeOK
    <3>3. QED
      BY <1>1, <2>3, <2>4, <3>1, <3>2 DEF TypeOK
  <2>9. NoEventLost'
    BY <1>1, <2>5 DEF NoEventLost
  <2>10. RetryCountSound'
    BY <2>3, <2>4, <2>5 DEF RetryCountSound
  <2>11. QED
    BY <2>6, <2>7, <2>8, <2>9, <2>10
<1>6. QED
  BY <1>4, <1>5

\* One step per action of the next-state relation.
LEMMA NextIInv == IInv /\ [Next]_vars => IInv'
<1> SUFFICES ASSUME IInv, [Next]_vars PROVE IInv'
  OBVIOUS
<1>1. CASE \E r \in Row : Save(r)
  BY <1>1, SaveIInv
<1>2. CASE DeleteOldPublishedEvents
  BY <1>2, CleanupIInv
<1>3. ASSUME NEW w \in Worker, WorkerStep(w) PROVE IInv'
  <2>1. CASE Poll(w) \/ PollFails(w) \/ Finish(w) \/ Crash(w)
    BY <2>1, JobIInv
  <2>2. ASSUME NEW r \in Row, TaskStep(w, r) PROVE IInv'
    <3>1. CASE Send(w, r) \/ SendRefused(w, r) \/ SendFails(w, r)
      BY <3>1, SendIInv
    <3>2. CASE Mark(w, r) \/ MarkFails(w, r)
      BY <3>2, MarkIInv
    <3>3. CASE ReadEntry(w, r) \/ RecordFailureFails(w, r)
      BY <3>3, ReadEntryIInv
    <3>4. CASE WriteEntry(w, r)
      BY <3>4, WriteEntryIInv
    <3>5. QED
      BY <2>2, <3>1, <3>2, <3>3, <3>4 DEF TaskStep
  <2>3. QED
    BY <1>3, <2>1, <2>2 DEF WorkerStep
<1>4. CASE UNCHANGED vars
  BY <1>4 DEF vars, IInv, TypeOK, FreshRows, MarkersHaveSent, HeldCounts,
              NoEventLost, RetryCountSound
<1>5. QED
  BY <1>1, <1>2, <1>3, <1>4 DEF Next, ProcessorNext

LEMMA Invariance == Spec => []IInv
<1>1. QED
  BY InitIInv, NextIInv, PTL DEF Spec

\* Every row, task, message count and history variable keeps its type.
THEOREM TypeCorrect == Spec => []TypeOK
  BY Invariance, PTL DEF IInv

\* A row that left the poll has its message in the topic, for any number of
\* workers, any interleaving of their awaits, and any faults.
THEOREM NothingLost == Spec => []NoEventLost
  BY Invariance, PTL DEF IInv

\* Lost updates make retryCount too small, never too large and never zero.
THEOREM RetryCounts == Spec => []RetryCountSound
  BY Invariance, PTL DEF IInv

-----------------------------------------------------------------------------

\* The processor neither takes a publication back nor moves a row between stages.
LEMMA WorkerStepOnRow ==
  ASSUME IInv, NEW w \in Worker, WorkerStep(w), NEW q \in Row
  PROVE  /\ outbox[q].published => outbox'[q].published
         /\ outbox'[q].stage = outbox[q].stage
<1> USE DEF IInv
<1>1. CASE UNCHANGED outbox
  BY <1>1
<1>2. ASSUME NEW r \in Row, Mark(w, r) \/ MarkFails(w, r), ~UNCHANGED outbox
      PROVE  outbox' = WithMarkAsPublished(r)
  BY <1>2 DEF Mark, MarkFails
<1>3. ASSUME NEW r \in Row, WriteEntry(w, r), ~UNCHANGED outbox
      PROVE  outbox' = WithFailure(w, r)
  BY <1>3 DEF WriteEntry
<1>4. QED
  BY <1>1, <1>2, <1>3, MarkFacts, FailureFacts
  DEF WorkerStep, TaskStep, Poll, PollFails, Finish, Crash,
      Send, SendRefused, SendFails, ReadEntry, RecordFailureFails

\* What a step may do to the columns that the poll and the cleanup decide on.
LEMMA StepOnRow ==
  ASSUME IInv, [Next]_vars, NEW q \in Row
  PROVE  /\ outbox[q].published => outbox'[q].published
         /\ Stored(q) /\ outbox'[q].stage = "deleted" => outbox[q].published
<1> USE DEF IInv
<1>1. CASE \E r \in Row : Save(r)
  BY <1>1 DEF Save, NewEntry, TypeOK, FreshRows, Stored
<1>2. CASE DeleteOldPublishedEvents
  BY <1>2, CleanupFacts DEF Stored
<1>3. CASE \E w \in Worker : WorkerStep(w)
  <2>1. /\ outbox[q].published => outbox'[q].published
        /\ outbox'[q].stage = outbox[q].stage
    BY <1>3, WorkerStepOnRow
  <2>2. QED
    BY <2>1 DEF Stored
<1>4. CASE UNCHANGED vars
  BY <1>4 DEF vars, Stored
<1>5. QED
  BY <1>1, <1>2, <1>3, <1>4 DEF Next, ProcessorNext, Stored

\* No late step of any worker turns a published row back.
THEOREM PublishedStays == Spec => PublishedForGood
<1>1. IInv /\ [Next]_vars => [\A r \in Row : outbox[r].published => outbox'[r].published]_vars
  BY StepOnRow
<1>2. QED
  BY <1>1, Invariance, PTL DEF Spec, PublishedForGood

\* The cleanup takes only rows whose message got through.
THEOREM CleanupSafe == Spec => DeletedOnlyIfPublished
<1>1. IInv /\ [Next]_vars =>
        [\A r \in Row : Stored(r) /\ outbox'[r].stage = "deleted"
                        => outbox[r].published /\ log[r] > 0]_vars
  BY StepOnRow DEF IInv, NoEventLost
<1>2. QED
  BY <1>1, Invariance, PTL DEF Spec, DeletedOnlyIfPublished

-----------------------------------------------------------------------------
(* The outbox implements the abstract delivery service. *)

LEMMA InitRefines == Init => Delivery!Init
  BY DEF Init, Delivery!Init, Accepted, Unpublished, Stored, Sent

\* A step that changes no row's stage or publication and appends nothing.
LEMMA SilentStep ==
  ASSUME UNCHANGED log,
         \A r \in Row : /\ outbox'[r].published = outbox[r].published
                        /\ outbox'[r].stage = outbox[r].stage
  PROVE  UNCHANGED Delivery!dvars
<1>1. Accepted' = Accepted /\ Unpublished' = Unpublished /\ Sent' = Sent
  BY DEF Accepted, Unpublished, Stored, Sent
<1>2. QED
  BY <1>1 DEF Delivery!dvars

LEMMA SaveRefines ==
  ASSUME IInv, NEW r \in Row, Save(r)
  PROVE  Delivery!Accept(r)
<1>1. /\ outbox[r].stage = "unused" /\ UNCHANGED log
      /\ outbox'[r].stage = "stored" /\ ~outbox'[r].published
      /\ \A q \in Row : q # r => outbox'[q] = outbox[q]
  BY SaveFacts DEF IInv, Save
<1>2. r \notin Accepted
  BY <1>1 DEF Accepted
<1>3. Accepted' = Accepted \union {r}
  BY <1>1 DEF Accepted
<1>4. Unpublished' = Unpublished \union {r}
  BY <1>1 DEF Unpublished, Stored
<1>5. Sent' = Sent
  BY <1>1 DEF Sent
<1>6. QED
  BY <1>2, <1>3, <1>4, <1>5 DEF Delivery!Accept

LEMMA CleanupRefines ==
  ASSUME IInv, DeleteOldPublishedEvents
  PROVE  UNCHANGED Delivery!dvars
<1>1. UNCHANGED log
  BY DEF DeleteOldPublishedEvents
<1>2. Accepted' = Accepted /\ Unpublished' = Unpublished /\ Sent' = Sent
  BY <1>1, CleanupFacts DEF IInv, Accepted, Unpublished, Stored, Sent
<1>3. QED
  BY <1>2 DEF Delivery!dvars

\* A send delivers the row, again or for the first time, or does nothing.
LEMMA SendRefines ==
  ASSUME IInv, NEW w \in Worker, NEW r \in Row,
         Send(w, r) \/ SendRefused(w, r) \/ SendFails(w, r)
  PROVE  Delivery!Deliver(r) \/ UNCHANGED Delivery!dvars
<1>1. UNCHANGED outbox /\ task[w][r] = "sending"
  BY DEF Send, SendRefused, SendFails
<1>2. r \in Accepted
  BY <1>1 DEF IInv, FreshRows, Accepted
<1>3. Accepted' = Accepted /\ Unpublished' = Unpublished
  BY <1>1 DEF Accepted, Unpublished, Stored
<1>4. log \in [Row -> Nat]
  BY DEF IInv, TypeOK
<1>5. \/ UNCHANGED log
      \/ log' = [log EXCEPT ![r] = @ + 1]
      \/ log' = [log EXCEPT ![r] = @ + 0]
  BY DEF Send, SendRefused, SendFails
<1>6. CASE log' = [log EXCEPT ![r] = @ + 1]
  <2>1. Sent' = Sent \union {r}
    BY <1>4, <1>6 DEF Sent
  <2>2. QED
    BY <1>2, <1>3, <2>1 DEF Delivery!Deliver
<1>7. CASE UNCHANGED log \/ log' = [log EXCEPT ![r] = @ + 0]
  <2>1. Sent' = Sent
    BY <1>4, <1>7 DEF Sent
  <2>2. QED
    BY <1>3, <2>1 DEF Delivery!dvars
<1>8. QED
  BY <1>5, <1>6, <1>7

\* Marking a row acknowledges a message that was sent, if it was still owed.
LEMMA MarkRefines ==
  ASSUME IInv, NEW w \in Worker, NEW r \in Row, Mark(w, r) \/ MarkFails(w, r)
  PROVE  Delivery!Acknowledge(r) \/ UNCHANGED Delivery!dvars
<1>1. UNCHANGED log /\ task[w][r] = "marking"
  BY DEF Mark, MarkFails
<1>2. r \in Sent
  BY <1>1 DEF IInv, MarkersHaveSent, Sent
<1>3. outbox' = outbox \/ outbox' = WithMarkAsPublished(r)
  BY DEF Mark, MarkFails
<1>4. CASE outbox' = WithMarkAsPublished(r) /\ r \in Unpublished
  <2>1. /\ outbox'[r].published
        /\ \A q \in Row : /\ outbox'[q].stage = outbox[q].stage
                          /\ q # r => outbox'[q] = outbox[q]
    BY <1>4, MarkFacts DEF IInv, Unpublished
  <2>2. Unpublished' = Unpublished \ {r}
    BY <2>1 DEF Unpublished, Stored
  <2>3. Accepted' = Accepted /\ Sent' = Sent
    BY <1>1, <2>1 DEF Accepted, Sent
  <2>4. QED
    BY <1>2, <1>4, <2>2, <2>3 DEF Delivery!Acknowledge
<1>5. CASE outbox' = outbox \/ r \notin Unpublished
  <2>1. \A q \in Row : /\ outbox'[q].published = outbox[q].published
                       /\ outbox'[q].stage = outbox[q].stage
    <3>1. CASE outbox' = outbox
      BY <3>1
    <3>2. CASE outbox' = WithMarkAsPublished(r) /\ ~Stored(r)
      BY <3>2, MarkFacts DEF IInv
    <3>3. CASE outbox' = WithMarkAsPublished(r) /\ Stored(r) /\ outbox[r].published
      <4>1. outbox[r].published \in BOOLEAN /\ outbox'[r].published \in BOOLEAN
        BY <3>3, MarkFacts DEF IInv, TypeOK, Entry
      <4>2. outbox'[r].published = outbox[r].published
        BY <3>3, <4>1, MarkFacts DEF IInv
      <4>3. QED
        BY <3>3, <4>2, MarkFacts DEF IInv
    <3>4. QED
      BY <1>3, <1>5, <3>1, <3>2, <3>3 DEF Unpublished
  <2>2. QED
    BY <1>1, <2>1, SilentStep
<1>6. QED
  BY <1>3, <1>4, <1>5

\* The failure path and the jobs change nothing that the service talks about.
LEMMA OtherStepsRefine ==
  ASSUME IInv, NEW w \in Worker,
         \/ Poll(w) \/ PollFails(w) \/ Finish(w) \/ Crash(w)
         \/ \E r \in Row : ReadEntry(w, r) \/ WriteEntry(w, r) \/ RecordFailureFails(w, r)
  PROVE  UNCHANGED Delivery!dvars
<1>1. UNCHANGED log
  BY DEF Poll, PollFails, Finish, Crash, ReadEntry, WriteEntry, RecordFailureFails
<1>2. \A q \in Row : /\ outbox'[q].published = outbox[q].published
                     /\ outbox'[q].stage = outbox[q].stage
  <2>1. CASE UNCHANGED outbox
    BY <2>1
  <2>2. ASSUME NEW r \in Row, outbox' = WithFailure(w, r)
        PROVE  <1>2
    BY <2>2, FailureFacts DEF IInv
  <2>3. QED
    BY <2>1, <2>2
    DEF Poll, PollFails, Finish, Crash, ReadEntry, WriteEntry, RecordFailureFails
<1>3. QED
  BY <1>1, <1>2, SilentStep

LEMMA NextRefines == IInv /\ [Next]_vars => [Delivery!Next]_(Delivery!dvars)
<1> SUFFICES ASSUME IInv, [Next]_vars PROVE Delivery!Next \/ UNCHANGED Delivery!dvars
  OBVIOUS
<1>1. ASSUME NEW r \in Row, Save(r) PROVE Delivery!Next
  BY <1>1, SaveRefines DEF Delivery!Next
<1>2. CASE DeleteOldPublishedEvents
  BY <1>2, CleanupRefines
<1>3. ASSUME NEW w \in Worker, NEW r \in Row, TaskStep(w, r)
      PROVE  Delivery!Next \/ UNCHANGED Delivery!dvars
  BY <1>3, SendRefines, MarkRefines, OtherStepsRefine DEF TaskStep, Delivery!Next
<1>4. ASSUME NEW w \in Worker, Poll(w) \/ PollFails(w) \/ Finish(w) \/ Crash(w)
      PROVE  UNCHANGED Delivery!dvars
  BY <1>4, OtherStepsRefine
<1>5. CASE UNCHANGED vars
  BY <1>5, SilentStep DEF vars
<1>6. QED
  BY <1>1, <1>2, <1>3, <1>4, <1>5 DEF Next, ProcessorNext, WorkerStep

\* Whatever the workers, the faults and the cleanup do, the outbox behaves like the
\* delivery service: accepted rows are owed until their message got through.
THEOREM OutboxImplementsDelivery == Spec => ImplementsDelivery
<1>1. Spec => Delivery!Init /\ [][Delivery!Next]_(Delivery!dvars)
  BY InitRefines, NextRefines, Invariance, PTL DEF Spec
<1>2. QED
  BY <1>1 DEF ImplementsDelivery, Delivery!Safety

=============================================================================
