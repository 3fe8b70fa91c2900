--------------------------- MODULE OutboxCounting ---------------------------
(***************************************************************************)
(* Proofs about the outbox that count: how often a message is sent, and    *)
(* when a batch has no room left.                                          *)
(*                                                                         *)
(* Copies: the argument is a budget.  While a row is unpublished, every    *)
(* copy of its message is paid for by a fault or belongs to a worker that  *)
(* is about to mark the row.  Once it is published no new worker can pick  *)
(* it up, so the copies still to come are those of the workers already     *)
(* sending, and together with the workers that marked it there are no more *)
(* of them than there are workers.                                         *)
(*                                                                         *)
(* Batches: a batch that leaves out a row takes none that is younger, and  *)
(* refused rows neither leave the table nor change their age, so a batch's *)
(* worth of them keeps every younger row out.                              *)
(***************************************************************************)
EXTENDS OutboxProofs, FiniteSetTheorems

\* The workers that are sending, and those about to mark, a row.
Sending(r) == {w \in Worker : task[w][r] = "sending"}
Marking(r) == {w \in Worker : task[w][r] = "marking"}

Budget(r) ==
  /\ ~outbox[r].published => log[r] <= faults + Cardinality(Marking(r))
  /\ outbox[r].published
       => log[r] + Cardinality(Sending(r)) <= faults + Cardinality(Worker)

\* A worker without a job has no task under way.
IdleSettled ==
  \A w \in Worker : job[w] # "running" => \A r \in Row : task[w][r] \in Settled

DeletedPublished ==
  \A r \in Row : outbox[r].stage = "deleted" => outbox[r].published

DInv ==
  /\ IInv
  /\ IdleSettled
  /\ DeletedPublished
  /\ \A r \in Row : Budget(r)

-----------------------------------------------------------------------------

\* Sizes of the two sets: they are disjoint sets of workers.
LEMMA Sizes ==
  ASSUME NEW r \in Row
  PROVE  /\ IsFiniteSet(Sending(r)) /\ IsFiniteSet(Marking(r))
         /\ Cardinality(Sending(r)) \in Nat
         /\ Cardinality(Marking(r)) \in Nat
         /\ Cardinality(Worker) \in Nat
         /\ Cardinality(Sending(r)) + Cardinality(Marking(r)) <= Cardinality(Worker)
<1>1. IsFiniteSet(Worker)
  BY OutboxAssumption
<1>2. Sending(r) \in SUBSET Worker /\ Marking(r) \in SUBSET Worker
  BY DEF Sending, Marking
<1>3. IsFiniteSet(Sending(r)) /\ IsFiniteSet(Marking(r))
  BY <1>1, <1>2, FS_Subset
<1>4. /\ Cardinality(Sending(r)) \in Nat
      /\ Cardinality(Marking(r)) \in Nat
      /\ Cardinality(Worker) \in Nat
  BY <1>1, <1>3, FS_CardinalityType
<1>5. Sending(r) \cap Marking(r) = {}
  BY DEF Sending, Marking
<1>6. Cardinality(Sending(r) \cup Marking(r))
        = Cardinality(Sending(r)) + Cardinality(Marking(r))
  <2>1. Cardinality(Sending(r) \cup Marking(r))
          = Cardinality(Sending(r)) + Cardinality(Marking(r))
            - Cardinality(Sending(r) \cap Marking(r))
    BY <1>3, FS_Union
  <2>2. Cardinality(Sending(r) \cap Marking(r)) = 0
    BY <1>5, FS_EmptySet
  <2>3. QED
    BY <1>4, <2>1, <2>2
<1>7. Cardinality(Sending(r) \cup Marking(r)) <= Cardinality(Worker)
  <2>1. Sending(r) \cup Marking(r) \in SUBSET Worker
    BY <1>2
  <2>2. QED
    BY <1>1, <2>1, FS_Subset
<1>8. QED
  BY <1>3, <1>4, <1>6, <1>7

\* The two sets after a step, when one worker's task on the row moves to pc.
LEMMA Moves ==
  ASSUME TypeOK, NEW w \in Worker, NEW r \in Row,
         NEW pc \in Settled \union Pending, Goto(w, r, pc)
  PROVE  /\ pc # "sending" => Sending(r)' = Sending(r) \ {w}
         /\ pc = "marking" => Marking(r)' = Marking(r) \union {w}
         /\ pc # "marking" => Marking(r)' = Marking(r) \ {w}
         /\ \A q \in Row : q # r =>
              Sending(q)' = Sending(q) /\ Marking(q)' = Marking(q)
<1>1. /\ task'[w][r] = pc
      /\ \A v \in Worker, q \in Row : v # w \/ q # r => task'[v][q] = task[v][q]
  BY GotoFacts
<1>2. QED
  BY <1>1 DEF Sending, Marking

\* A step that neither appends, marks nor publishes keeps the budget of a row.
LEMMA QuietBudget ==
  ASSUME TypeOK, TypeOK', NEW q \in Row, Budget(q),
         log'[q] = log[q], outbox'[q].published = outbox[q].published,
         faults' >= faults, Marking(q)' = Marking(q),
         outbox[q].published => Sending(q)' \subseteq Sending(q)
  PROVE  Budget(q)'
<1>1. log[q] \in Nat /\ faults \in Nat /\ faults' \in Nat
  BY OutboxAssumption DEF TypeOK
<1>2. CASE ~outbox[q].published
  BY <1>1, <1>2, Sizes DEF Budget
<1>3. CASE outbox[q].published
  <2>1. Sending(q)' \in SUBSET Sending(q)
    BY <1>3
  <2>2. Cardinality(Sending(q)') <= Cardinality(Sending(q)) /\ Cardinality(Sending(q)') \in Nat
    BY <2>1, Sizes, FS_Subset, FS_CardinalityType
  <2>3. QED
    BY <1>1, <1>3, <2>2, Sizes DEF Budget
<1>4. QED
  BY <1>2, <1>3

\* A worker that leaves the row without marking it is paid for by a fault, which
\* also pays for a copy the broker may have appended meanwhile.
LEMMA FaultBudget ==
  ASSUME TypeOK, TypeOK', NEW q \in Row, NEW w \in Worker, Budget(q),
         faults' = faults + 1, outbox'[q].published = outbox[q].published,
         Sending(q)' = Sending(q) \ {w}, Marking(q)' = Marking(q) \ {w},
         \/ log'[q] = log[q]
         \/ log'[q] = log[q] + 1 /\ w \in Sending(q)
  PROVE  Budget(q)'
<1>1. log[q] \in Nat /\ log'[q] \in Nat /\ faults \in Nat
  BY OutboxAssumption DEF TypeOK
<1>2. w \in Sending(q) => w \notin Marking(q)
  BY DEF Sending, Marking
<1>3. /\ Cardinality(Marking(q)') =
           IF w \in Marking(q) THEN Cardinality(Marking(q)) - 1 ELSE Cardinality(Marking(q))
      /\ Cardinality(Sending(q)') =
           IF w \in Sending(q) THEN Cardinality(Sending(q)) - 1 ELSE Cardinality(Sending(q))
  BY Sizes, FS_RemoveElement
<1>4. CASE ~outbox[q].published
  <2>1. log[q] <= faults + Cardinality(Marking(q))
    BY <1>4 DEF Budget
  <2>2. log'[q] <= faults' + Cardinality(Marking(q)')
    BY <1>1, <1>2, <1>3, <2>1, Sizes
  <2>3. QED
    BY <1>4, <2>2 DEF Budget
<1>5. CASE outbox[q].published
  <2>1. log[q] + Cardinality(Sending(q)) <= faults + Cardinality(Worker)
    BY <1>5 DEF Budget
  <2>2. log'[q] + Cardinality(Sending(q)') <= faults' + Cardinality(Worker)
    BY <1>1, <1>3, <2>1, Sizes
  <2>3. QED
    BY <1>5, <2>2 DEF Budget
<1>6. QED
  BY <1>4, <1>5

\* A successful send moves a worker from sending to marking, with one more copy.
LEMMA SendBudget ==
  ASSUME TypeOK, TypeOK', NEW q \in Row, NEW w \in Worker, Budget(q),
         w \in Sending(q), log'[q] = log[q] + 1, faults' = faults,
         outbox'[q].published = outbox[q].published,
         Sending(q)' = Sending(q) \ {w}, Marking(q)' = Marking(q) \union {w}
  PROVE  Budget(q)'
<1>1. log[q] \in Nat /\ faults \in Nat
  BY OutboxAssumption DEF TypeOK
<1>2. w \notin Marking(q)
  BY DEF Sending, Marking
<1>3. Cardinality(Marking(q)') = Cardinality(Marking(q)) + 1
  BY <1>2, Sizes, FS_AddElement
<1>4. Cardinality(Sending(q)') = Cardinality(Sending(q)) - 1
  BY Sizes, FS_RemoveElement
<1>5. QED
  BY <1>1, <1>3, <1>4, Sizes DEF Budget

\* Publishing a row closes its account: markers and senders are distinct workers.
LEMMA PublishBudget ==
  ASSUME TypeOK, TypeOK', NEW q \in Row, NEW w \in Worker, Budget(q),
         outbox'[q].published, faults' >= faults, log'[q] = log[q],
         Sending(q)' = Sending(q) \ {w}
  PROVE  Budget(q)'
<1>1. log[q] \in Nat /\ faults \in Nat /\ faults' \in Nat
  BY OutboxAssumption DEF TypeOK
<1>2. Cardinality(Sending(q)') <= Cardinality(Sending(q)) /\ Cardinality(Sending(q)') \in Nat
  <2>1. Sending(q)' \in SUBSET Sending(q)
    OBVIOUS
  <2>2. QED
    BY <2>1, Sizes, FS_Subset, FS_CardinalityType
<1>3. QED
  BY <1>1, <1>2, Sizes DEF Budget

-----------------------------------------------------------------------------

LEMMA InitDInv == Init => DInv
<1> SUFFICES ASSUME Init PROVE DInv
  OBVIOUS
<1>1. IInv
  BY InitIInv
<1>2. IdleSettled /\ DeletedPublished
  BY DEF Init, IdleSettled, DeletedPublished, Settled
<1>3. ASSUME NEW r \in Row PROVE Budget(r)
  <2>1. ~outbox[r].published /\ log[r] = 0 /\ faults = 0
    BY DEF Init
  <2>2. QED
    BY <2>1, Sizes DEF Budget
<1>4. QED
  BY <1>1, <1>2, <1>3 DEF DInv

\* A deleted row was published.
LEMMA DeletedStep ==
  ASSUME DInv, [Next]_vars
  PROVE  DeletedPublished'
<1> SUFFICES ASSUME NEW q \in Row, outbox'[q].stage = "deleted"
             PROVE  outbox'[q].published
  BY DEF DeletedPublished
<1>1. outbox[q].published => outbox'[q].published
  BY StepOnRow DEF DInv
<1>2. CASE outbox[q].stage = "deleted"
  BY <1>1, <1>2 DEF DInv, DeletedPublished
<1>3. CASE Stored(q)
  BY <1>1, <1>3, StepOnRow DEF DInv
<1>4. CASE outbox[q].stage = "unused"
  <2>1. outbox' = outbox \/ outbox'[q] = outbox[q] \/ (\E t \in Stamp : outbox'[q] = NewEntry(t))
          \/ outbox'[q].stage = outbox[q].stage
    <3>1. ASSUME NEW r \in Row, Save(r) PROVE <2>1
      BY <3>1 DEF Save, DInv, IInv, TypeOK
    <3>2. CASE DeleteOldPublishedEvents
      BY <1>4, <3>2, CleanupFacts DEF Stored, DInv, IInv
    <3>3. ASSUME NEW w \in Worker, WorkerStep(w) PROVE <2>1
      <4>1. \/ UNCHANGED outbox
            \/ \E r \in Row : outbox' = WithMarkAsPublished(r) \/ outbox' = WithFailure(w, r)
        BY <3>3 DEF WorkerStep, TaskStep, Poll, PollFails, Finish, Crash, Send, SendRefused,
                    SendFails, Mark, MarkFails, ReadEntry, WriteEntry, RecordFailureFails
      <4>2. QED
        BY <4>1, MarkFacts, FailureFacts DEF DInv, IInv
    <3>4. CASE UNCHANGED vars
      BY <3>4 DEF vars
    <3>5. QED
      BY <3>1, <3>2, <3>3, <3>4 DEF Next, ProcessorNext
  <2>2. \A t \in Stamp : NewEntry(t).stage = "stored"
    BY DEF NewEntry
  <2>3. outbox'[q].stage # "deleted"
    BY <1>4, <2>1, <2>2
  <2>4. QED
    BY <2>3
<1>5. QED
  BY <1>2, <1>3, <1>4 DEF DInv, IInv, TypeOK, Entry, Stage, Stored

\* Tasks run only under a job.
LEMMA IdleStep ==
  ASSUME DInv, [Next]_vars
  PROVE  IdleSettled'
<1> USE DEF DInv, IInv
<1>1. CASE UNCHANGED <<job, task>>
  BY <1>1 DEF IdleSettled
<1>2. ASSUME NEW w \in Worker, NEW r \in Row, TaskStep(w, r)
      PROVE  IdleSettled'
  <2>1. UNCHANGED job /\ task[w][r] \in Pending
    BY <1>2 DEF TaskStep, Send, SendRefused, SendFails, Mark, MarkFails, ReadEntry,
                WriteEntry, RecordFailureFails, Pending
  <2>2. PICK pc \in Settled \union Pending : Goto(w, r, pc)
    BY <1>2 DEF TaskStep, Send, SendRefused, SendFails, Mark, MarkFails, ReadEntry,
                WriteEntry, RecordFailureFails, CatchBlock, Settled, Pending
  <2>3. job[w] = "running"
    BY <2>1 DEF IdleSettled, Settled, Pending
  <2>4. \A v \in Worker, q \in Row : v # w => task'[v][q] = task[v][q]
    BY <2>2, GotoFacts
  <2>5. QED
    BY <2>1, <2>3, <2>4 DEF IdleSettled
<1>3. ASSUME NEW w \in Worker, Poll(w) \/ PollFails(w) \/ Finish(w) \/ Crash(w)
      PROVE  IdleSettled'
  <2>1. \A v \in Worker : v # w => job'[v] = job[v] /\ task'[v] = task[v]
    BY <1>3 DEF Poll, PollFails, Finish, Crash, TypeOK
  <2>2. job'[w] # "running" => \A r \in Row : task'[w][r] \in Settled
    BY <1>3 DEF Poll, PollFails, Finish, Crash, AllSettled, TypeOK, Settled
  <2>3. QED
    BY <2>1, <2>2 DEF IdleSettled
<1>4. QED
  BY <1>1, <1>2, <1>3
  DEF Next, ProcessorNext, WorkerStep, DeleteOldPublishedEvents, Save, vars

\* The budget of a row survives a step of a task, on this row or on another.
LEMMA TaskBudget ==
  ASSUME DInv, TypeOK', NEW w \in Worker, NEW r \in Row, TaskStep(w, r),
         NEW q \in Row
  PROVE  Budget(q)'
<1> USE DEF DInv, IInv
<1>1. /\ log \in [Row -> Nat] /\ outbox \in [Row -> Entry]
      /\ faults \in Nat /\ faults' \in Nat
  BY OutboxAssumption DEF TypeOK
<1>2. CASE Send(w, r)
  <2>1. Goto(w, r, "marking") /\ task[w][r] = "sending" /\ UNCHANGED <<outbox, faults>>
    BY <1>2 DEF Send
  <2>2. /\ Sending(r)' = Sending(r) \ {w} /\ Marking(r)' = Marking(r) \union {w}
        /\ q # r => Sending(q)' = Sending(q) /\ Marking(q)' = Marking(q)
    BY <2>1, Moves DEF Settled, Pending
  <2>3. w \in Sending(r)
    BY <2>1 DEF Sending
  <2>4. log'[r] = log[r] + 1 /\ (q # r => log'[q] = log[q])
    BY <1>1, <1>2 DEF Send
  <2>5. CASE q = r
    BY <2>1, <2>2, <2>3, <2>4, <2>5, SendBudget
  <2>6. CASE q # r
    BY <1>1, <2>1, <2>2, <2>4, <2>6, QuietBudget
  <2>7. QED
    BY <2>5, <2>6
<1>3. CASE SendFails(w, r)
  <2>1. /\ Goto(w, r, "reading") /\ task[w][r] = "sending" /\ UNCHANGED outbox
        /\ faults' = faults + 1
    BY <1>3 DEF SendFails, CatchBlock, Fault
  <2>2. /\ Sending(r)' = Sending(r) \ {w} /\ Marking(r)' = Marking(r) \ {w}
        /\ q # r => Sending(q)' = Sending(q) /\ Marking(q)' = Marking(q)
    BY <2>1, Moves DEF Settled, Pending
  <2>3. w \in Sending(r)
    BY <2>1 DEF Sending
  <2>4. /\ log'[r] = log[r] \/ log'[r] = log[r] + 1
        /\ q # r => log'[q] = log[q]
    BY <1>1, <1>3 DEF SendFails
  <2>5. CASE q = r
    BY <2>1, <2>2, <2>3, <2>4, <2>5, FaultBudget
  <2>6. CASE q # r
    BY <1>1, <2>1, <2>2, <2>4, <2>6, QuietBudget
  <2>7. QED
    BY <2>5, <2>6
<1>4. CASE Mark(w, r) \/ MarkFails(w, r)
  <2>1. PICK pc \in {"fulfilled", "reading"} : Goto(w, r, pc)
    BY <1>4 DEF Mark, MarkFails, CatchBlock
  <2>2. /\ Sending(r)' = Sending(r) \ {w} /\ Marking(r)' = Marking(r) \ {w}
        /\ q # r => Sending(q)' = Sending(q) /\ Marking(q)' = Marking(q)
    BY <2>1, Moves DEF Settled, Pending
  <2>3. UNCHANGED log /\ faults' >= faults /\ outbox[r].stage # "unused"
    BY <1>1, <1>4 DEF Mark, MarkFails, Fault, FreshRows
  <2>4. outbox' = outbox \/ outbox' = WithMarkAsPublished(r)
    BY <1>4 DEF Mark, MarkFails
  <2>5. q # r => outbox'[q] = outbox[q]
    BY <2>4, MarkFacts
  <2>6. CASE q # r
    BY <2>2, <2>3, <2>5, <2>6, QuietBudget
  <2>7. CASE q = r /\ outbox'[r].published
    BY <2>2, <2>3, <2>7, PublishBudget
  <2>8. CASE q = r /\ ~outbox'[r].published
    <3>1. outbox' = outbox /\ ~outbox[r].published
      <4>1. CASE outbox' = outbox
        BY <2>8, <4>1
      <4>2. CASE outbox' = WithMarkAsPublished(r) /\ Stored(r)
        BY <2>8, <4>2, MarkFacts
      <4>3. CASE outbox' = WithMarkAsPublished(r) /\ ~Stored(r)
        BY <2>8, <4>3, MarkFacts
      <4>4. QED
        BY <2>4, <4>1, <4>2, <4>3
    <3>2. CASE MarkFails(w, r)
      <4>1. faults' = faults + 1
        BY <3>2 DEF MarkFails, Fault
      <4>2. QED
        BY <2>2, <2>3, <2>8, <3>1, <4>1, FaultBudget
    <3>3. CASE Mark(w, r)
      <4>1. outbox' = WithMarkAsPublished(r)
        BY <3>3 DEF Mark
      <4>2. ~Stored(r)
        BY <2>8, <4>1, MarkFacts
      <4>3. outbox[r].stage = "deleted"
        BY <1>1, <2>3, <4>2 DEF Stored, Entry, Stage
      <4>4. QED
        BY <3>1, <4>3 DEF DeletedPublished
    <3>4. QED
      BY <1>4, <3>2, <3>3
  <2>9. QED
    BY <2>6, <2>7, <2>8
<1>5. CASE SendRefused(w, r) \/ ReadEntry(w, r) \/ WriteEntry(w, r) \/ RecordFailureFails(w, r)
  <2>1. PICK pc \in {"reading", "writing", "rejected"} : Goto(w, r, pc)
    BY <1>5 DEF SendRefused, ReadEntry, WriteEntry, RecordFailureFails, CatchBlock
  <2>2. task[w][r] # "marking"
    BY <1>5 DEF SendRefused, ReadEntry, WriteEntry, RecordFailureFails
  <2>3. Marking(q)' = Marking(q) /\ Sending(q)' \subseteq Sending(q)
    BY <2>1, <2>2, Moves DEF Settled, Pending, Marking
  <2>4. UNCHANGED log /\ faults' >= faults
    BY <1>1, <1>5 DEF SendRefused, ReadEntry, WriteEntry, RecordFailureFails, Fault
  <2>5. outbox' = outbox \/ outbox' = WithFailure(w, r)
    BY <1>5 DEF SendRefused, ReadEntry, WriteEntry, RecordFailureFails
  <2>6. outbox'[q].published = outbox[q].published
    BY <2>5, FailureFacts
  <2>7. QED
    BY <2>3, <2>4, <2>6, QuietBudget
<1>6. QED
  BY <1>2, <1>3, <1>4, <1>5 DEF TaskStep

\* Starting, ending and losing a job: only a crash takes a worker off a row.
LEMMA JobBudget ==
  ASSUME DInv, TypeOK', NEW w \in Worker,
         Poll(w) \/ PollFails(w) \/ Finish(w) \/ Crash(w),
         NEW q \in Row
  PROVE  Budget(q)'
<1> USE DEF DInv, IInv
<1>1. UNCHANGED <<outbox, log>> /\ faults \in Nat
  BY OutboxAssumption DEF Poll, PollFails, Finish, Crash, TypeOK
<1>2. \A v \in Worker : v # w => task'[v] = task[v]
  BY DEF Poll, PollFails, Finish, Crash, TypeOK
<1>3. CASE Poll(w) \/ PollFails(w)
  <2>1. task[w][q] \in Settled
    BY <1>3 DEF Poll, PollFails, IdleSettled
  <2>2. task'[w][q] # "marking" /\ (outbox[q].published => task'[w][q] = "none")
    BY <1>3, FindUnpublishedFacts DEF Poll, PollFails, TypeOK, Unpublished, BatchTask
  <2>3. Marking(q)' = Marking(q)
    BY <1>2, <2>1, <2>2 DEF Marking, Settled
  <2>4. outbox[q].published => Sending(q)' \subseteq Sending(q)
    BY <1>2, <2>2 DEF Sending
  <2>5. faults' >= faults
    BY <1>1, <1>3 DEF Poll, PollFails, Fault
  <2>6. QED
    BY <1>1, <2>3, <2>4, <2>5, QuietBudget
<1>4. CASE Finish(w)
  <2>1. UNCHANGED <<task, faults>>
    BY <1>4 DEF Finish
  <2>2. Marking(q)' = Marking(q) /\ Sending(q)' = Sending(q)
    BY <2>1 DEF Marking, Sending
  <2>3. QED
    BY <1>1, <2>1, <2>2, QuietBudget
<1>5. CASE Crash(w)
  <2>1. task'[w][q] = "none" /\ faults' = faults + 1
    BY <1>5 DEF Crash, Fault, TypeOK
  <2>2. Marking(q)' = Marking(q) \ {w} /\ Sending(q)' = Sending(q) \ {w}
    BY <1>2, <2>1 DEF Marking, Sending
  <2>3. QED
    BY <1>1, <2>1, <2>2, FaultBudget
<1>6. QED
  BY <1>3, <1>4, <1>5

LEMMA NextDInv == DInv /\ [Next]_vars => DInv'
<1> SUFFICES ASSUME DInv, [Next]_vars PROVE DInv'
  OBVIOUS
<1>1. IInv'
  BY NextIInv DEF DInv
<1>2. DeletedPublished' /\ IdleSettled'
  BY DeletedStep, IdleStep
<1>3. ASSUME NEW q \in Row PROVE Budget(q)'
  <2>1. TypeOK /\ TypeOK' /\ Budget(q)
    BY <1>1 DEF DInv, IInv
  <2>2. ASSUME UNCHANGED <<log, task, faults>>,
               outbox'[q].published = outbox[q].published
        PROVE  Budget(q)'
    <3>1. Marking(q)' = Marking(q) /\ Sending(q)' = Sending(q)
      BY <2>2 DEF Marking, Sending
    <3>2. faults' >= faults
      BY <2>1, <2>2, OutboxAssumption DEF TypeOK
    <3>3. QED
      BY <2>1, <2>2, <3>1, <3>2, QuietBudget
  <2>3. ASSUME NEW r \in Row, Save(r) PROVE Budget(q)'
    <3>1. ~outbox'[r].published /\ \A o \in Row : o # r => outbox'[o] = outbox[o]
      BY <2>1, <2>3, SaveFacts
    <3>2. ~outbox[r].published
      BY <2>1, <2>3, SaveFacts DEF DInv, IInv, FreshRows
    <3>3. outbox[r].published \in BOOLEAN /\ outbox'[r].published \in BOOLEAN
      BY <2>1 DEF TypeOK, Entry
    <3>4. outbox'[q].published = outbox[q].published
      BY <3>1, <3>2, <3>3
    <3>5. QED
      BY <2>2, <2>3, <3>4 DEF Save
  <2>4. CASE DeleteOldPublishedEvents
    <3>1. outbox'[q].published = outbox[q].published
      BY <2>1, <2>4, CleanupFacts
    <3>2. QED
      BY <2>2, <2>4, <3>1 DEF DeleteOldPublishedEvents
  <2>5. ASSUME NEW w \in Worker, WorkerStep(w) PROVE Budget(q)'
    BY <2>1, <2>5, TaskBudget, JobBudget DEF WorkerStep
  <2>6. CASE UNCHANGED vars
    BY <2>2, <2>6 DEF vars
  <2>7. QED
    BY <2>3, <2>4, <2>5, <2>6 DEF Next, ProcessorNext
<1>4. QED
  BY <1>1, <1>2, <1>3 DEF DInv

\* At most one copy per worker and one per fault: with a single worker and no
\* fault, exactly-once sending.
THEOREM DuplicatesHaveReasons == Spec => []DuplicatesBounded
<1>1. DInv => DuplicatesBounded
  <2> SUFFICES ASSUME DInv, NEW r \in Row
               PROVE  log[r] <= Cardinality(Worker) + faults
    BY DEF DuplicatesBounded
  <2>1. log[r] \in Nat /\ faults \in Nat /\ Budget(r)
    BY OutboxAssumption DEF DInv, IInv, TypeOK
  <2>2. QED
    BY <2>1, Sizes DEF Budget
<1>2. Spec => []DInv
  BY InitDInv, NextDInv, PTL DEF Spec
<1>3. QED
  BY <1>1, <1>2, PTL

-----------------------------------------------------------------------------
(* Batches. *)

Created(r) == outbox[r].stage # "unused"

\* No worker takes a poisoned row for sent, and so none is ever published.
PoisonStays ==
  \A r \in Row \ HealthyRow :
    ~outbox[r].published /\ \A w \in Worker : task[w][r] # "marking"

CInv == DInv /\ PoisonStays

LEMMA PoisonStep ==
  ASSUME IInv, PoisonStays, [Next]_vars
  PROVE  PoisonStays'
<1> SUFFICES ASSUME NEW q \in Row \ HealthyRow
             PROVE  ~outbox'[q].published /\ \A v \in Worker : task'[v][q] # "marking"
  BY DEF PoisonStays, HealthyRow
<1> USE DEF IInv
<1>1. EventOf(q) \in Poison /\ q \in Row
  BY DEF HealthyRow
<1>2. ~outbox[q].published /\ \A v \in Worker : task[v][q] # "marking"
  BY DEF PoisonStays
<1>3. ASSUME NEW r \in Row, Save(r)
      PROVE  ~outbox'[q].published /\ UNCHANGED task
  BY <1>1, <1>2, <1>3, SaveFacts DEF Save
<1>4. CASE DeleteOldPublishedEvents
  <2>1. outbox'[q].published = outbox[q].published
    BY <1>1, <1>4, CleanupFacts
  <2>2. QED
    BY <1>2, <1>4, <2>1 DEF DeleteOldPublishedEvents
<1>5. ASSUME NEW w \in Worker, Poll(w) \/ PollFails(w) \/ Finish(w) \/ Crash(w)
      PROVE  ~outbox'[q].published /\ \A v \in Worker : task'[v][q] # "marking"
  BY <1>1, <1>2, <1>5, JobTasks DEF Poll, PollFails, Finish, Crash
<1>6. ASSUME NEW w \in Worker, NEW r \in Row, TaskStep(w, r)
      PROVE  ~outbox'[q].published /\ \A v \in Worker : task'[v][q] # "marking"
  <2>1. /\ \/ outbox' = outbox
           \/ r # q /\ outbox' = WithMarkAsPublished(r)
           \/ outbox' = WithFailure(w, r)
        /\ \E pc \in Settled \union Pending : Goto(w, r, pc) /\ (pc = "marking" => r # q)
    BY <1>1, <1>2, <1>6 DEF TaskStep, Send, SendRefused, SendFails, Mark, MarkFails,
         ReadEntry, WriteEntry, RecordFailureFails, CatchBlock, Settled, Pending
  <2>2. ~outbox'[q].published
    BY <1>1, <1>2, <2>1, MarkFacts, FailureFacts
  <2>3. PICK pc \in Settled \union Pending : Goto(w, r, pc) /\ (pc = "marking" => r # q)
    BY <2>1
  <2>4. /\ task'[w][r] = pc
        /\ \A u \in Worker, p \in Row : u # w \/ p # r => task'[u][p] = task[u][p]
    BY <2>3, GotoFacts
  <2>5. QED
    BY <1>1, <1>2, <2>2, <2>3, <2>4
<1>7. CASE UNCHANGED vars
  BY <1>2, <1>7 DEF vars
<1>8. QED
  BY <1>2, <1>3, <1>4, <1>5, <1>6, <1>7 DEF Next, ProcessorNext, WorkerStep

LEMMA CountingInvariance == Spec => []CInv
<1>1. Init => PoisonStays
  BY DEF Init, PoisonStays
<1>2. CInv /\ [Next]_vars => CInv'
  BY NextDInv, PoisonStep DEF CInv, DInv
<1>3. QED
  BY <1>1, <1>2, InitDInv, PTL DEF Spec, CInv

\* Only a save creates a row, and nothing changes when one was created.
LEMMA RowsKept ==
  ASSUME TypeOK, [Next]_vars, NEW q \in Row
  PROVE  /\ Created(q) => /\ outbox'[q].createdAt = outbox[q].createdAt
                          /\ outbox'[q].stage \in {outbox[q].stage, "deleted"}
         /\ ~Created(q) /\ Created(q)' => ~outbox'[q].published /\ Stored(q)'
<1>1. CASE UNCHANGED outbox
  BY <1>1 DEF Created
<1>2. CASE DeleteOldPublishedEvents
  BY <1>2, CleanupFacts DEF Created, Stored
<1>3. ASSUME NEW r \in Row, Save(r)
      PROVE  /\ Created(q) => outbox'[q] = outbox[q]
             /\ ~Created(q) /\ Created(q)' => ~outbox'[q].published /\ Stored(q)'
  <2>1. PICK t \in Stamp : outbox' = [outbox EXCEPT ![r] = NewEntry(t)]
    BY <1>3 DEF Save
  <2>2. ~Created(r)
    BY <1>3 DEF Save, Created
  <2>3. QED
    BY <2>1, <2>2 DEF Created, Stored, NewEntry, TypeOK
<1>4. ASSUME NEW w \in Worker, NEW r \in Row,
             outbox' = WithMarkAsPublished(r) \/ outbox' = WithFailure(w, r)
      PROVE  outbox'[q].createdAt = outbox[q].createdAt /\ outbox'[q].stage = outbox[q].stage
  <2>1. Bump(seen[w][r]) \in 0..MaxRetry
    BY BumpFacts DEF TypeOK
  <2>2. CASE outbox' = WithFailure(w, r)
    BY <2>1, <2>2 DEF WithFailure, TypeOK, Entry
  <2>3. CASE outbox' = WithMarkAsPublished(r)
    BY <2>3 DEF WithMarkAsPublished, TypeOK, Entry
  <2>4. QED
    BY <1>4, <2>2, <2>3
<1>5. ASSUME NEW w \in Worker, WorkerStep(w)
      PROVE  \/ UNCHANGED outbox
             \/ \E r \in Row : outbox' = WithMarkAsPublished(r) \/ outbox' = WithFailure(w, r)
  BY <1>5 DEF WorkerStep, TaskStep, Poll, PollFails, Finish, Crash, Send, SendRefused,
              SendFails, Mark, MarkFails, ReadEntry, WriteEntry, RecordFailureFails
<1>6. CASE \E w \in Worker : WorkerStep(w)
  BY <1>1, <1>4, <1>5, <1>6 DEF Created
<1>7. QED
  BY <1>1, <1>2, <1>3, <1>6 DEF Next, ProcessorNext, vars

\* A batch cannot hold a healthy row and all the rows that block it.
LEMMA NothingBehind ==
  ASSUME TypeOK, NEW B \in SUBSET Unpublished, Blocks(B), NEW Q \in FindUnpublished,
         NEW q \in HealthyRow
  PROVE  q \notin Q
<1> SUFFICES ASSUME q \in Q PROVE FALSE
  OBVIOUS
<1>1. /\ Q \subseteq Unpublished /\ IsFiniteSet(Q)
      /\ Cardinality(Q) = BatchLimit \/ Cardinality(Q) < BatchLimit
      /\ \A r \in Q, p \in Unpublished \ Q : outbox[r].createdAt <= outbox[p].createdAt
  BY DEF FindUnpublished, Oldest
<1>2. /\ B \subseteq Unpublished \ HealthyRow
      /\ Cardinality(B) = BatchLimit
      /\ \A r \in B, p \in Unpublished \cap HealthyRow : outbox[r].createdAt < outbox[p].createdAt
  BY DEF Blocks
<1>3. BatchLimit \in Nat
  BY OutboxAssumption
<1>4. q \notin B
  BY <1>2
<1>5. CASE B \subseteq Q
  <2>1. IsFiniteSet(B) /\ B \in SUBSET (Q \ {q})
    BY <1>1, <1>4, <1>5, FS_Subset
  <2>2. IsFiniteSet(Q \ {q}) /\ Cardinality(Q \ {q}) = Cardinality(Q) - 1
    BY <1>1, FS_RemoveElement
  <2>3. Cardinality(B) <= Cardinality(Q \ {q})
    BY <2>1, <2>2, FS_Subset
  <2>4. Cardinality(Q) \in Nat
    BY <1>1, FS_CardinalityType
  <2>5. QED
    BY <1>1, <1>2, <1>3, <2>2, <2>3, <2>4
<1>6. CASE \E r \in B : r \notin Q
  <2>1. PICK r \in B : r \in Unpublished \ Q
    BY <1>6
  <2>2. outbox[q].createdAt <= outbox[r].createdAt /\ outbox[r].createdAt < outbox[q].createdAt
    BY <1>1, <1>2, <2>1
  <2>3. outbox[q].createdAt \in Nat /\ outbox[r].createdAt \in Nat
    BY <2>1 DEF TypeOK, Entry, Unpublished, HealthyRow
  <2>4. QED
    BY <2>2, <2>3
<1>7. QED
  BY <1>5, <1>6

\* The blocking rows stay, as old as they were, and ahead of what was there.
LEMMA BlockStays ==
  ASSUME CInv, CInv', [Next]_vars, NEW B \in SUBSET Unpublished, Blocks(B)
  PROVE  Blocks(B)' \/ OldRowCommits(B)
<1> SUFFICES ASSUME ~OldRowCommits(B) PROVE Blocks(B)'
  OBVIOUS
<1> USE DEF CInv, DInv, IInv
<1>1. /\ B \subseteq Unpublished \ HealthyRow
      /\ Cardinality(B) = BatchLimit
      /\ \A r \in B, q \in Unpublished \cap HealthyRow : outbox[r].createdAt < outbox[q].createdAt
  BY DEF Blocks
<1>2. \A r \in B : r \in Row \ HealthyRow /\ Stored(r) /\ Created(r)
  BY <1>1 DEF Unpublished, Stored, Created
<1>3. ASSUME NEW r \in B
      PROVE  r \in Unpublished' /\ outbox'[r].createdAt = outbox[r].createdAt
  <2>1. ~outbox[r].published /\ ~outbox'[r].published
    BY <1>2 DEF PoisonStays, HealthyRow
  <2>2. outbox'[r].stage # "deleted"
    BY <1>2, <2>1, StepOnRow
  <2>3. outbox'[r].createdAt = outbox[r].createdAt /\ outbox'[r].stage = "stored"
    BY <1>2, <2>2, RowsKept DEF Stored
  <2>4. QED
    BY <1>2, <2>1, <2>3 DEF Unpublished, Stored
<1>4. ASSUME NEW r \in B, NEW q \in Unpublished' \cap HealthyRow
      PROVE  outbox'[r].createdAt < outbox'[q].createdAt
  <2>1. q \in Row /\ Stored(q)' /\ ~outbox'[q].published
    BY DEF Unpublished, HealthyRow
  <2>2. r \in Row
    BY <1>2
  <2>3. outbox[r].createdAt \in Nat /\ outbox'[q].createdAt \in Nat
    BY <2>1, <2>2 DEF TypeOK, Entry
  <2>4. CASE Created(q)
    <3>1. outbox'[q].createdAt = outbox[q].createdAt /\ outbox[q].stage \in {"stored", "deleted"}
      BY <2>1, <2>4, RowsKept DEF Created, TypeOK, Entry, Stage
    <3>2. outbox'[q].stage \in {outbox[q].stage, "deleted"}
      BY <2>1, <2>4, RowsKept
    <3>3. Stored(q)
      BY <2>1, <3>1, <3>2 DEF Stored
    <3>4. ~outbox[q].published
      BY <2>1, StepOnRow
    <3>5. q \in Unpublished
      BY <2>1, <3>3, <3>4 DEF Unpublished
    <3>6. QED
      BY <1>1, <1>3, <3>1, <3>5
  <2>5. CASE ~Created(q)
    <3>1. q \in HealthyRow \ Accepted
      BY <2>5 DEF Accepted, Created
    <3>2. ~(outbox'[q].createdAt <= outbox[r].createdAt)
      BY <2>1, <3>1 DEF OldRowCommits
    <3>3. QED
      BY <1>3, <2>3, <3>2
  <2>6. QED
    BY <2>4, <2>5
<1>5. B \subseteq Unpublished' \ HealthyRow
  BY <1>1, <1>3
<1>6. HealthyRow' = HealthyRow
  BY DEF HealthyRow
<1>7. QED
  BY <1>1, <1>4, <1>5, <1>6 DEF Blocks

\* A batch's worth of refused rows that are older than every healthy one keeps all
\* healthy rows out of every job, for any number of workers and any backlog, until a
\* healthy row of an older transaction appears.
THEOREM RefusedRowsAreInTheWay == Spec => RefusedRowsBlock
<1>1. ASSUME CInv, CInv', [Next]_vars, NEW B \in SUBSET Unpublished, Blocks(B)
      PROVE  /\ \A q \in HealthyRow : ~TakenUp(q)
             /\ Blocks(B)' \/ OldRowCommits(B)
  <2>1. ASSUME NEW q \in HealthyRow, TakenUp(q) PROVE FALSE
    <3>1. PICK w \in Worker : Poll(w) /\ task'[w][q] # "none"
      BY <2>1 DEF TakenUp
    <3>2. PICK Q \in FindUnpublished :
            task' = [task EXCEPT ![w] = [r \in Row |-> IF r \in Q THEN BatchTask ELSE "none"]]
      BY <3>1 DEF Poll
    <3>3. q \in Row
      BY DEF HealthyRow
    <3>4. q \in Q
      BY <1>1, <3>1, <3>2, <3>3 DEF CInv, DInv, IInv, TypeOK
    <3>5. QED
      BY <1>1, <3>4, NothingBehind DEF CInv, DInv, IInv
  <2>2. QED
    BY <1>1, <2>1, BlockStays
<1>2. CInv /\ CInv' /\ [Next]_vars =>
        [\A B \in SUBSET Unpublished : Blocks(B) =>
           /\ \A q \in HealthyRow : ~TakenUp(q)
           /\ Blocks(B)' \/ OldRowCommits(B)]_vars
  BY <1>1
<1>3. QED
  BY <1>2, CountingInvariance, PTL DEF Spec, RefusedRowsBlock

=============================================================================
