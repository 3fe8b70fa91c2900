------------------------------ MODULE Consumer ------------------------------
(***************************************************************************)
(* KafkaConsumerService reading one partition of a topic, across restarts  *)
(* of its process.                                                         *)
(*                                                                         *)
(* A handler is registered with subscribe.  onModuleInit connects and      *)
(* starts consuming if a handler is registered by then; nothing starts it  *)
(* later.  kafkajs hands over one message at a time and commits, now and   *)
(* then, the offset after the last message whose eachMessage returned.     *)
(* eachMessage catches what the handler throws.  A group that has no       *)
(* committed offset yet begins at the end of the log (fromBeginning is     *)
(* false).  Offsets are indices of the log: offset n is the next to read.  *)
(***************************************************************************)
EXTENDS Naturals

CONSTANTS
  MaxLog,         \* bound: messages in the partition
  MaxRestarts,    \* bound: starts of the process after the first
  NoOffset

ASSUME ConsumerAssumption ==
  MaxLog \in Nat /\ MaxRestarts \in Nat /\ NoOffset \notin Nat

VARIABLES
  appended,       \* length of the log
  committed,      \* the group's committed offset in the broker
  process,        \* "starting", "up", "consuming" or "down"
  subscribed,     \* a handler is registered for the topic
  position,       \* offset of the next message kafkajs hands over
  handling,       \* the handler runs on the message at position
  restarts,
  began,          \* the offset this run of the process began at
  origin,         \* history: where the run with the group's first commit began
  settled         \* history: messages whose handler ended, one way or the other

consumerVars == <<appended, committed, process, subscribed, position, handling,
                  restarts, began, origin, settled>>

-----------------------------------------------------------------------------
(* Variants with a bug, to show that the properties can fail. *)

\* eachMessage does not await the handler.
ResolvedUnawaited == IF handling THEN position + 1 ELSE position

\* A group without a committed offset is not given one to begin at.
FirstOffsetAsStored == committed

-----------------------------------------------------------------------------
\* The producer of module Outbox, or any other.
Produce ==
  /\ appended < MaxLog
  /\ appended' = appended + 1
  /\ UNCHANGED <<committed, process, subscribed, position, handling, restarts, began, origin, settled>>

\* subscribe, called by some module of the application; it may reject after the
\* handler was registered, which leaves the same state.
Subscribe ==
  /\ process \in {"starting", "up"}
  /\ ~subscribed
  /\ subscribed' = TRUE
  /\ UNCHANGED <<appended, committed, process, position, handling, restarts, began, origin, settled>>

FirstOffset == IF committed = NoOffset THEN appended ELSE committed

\* onModuleInit with a handler: connect, and run from the committed offset.
StartConsuming ==
  /\ process = "starting" /\ subscribed
  /\ process' = "consuming"
  /\ position' = FirstOffset
  /\ began' = FirstOffset
  /\ UNCHANGED <<appended, committed, subscribed, handling, restarts, origin, settled>>

\* onModuleInit without one, or with a connection that failed: the error is logged.
InitWithoutConsuming ==
  /\ process = "starting"
  /\ process' = "up"
  /\ UNCHANGED <<appended, committed, subscribed, position, handling, restarts, began, origin, settled>>

EachMessage ==
  /\ process = "consuming" /\ ~handling
  /\ position < appended
  /\ handling' = TRUE
  /\ UNCHANGED <<appended, committed, process, subscribed, position, restarts, began, origin, settled>>

\* The handler returns or throws; either way eachMessage returns.
HandlerEnds ==
  /\ process = "consuming" /\ handling
  /\ handling' = FALSE
  /\ settled' = settled \union {position}
  /\ position' = position + 1
  /\ UNCHANGED <<appended, committed, process, subscribed, restarts, began, origin>>

\* The offset after the last message whose eachMessage returned; eachMessage awaits
\* the handler.
Resolved == position

\* Only offsets of messages that were handed over in this run are committed.
Commit ==
  /\ process = "consuming"
  /\ began < Resolved
  /\ committed' = Resolved
  /\ origin' = IF committed = NoOffset THEN began ELSE origin
  /\ UNCHANGED <<appended, process, subscribed, position, handling, restarts, began, settled>>

\* onModuleDestroy, or the process dies: what was not committed is read again.
Stop ==
  /\ process # "down"
  /\ process' = "down"
  /\ handling' = FALSE
  /\ subscribed' = FALSE
  /\ UNCHANGED <<appended, committed, position, restarts, began, origin, settled>>

Restart ==
  /\ process = "down"
  /\ restarts < MaxRestarts
  /\ restarts' = restarts + 1
  /\ process' = "starting"
  /\ UNCHANGED <<appended, committed, subscribed, position, handling, began, origin, settled>>

-----------------------------------------------------------------------------
ConsumerInit ==
  /\ appended = 0
  /\ committed = NoOffset
  /\ process = "starting"
  /\ subscribed = FALSE
  /\ position = 0
  /\ handling = FALSE
  /\ restarts = 0
  /\ began = 0
  /\ origin = 0
  /\ settled = {}

ConsumerStep ==
  \/ Produce \/ Subscribe \/ StartConsuming \/ InitWithoutConsuming
  \/ EachMessage \/ HandlerEnds \/ Commit \/ Stop \/ Restart

ConsumerSpec == ConsumerInit /\ [][ConsumerStep]_consumerVars

-----------------------------------------------------------------------------
(* Properties *)

ConsumerTypeOK ==
  /\ appended \in 0..MaxLog
  /\ committed \in 0..MaxLog \union {NoOffset}
  /\ process \in {"starting", "up", "consuming", "down"}
  /\ subscribed \in BOOLEAN /\ handling \in BOOLEAN
  /\ position \in 0..MaxLog
  /\ restarts \in 0..MaxRestarts
  /\ began \in 0..MaxLog /\ origin \in 0..MaxLog
  /\ settled \in SUBSET (0..MaxLog)

\* Once the group has committed, no crash, restart or late registration skips a
\* message: everything from where that run began up to the committed offset was
\* given to the handler, and the handler ended.
CommittedAreSettled ==
  committed # NoOffset => \A m \in origin..(committed - 1) : m \in settled

=============================================================================
