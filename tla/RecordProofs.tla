----------------------------- MODULE RecordProofs -----------------------------
(***************************************************************************)
(* Theorems about the parts that stand by themselves, for every value of   *)
(* their constants: the notification senders, the Kafka consumer over      *)
(* restarts, and the uploads; and about MCRecords, where they run side by  *)
(* side with conversations, rooms, posts and discussions: the composition  *)
(* keeps every part's invariant, and its behaviours are behaviours of each *)
(* part.                                                                   *)
(***************************************************************************)
EXTENDS MCRecords, RoomProofs, PostProofs, FiniteSetTheorems

-----------------------------------------------------------------------------
(* Conversations *)

LEMMA OneChanged ==
  ASSUME NEW m \in Seq(Message), NEW i \in DOMAIN m, NEW x \in Message
  PROVE  [m EXCEPT ![i] = x] \in Seq(Message)
OBVIOUS

LEMMA MessagesStay ==
  ASSUME messages \in Seq(Message), [ConversationStep]_conversationVars
  PROVE  messages' \in Seq(Message)
<1>1. ASSUME NEW i \in 1..MaxMessages, MarkAsRead(i) PROVE messages' \in Seq(Message)
  <2> DEFINE x == [messages[i] EXCEPT !.isRead = TRUE]
  <2>1. i \in DOMAIN messages /\ messages' = [messages EXCEPT ![i] = x]
    BY <1>1 DEF MarkAsRead
  <2>2. messages[i] \in Message
    BY <2>1
  <2>3. x \in Message
    BY <2>2 DEF Message
  <2> HIDE DEF x
  <2> QED BY <2>1, <2>3, OneChanged
<1>2. ASSUME NEW i \in 1..MaxMessages, NEW text \in Text, Edit(i, text)
      PROVE  messages' \in Seq(Message)
  <2> DEFINE x == [messages[i] EXCEPT !.isEdited = TRUE]
  <2>1. i \in DOMAIN messages /\ messages' = [messages EXCEPT ![i] = x]
    BY <1>2 DEF Edit
  <2>2. messages[i] \in Message
    BY <2>1
  <2>3. x \in Message
    BY <2>2 DEF Message
  <2> HIDE DEF x
  <2> QED BY <2>1, <2>3, OneChanged
<1>3. ASSUME NEW u \in Participant, NEW text \in Text, AddMessage(u, text)
      PROVE  messages' \in Seq(Message)
  <2>1. NewMessage(u) \in Message
    BY DEF NewMessage, Message
  <2> QED BY <1>3, <2>1 DEF AddMessage
<1>4. CASE messages' = messages \/ messages' = <<>>
  <2>1. <<>> \in Seq(Message)
    OBVIOUS
  <2> QED BY <1>4, <2>1
<1> QED BY <1>1, <1>2, <1>3, <1>4 DEF ConversationStep, conversationVars, CreateConversation,
       From, AddParticipant, RemoveParticipant, Archive, Reactivate, SetActive

LEMMA PeopleStep ==
  ASSUME conversation \in Aggregate \union {NoConversation}, [ConversationStep]_conversationVars
  PROVE  conversation' \in Aggregate \union {NoConversation}
<1>1. ASSUME NEW type \in Kind, NEW by \in Participant, NEW ids \in Lists,
             CreateConversation(type, by, ids)
      PROVE  conversation' \in Aggregate
  <2>1. PICK n \in 0..MaxListed : ids \in [1..n -> Participant]
    BY DEF Lists
  <2>2. {ids[i] : i \in DOMAIN ids} \union {by} \in SUBSET Participant
    BY <2>1
  <2> QED BY <1>1, <2>2 DEF CreateConversation, Aggregate
<1>2. ASSUME NEW u \in Participant, NEW by \in Participant,
             AddParticipant(u, by) \/ RemoveParticipant(u, by)
      PROVE  conversation' \in Aggregate
  BY <1>2 DEF AddParticipant, RemoveParticipant, Exists, Aggregate
<1>3. ASSUME NEW by \in Participant, Archive(by) \/ Reactivate(by)
      PROVE  conversation' \in Aggregate
  BY <1>3 DEF Archive, Reactivate, SetActive, Exists, Aggregate
<1>4. CASE UNCHANGED conversation
  BY <1>4
<1> QED BY <1>1, <1>2, <1>3, <1>4 DEF ConversationStep, conversationVars, From, MarkAsRead,
       Edit, AddMessage

LEMMA ConversationKeeps ==
  ASSUME ConversationTypeOK, [ConversationStep]_conversationVars
  PROVE  ConversationTypeOK'
BY PeopleStep, MessagesStay DEF ConversationTypeOK

-----------------------------------------------------------------------------
(* Notifications.  A row once stored stays a row until it is deleted, and a deleted
   one is never stored again; both invariants hold together. *)

Marks ==
  /\ notifications \in [Notification -> NotificationRow \union {NoNotificationRow}]
  /\ sender \in [Sender -> [pc : {"rest", "holds", "marked"},
                            id : Notification \union {NoNotification}]]
  /\ \A s \in Sender : sender[s].pc = "holds" => sender[s].id \in Notification
  /\ gone \in SUBSET Notification /\ delivered \in SUBSET Notification
  /\ \A n \in delivered : Present(n) \/ n \in gone
  /\ MarksAgree
  /\ DeletedNotificationsStayDeleted

\* One step of any sender, of the use case or of a deletion keeps them.
LEMMA MarksStep ==
  ASSUME Marks, NotificationStep
  PROVE  Marks'
<1> USE NotificationAssumption DEF NotificationAssumption
<1>1. ASSUME NEW n \in Notification, SendNotification(n)
      PROVE  Marks'
  <2>1. /\ NewNotification \in NotificationRow
        /\ NewNotification.status = "pending"
        /\ NewNotification.sentAt = FALSE /\ NewNotification.error = FALSE
    BY DEF NewNotification, NotificationRow
  <2>2. n \notin delivered /\ n \notin gone
    BY <1>1 DEF SendNotification, Marks
  <2>3. /\ notifications' = [notifications EXCEPT ![n] = NewNotification]
        /\ UNCHANGED <<sender, gone, delivered>>
    BY <1>1 DEF SendNotification
  <2>4. /\ notifications' \in [Notification -> NotificationRow \union {NoNotificationRow}]
        /\ \A m \in Notification \ {n} : notifications'[m] = notifications[m]
        /\ notifications'[n] = NewNotification /\ NewNotification # NoNotificationRow
    BY <2>1, <2>3 DEF Marks
  <2>5. MarksAgree'
    <3> SUFFICES ASSUME NEW m \in Notification, Present(m)'
                 PROVE  /\ notifications'[m].status = "sent" => notifications'[m].sentAt
                        /\ notifications'[m].status = "failed" => notifications'[m].error
                        /\ notifications'[m].status = "pending" =>
                             ~notifications'[m].sentAt /\ ~notifications'[m].error
                        /\ notifications'[m].sentAt = (m \in delivered')
      BY DEF MarksAgree
    <3>1. CASE m = n
      <4>1. (m \in delivered') = FALSE
        BY <2>2, <2>3, <3>1
      <4>2. notifications'[m] = NewNotification
        BY <2>4, <3>1
      <4> QED BY <2>1, <4>1, <4>2
    <3>2. CASE m # n
      BY <2>3, <2>4, <3>2 DEF Marks, MarksAgree, Present
    <3> QED BY <3>1, <3>2
  <2>6. DeletedNotificationsStayDeleted'
    BY <2>2, <2>3, <2>4 DEF Marks, DeletedNotificationsStayDeleted, Present
  <2> QED BY <2>3, <2>4, <2>5, <2>6 DEF Marks, Present
<1>2. ASSUME NEW n \in Notification, Delete(n)
      PROVE  Marks'
  BY <1>2 DEF Delete, Marks, MarksAgree, DeletedNotificationsStayDeleted, Present
<1>3. ASSUME NEW s \in Sender, NEW n \in Notification, Take(s, n)
      PROVE  Marks'
  BY <1>3 DEF Take, SetSender, Marks, MarksAgree, DeletedNotificationsStayDeleted, Present
<1>4. ASSUME NEW s \in Sender, MarkAsSent(s)
      PROVE  Marks'
  <2> DEFINE n == sender[s].id
  <2>1. n \in Notification
    BY <1>4 DEF Marks, MarkAsSent
  <2>2. CASE ~Present(n)
    <3>1. /\ UNCHANGED <<notifications, delivered, gone>>
          /\ sender' = [sender EXCEPT ![s] = [pc |-> "marked", id |-> sender[s].id]]
      BY <1>4, <2>2 DEF MarkAsSent, Updated, SetSender
    <3>2. MarksAgree' /\ DeletedNotificationsStayDeleted'
      BY <3>1 DEF Marks, MarksAgree, DeletedNotificationsStayDeleted, Present
    <3>3. /\ sender' \in [Sender -> [pc : {"rest", "holds", "marked"},
                                     id : Notification \union {NoNotification}]]
          /\ \A o \in Sender : sender'[o].pc = "holds" => sender'[o].id \in Notification
      BY <2>1, <3>1 DEF Marks
    <3> QED BY <3>1, <3>2, <3>3 DEF Marks, Present
  <2>3. CASE Present(n)
    <3>1. notifications[n] \in NotificationRow
      BY <2>1, <2>3 DEF Marks, Present
    <3>2. /\ SentColumns(notifications[n]) \in NotificationRow
          /\ SentColumns(notifications[n]).status = "sent"
          /\ SentColumns(notifications[n]).sentAt = TRUE
      BY <3>1 DEF SentColumns, NotificationRow
    <3>3. /\ notifications' = [notifications EXCEPT ![n] = SentColumns(notifications[n])]
          /\ delivered' = delivered \union {n} /\ gone' = gone
          /\ sender' = [sender EXCEPT ![s] = [pc |-> "marked", id |-> n]]
      BY <1>4, <2>3 DEF MarkAsSent, Updated, Current, SetSender
    <3>4. /\ \A m \in Notification \ {n} : notifications'[m] = notifications[m]
          /\ notifications'[n] = SentColumns(notifications[n])
          /\ notifications' \in [Notification -> NotificationRow \union {NoNotificationRow}]
          /\ Present(n)'
      BY <2>1, <3>2, <3>3 DEF Marks, Present
    <3>5. MarksAgree'
      <4> SUFFICES ASSUME NEW m \in Notification, Present(m)'
                   PROVE  /\ notifications'[m].status = "sent" => notifications'[m].sentAt
                          /\ notifications'[m].status = "failed" => notifications'[m].error
                          /\ notifications'[m].status = "pending" =>
                               ~notifications'[m].sentAt /\ ~notifications'[m].error
                          /\ notifications'[m].sentAt = (m \in delivered')
        BY DEF MarksAgree
      <4>1. CASE m = n
        <5>1. notifications'[m] = SentColumns(notifications[n])
          BY <3>4, <4>1
        <5>2. (m \in delivered') = TRUE
          BY <3>3, <4>1
        <5> QED BY <3>2, <5>1, <5>2
      <4>2. CASE m # n
        <5>1. (m \in delivered') = (m \in delivered)
          BY <3>3, <4>2
        <5>2. notifications'[m] = notifications[m] /\ Present(m)
          BY <3>4, <4>2 DEF Present
        <5> QED BY <5>1, <5>2 DEF Marks, MarksAgree
      <4> QED BY <4>1, <4>2
    <3>6. DeletedNotificationsStayDeleted'
      BY <2>1, <2>3, <3>3, <3>4 DEF Marks, DeletedNotificationsStayDeleted, Present
    <3>7. /\ sender' \in [Sender -> [pc : {"rest", "holds", "marked"},
                                     id : Notification \union {NoNotification}]]
          /\ \A o \in Sender : sender'[o].pc = "holds" => sender'[o].id \in Notification
      BY <2>1, <3>3 DEF Marks
    <3> QED BY <2>1, <3>3, <3>4, <3>5, <3>6, <3>7 DEF Marks, Present
  <2> QED BY <2>2, <2>3
<1>5. ASSUME NEW s \in Sender, MarkAsFailed(s)
      PROVE  Marks'
  <2> DEFINE n == sender[s].id
  <2>1. n \in Notification
    BY <1>5 DEF Marks, MarkAsFailed
  <2>2. CASE ~Present(n)
    <3>1. /\ UNCHANGED <<notifications, delivered, gone>>
          /\ sender' = [sender EXCEPT ![s] = [pc |-> "marked", id |-> sender[s].id]]
      BY <1>5, <2>2 DEF MarkAsFailed, Updated, SetSender
    <3>2. MarksAgree' /\ DeletedNotificationsStayDeleted'
      BY <3>1 DEF Marks, MarksAgree, DeletedNotificationsStayDeleted, Present
    <3>3. /\ sender' \in [Sender -> [pc : {"rest", "holds", "marked"},
                                     id : Notification \union {NoNotification}]]
          /\ \A o \in Sender : sender'[o].pc = "holds" => sender'[o].id \in Notification
      BY <2>1, <3>1 DEF Marks
    <3> QED BY <3>1, <3>2, <3>3 DEF Marks, Present
  <2>3. CASE Present(n)
    <3>1. notifications[n] \in NotificationRow
      BY <2>1, <2>3 DEF Marks, Present
    <3>2. /\ FailedColumns(notifications[n]) \in NotificationRow
          /\ FailedColumns(notifications[n]).status = "failed"
          /\ FailedColumns(notifications[n]).error = TRUE
          /\ FailedColumns(notifications[n]).sentAt = notifications[n].sentAt
      BY <3>1 DEF FailedColumns, NotificationRow
    <3>3. /\ notifications' = [notifications EXCEPT ![n] = FailedColumns(notifications[n])]
          /\ delivered' = delivered /\ gone' = gone
          /\ sender' = [sender EXCEPT ![s] = [pc |-> "marked", id |-> n]]
      BY <1>5, <2>3 DEF MarkAsFailed, Updated, Current, SetSender
    <3>4. /\ \A m \in Notification \ {n} : notifications'[m] = notifications[m]
          /\ notifications'[n] = FailedColumns(notifications[n])
          /\ notifications' \in [Notification -> NotificationRow \union {NoNotificationRow}]
          /\ Present(n)'
      BY <2>1, <3>2, <3>3 DEF Marks, Present
    <3>5. MarksAgree'
      <4> SUFFICES ASSUME NEW m \in Notification, Present(m)'
                   PROVE  /\ notifications'[m].status = "sent" => notifications'[m].sentAt
                          /\ notifications'[m].status = "failed" => notifications'[m].error
                          /\ notifications'[m].status = "pending" =>
                               ~notifications'[m].sentAt /\ ~notifications'[m].error
                          /\ notifications'[m].sentAt = (m \in delivered')
        BY DEF MarksAgree
      <4>1. CASE m = n
        <5>1. notifications'[m] = FailedColumns(notifications[n])
          BY <3>4, <4>1
        <5>2. notifications[n].sentAt = (m \in delivered')
          BY <2>1, <2>3, <3>3, <4>1 DEF Marks, MarksAgree
        <5> QED BY <3>2, <5>1, <5>2
      <4>2. CASE m # n
        <5>1. (m \in delivered') = (m \in delivered)
          BY <3>3, <4>2
        <5>2. notifications'[m] = notifications[m] /\ Present(m)
          BY <3>4, <4>2 DEF Present
        <5> QED BY <5>1, <5>2 DEF Marks, MarksAgree
      <4> QED BY <4>1, <4>2
    <3>6. DeletedNotificationsStayDeleted'
      BY <2>1, <2>3, <3>3, <3>4 DEF Marks, DeletedNotificationsStayDeleted, Present
    <3>7. /\ sender' \in [Sender -> [pc : {"rest", "holds", "marked"},
                                     id : Notification \union {NoNotification}]]
          /\ \A o \in Sender : sender'[o].pc = "holds" => sender'[o].id \in Notification
      BY <2>1, <3>3 DEF Marks
    <3> QED BY <2>1, <3>3, <3>4, <3>5, <3>6, <3>7 DEF Marks, Present
  <2> QED BY <2>2, <2>3
<1>6. ASSUME NEW s \in Sender, FindMarked(s)
      PROVE  Marks'
  BY <1>6 DEF FindMarked, AtRest, Marks, MarksAgree, DeletedNotificationsStayDeleted, Present
<1> QED BY <1>1, <1>2, <1>3, <1>4, <1>5, <1>6 DEF NotificationStep

LEMMA InitMarks == NotificationInit => Marks
BY DEF NotificationInit, Marks, MarksAgree, DeletedNotificationsStayDeleted, Present, AtRest

LEMMA MarksKept == Marks /\ [NotificationStep]_notificationVars => Marks'
<1>1. Marks /\ UNCHANGED notificationVars => Marks'
  BY DEF notificationVars, Marks, MarksAgree, DeletedNotificationsStayDeleted, Present
<1> QED BY <1>1, MarksStep

\* They hold in every state.
LEMMA MarksAlways == NotificationSpec => []Marks
BY InitMarks, MarksKept, PTL DEF NotificationSpec

\* However many senders mark at the same time, status, time and reason agree.
THEOREM ColumnsAgree == NotificationSpec => []MarksAgree
<1>1. Marks => MarksAgree
  BY DEF Marks
<1> QED BY <1>1, MarksAlways, PTL

\* No mark brings a deleted notification back.
THEOREM DeletedStayDeleted == NotificationSpec => []DeletedNotificationsStayDeleted
<1>1. Marks => DeletedNotificationsStayDeleted
  BY DEF Marks
<1> QED BY <1>1, MarksAlways, PTL

-----------------------------------------------------------------------------
(* The consumer.  Within a run, everything from its beginning up to its position is
   settled, and what is committed lies between the two; runs then join without a gap. *)

Progress ==
  /\ appended \in Nat /\ position \in Nat /\ began \in Nat /\ origin \in Nat
  /\ committed \in Nat \union {NoOffset}
  /\ CommittedAreSettled
  /\ process = "consuming" =>
       /\ began <= position
       /\ \A m \in began..(position - 1) : m \in settled
       /\ committed # NoOffset => began <= committed /\ committed <= position

\* No step of the consumer, its process or the producer breaks it.
LEMMA ProgressStep ==
  ASSUME Progress, ConsumerStep
  PROVE  Progress'
<1> USE ConsumerAssumption DEF ConsumerAssumption
<1>1. CASE Produce \/ Subscribe \/ InitWithoutConsuming \/ EachMessage \/ Stop \/ Restart
  <2>1. /\ UNCHANGED <<committed, position, began, origin, settled>>
        /\ appended' \in Nat
        /\ process' = "consuming" => process = "consuming"
    BY <1>1 DEF Produce, Subscribe, InitWithoutConsuming, EachMessage, Stop, Restart, Progress
  <2> QED BY <2>1 DEF Progress, CommittedAreSettled
<1>2. CASE StartConsuming
  <2>1. FirstOffset \in Nat /\ (committed # NoOffset => FirstOffset = committed)
    BY DEF FirstOffset, Progress
  <2>2. /\ position' = FirstOffset /\ began' = FirstOffset
        /\ UNCHANGED <<appended, committed, origin, settled>>
    BY <1>2 DEF StartConsuming
  <2> QED BY <2>1, <2>2 DEF Progress, CommittedAreSettled
<1>3. CASE HandlerEnds
  <2>1. /\ position' = position + 1 /\ settled' = settled \union {position}
        /\ process = "consuming" /\ process' = process
        /\ UNCHANGED <<appended, committed, began, origin>>
    BY <1>3 DEF HandlerEnds
  <2> QED BY <2>1 DEF Progress, CommittedAreSettled
<1>4. CASE Commit
  <2>1. /\ process = "consuming" /\ process' = process
        /\ committed' = position /\ began < position
        /\ origin' = IF committed = NoOffset THEN began ELSE origin
        /\ UNCHANGED <<appended, position, began, settled>>
    BY <1>4 DEF Commit, Resolved
  <2>2. CASE committed = NoOffset
    BY <2>1, <2>2 DEF Progress, CommittedAreSettled
  <2>3. CASE committed # NoOffset
    <3>1. \A m \in origin..(position - 1) :
            m \in origin..(committed - 1) \/ m \in began..(position - 1)
      BY <2>1, <2>3 DEF Progress
    <3> QED BY <2>1, <2>3, <3>1 DEF Progress, CommittedAreSettled
  <2> QED BY <2>2, <2>3
<1> QED BY <1>1, <1>2, <1>3, <1>4 DEF ConsumerStep

\* What has a bound keeps it: no position, and no committed offset, is beyond the log.
Offsets ==
  /\ appended \in 0..MaxLog
  /\ committed \in 0..appended \union {NoOffset}
  /\ position \in 0..appended /\ began \in 0..appended /\ origin \in 0..appended
  /\ settled \in SUBSET (0..appended)
  /\ process \in {"starting", "up", "consuming", "down"}
  /\ subscribed \in BOOLEAN /\ handling \in BOOLEAN
  /\ handling => process = "consuming" /\ position < appended
  /\ restarts \in 0..MaxRestarts

LEMMA OffsetsStep ==
  ASSUME Offsets, [ConsumerStep]_consumerVars
  PROVE  Offsets'
<1> USE ConsumerAssumption DEF ConsumerAssumption
<1>1. CASE Produce
  BY <1>1 DEF Produce, Offsets
<1>2. CASE Subscribe \/ InitWithoutConsuming \/ EachMessage \/ Stop \/ Restart
  <2>1. UNCHANGED <<appended, committed, position, began, origin, settled>>
    BY <1>2 DEF Subscribe, InitWithoutConsuming, EachMessage, Stop, Restart
  <2>2. /\ process' \in {"starting", "up", "consuming", "down"}
        /\ subscribed' \in BOOLEAN /\ handling' \in BOOLEAN
    BY <1>2 DEF Subscribe, InitWithoutConsuming, EachMessage, Stop, Restart, Offsets
  <2>4. handling' => process' = "consuming" /\ position < appended
    <3>1. CASE EachMessage
      BY <3>1 DEF EachMessage
    <3>2. CASE Stop
      BY <3>2 DEF Stop
    <3>3. CASE Subscribe \/ InitWithoutConsuming \/ Restart
      <4>1. handling => process = "consuming" /\ position < appended
        BY DEF Offsets
      <4>2. UNCHANGED handling /\ (process = "consuming" => UNCHANGED process)
        BY <3>3 DEF Subscribe, InitWithoutConsuming, Restart
      <4> QED BY <4>1, <4>2
    <3> QED BY <1>2, <3>1, <3>2, <3>3
  <2>3. restarts' \in 0..MaxRestarts
    BY <1>2 DEF Subscribe, InitWithoutConsuming, EachMessage, Stop, Restart, Offsets
  <2> QED BY <2>1, <2>2, <2>3, <2>4 DEF Offsets
<1>3. CASE StartConsuming
  <2>1. FirstOffset \in 0..appended
    BY DEF FirstOffset, Offsets
  <2>2. ~handling
    BY <1>3 DEF StartConsuming, Offsets
  <2> QED BY <1>3, <2>1, <2>2 DEF StartConsuming, Offsets
<1>4. CASE HandlerEnds
  <2>1. /\ position < appended /\ appended \in Nat /\ position \in Nat
        /\ handling' = FALSE
        /\ position' = position + 1 /\ settled' = settled \union {position}
        /\ UNCHANGED <<appended, committed, process, subscribed, restarts, began, origin>>
    BY <1>4 DEF HandlerEnds, Offsets
  <2>2. position' \in 0..appended' /\ settled' \in SUBSET (0..appended')
    BY <2>1 DEF Offsets
  <2> QED BY <2>1, <2>2 DEF Offsets
<1>5. CASE Commit
  BY <1>5 DEF Commit, Resolved, Offsets
<1>6. CASE UNCHANGED consumerVars
  BY <1>6 DEF consumerVars, Offsets
<1> QED BY <1>1, <1>2, <1>3, <1>4, <1>5, <1>6 DEF ConsumerStep

LEMMA InitConsumer == ConsumerInit => Progress /\ Offsets
<1> SUFFICES ASSUME ConsumerInit PROVE Progress /\ Offsets
  OBVIOUS
<1>1. Progress
  BY DEF ConsumerInit, Progress, CommittedAreSettled
<1>2. 0 \in 0..0 /\ 0 \in 0..MaxLog /\ 0 \in 0..MaxRestarts
  BY ConsumerAssumption
<1>3. Offsets
  BY <1>2 DEF ConsumerInit, Offsets
<1> QED BY <1>1, <1>3

LEMMA ConsumerKeeps ==
  Progress /\ Offsets /\ [ConsumerStep]_consumerVars => Progress' /\ Offsets'
<1>1. Progress /\ UNCHANGED consumerVars => Progress'
  BY DEF consumerVars, Progress, CommittedAreSettled
<1> QED BY <1>1, ProgressStep, OffsetsStep

\* Once the group has committed, no message is skipped, whatever crashes, restarts and
\* late registrations come: a handler has ended for each one up to the committed offset.
THEOREM NoMessageSkipped == ConsumerSpec => []CommittedAreSettled
<1>1. Progress => CommittedAreSettled
  BY DEF Progress
<1> QED BY <1>1, InitConsumer, ConsumerKeeps, PTL DEF ConsumerSpec

-----------------------------------------------------------------------------
(* Uploads.  That nothing whole is written again rests on every key being  *)
(* one request's alone, and on what the object under it is at each await.  *)

UploadRecord ==
  [pc : {"idle", "store", "writing", "written", "describing", "sign", "stored"},
   key : Key \union {NoKey}, file : File \union {NoFile},
   by : [userId : Uploader] \union {NoKey}]

\* What there may be under a key: an object, and whatever is beside it, or nothing.
UploadStates == {"writing", "written", "describing", "sign", "stored"}
Objects == [Key -> [file : File, part : {"cut", "whole"}] \union {Nothing}]
Sidecars == [Key -> {"none", "cut", "whole"}]
Beside(table, beside) == \A k \in Key : beside[k] # "none" => table[k].part = "whole"

\* What a request knows of the object under its key, and of the sidecar.
KnowsObject(r, table, beside) ==
  /\ r.pc # "idle" => r.key \in Key /\ r.file \in File
  /\ r.pc = "idle" => r.key = NoKey
  /\ r.pc = "store" => table[r.key] = Nothing
  /\ r.pc = "writing" => table[r.key].part = "cut"
  /\ r.pc \in {"written", "describing", "sign", "stored"} => table[r.key].part = "whole"
  /\ r.pc \in {"store", "writing", "written", "sign"} => beside[r.key] = "none"
  /\ r.pc = "describing" => beside[r.key] = "cut"
  /\ r.pc = "stored" => beside[r.key] # "cut"

\* Keys under which a request left a file cut.
LeftCut == {k \in Key : Torn(k) /\ \A q \in Upload : upload[q].key # k}

UploadIInv ==
  /\ UploadTypeOK
  /\ \A q \in Upload : KnowsObject(upload[q], objects, sidecars)
  /\ \A q, o \in Upload : q # o /\ upload[q].key # NoKey => upload[q].key # upload[o].key
  /\ Beside(objects, sidecars)
  /\ IsFiniteSet(LeftCut) /\ Cardinality(LeftCut) <= failures

LEMMA UploadFacts ==
  ASSUME UploadIInv, NEW q \in Upload
  PROVE  upload[q] \in UploadRecord /\ KnowsObject(upload[q], objects, sidecars)
BY DEF UploadIInv, UploadTypeOK, UploadRecord

\* Request q becomes r, and what is under its key becomes x.
LEMMA UploadMoves ==
  ASSUME UploadIInv, NEW q \in Upload, NEW r \in UploadRecord,
         upload' = [upload EXCEPT ![q] = r],
         UNCHANGED adapter,
         sidecars' \in Sidecars, Beside(objects', sidecars'),
         metadata' \in [Key -> File \union {NoFile}],
         failures' \in 0..MaxFailures,
         objects' \in Objects,
         KnowsObject(r, objects', sidecars'),
         r.key # NoKey => \A o \in Upload \ {q} : upload[o].key # r.key,
         \A k \in Key : k # upload[q].key => objects'[k] = objects[k] /\ sidecars'[k] = sidecars[k],
         IsFiniteSet(LeftCut') /\ Cardinality(LeftCut') <= failures'
  PROVE  UploadIInv'
<1>1. upload \in [Upload -> UploadRecord]
  BY DEF UploadIInv, UploadTypeOK, UploadRecord
<1>2. UploadTypeOK'
  BY <1>1 DEF UploadIInv, UploadTypeOK, UploadRecord, Objects, Sidecars
<1>3. ASSUME NEW o \in Upload PROVE KnowsObject(upload'[o], objects', sidecars')
  <2>1. CASE o = q
    BY <1>1, <2>1
  <2>2. CASE o # q
    <3>1. upload'[o] = upload[o] /\ KnowsObject(upload[o], objects, sidecars)
      BY <1>1, <2>2 DEF UploadIInv
    <3>2. upload[o].pc # "idle" => upload[o].key \in Key /\ upload[o].key # NoKey
      BY <3>1, UploadAssumption DEF KnowsObject
    <3>3. upload[o].pc # "idle" => /\ objects'[upload[o].key] = objects[upload[o].key]
                                   /\ sidecars'[upload[o].key] = sidecars[upload[o].key]
      BY <2>2, <3>2 DEF UploadIInv
    <3> QED BY <3>1, <3>3 DEF KnowsObject
  <2> QED BY <2>1, <2>2
<1>4. ASSUME NEW a \in Upload, NEW b \in Upload, a # b, upload'[a].key # NoKey
      PROVE  upload'[a].key # upload'[b].key
  <2>1. CASE a = q
    BY <1>1, <1>4, <2>1
  <2>2. CASE b = q
    BY <1>1, <1>4, <2>2
  <2>3. CASE a # q /\ b # q
    BY <1>1, <1>4, <2>3 DEF UploadIInv
  <2> QED BY <2>1, <2>2, <2>3
<1> QED BY <1>2, <1>3, <1>4 DEF UploadIInv

\* Nothing more is left cut.
LEMMA LeavesNoMore ==
  ASSUME UploadIInv, LeftCut' \subseteq LeftCut, failures' \in Nat, failures <= failures'
  PROVE  IsFiniteSet(LeftCut') /\ Cardinality(LeftCut') <= failures'
<1>1. /\ IsFiniteSet(LeftCut) /\ Cardinality(LeftCut) <= failures /\ failures \in Nat
  BY UploadAssumption DEF UploadIInv, UploadTypeOK
<1>2. /\ IsFiniteSet(LeftCut') /\ Cardinality(LeftCut') <= Cardinality(LeftCut)
      /\ Cardinality(LeftCut) \in Nat /\ Cardinality(LeftCut') \in Nat
  BY <1>1, FS_Subset, FS_CardinalityType
<1> QED BY <1>1, <1>2

\* Request q goes on: its key stays, and what is under it is, or becomes, its own.
LEMMA GoesOn ==
  ASSUME UploadIInv, NEW q \in Upload, upload[q].pc # "idle", NEW pc \in UploadStates,
         Proceed(q, pc), UNCHANGED <<adapter, metadata, failures>>,
         objects' \in Objects, sidecars' \in Sidecars, Beside(objects', sidecars'),
         \A k \in Key : k # upload[q].key => objects'[k] = objects[k] /\ sidecars'[k] = sidecars[k],
         NEW r \in UploadRecord, r = [upload[q] EXCEPT !.pc = pc],
         KnowsObject(r, objects', sidecars')
  PROVE  UploadIInv'
<1>1. /\ upload[q] \in UploadRecord /\ upload[q].key \in Key /\ upload[q].key # NoKey
  BY UploadFacts, UploadAssumption DEF KnowsObject
<1>2. r.key = upload[q].key
  BY <1>1 DEF UploadRecord
<1>3. upload' = [upload EXCEPT ![q] = r]
  BY DEF Proceed
<1>8. \A o \in Upload \ {q} : upload[o].key # r.key
  BY <1>1, <1>2 DEF UploadIInv
<1>9. upload \in [Upload -> UploadRecord] /\ failures \in 0..MaxFailures
  BY DEF UploadIInv, UploadTypeOK, UploadRecord
<1>10. LeftCut' \subseteq LeftCut
  <2> SUFFICES ASSUME NEW k \in Key, Torn(k)', \A o \in Upload : upload'[o].key # k
               PROVE  k \in LeftCut
    BY DEF LeftCut
  <2>1. upload'[q].key = upload[q].key /\ k # upload[q].key
    BY <1>2, <1>3, <1>9
  <2>2. \A o \in Upload : upload[o].key # k
    BY <1>3, <1>9, <2>1
  <2> QED BY <2>1, <2>2 DEF LeftCut, Torn
<1>11. IsFiniteSet(LeftCut') /\ Cardinality(LeftCut') <= failures'
  <2>1. failures' = failures /\ failures \in Nat
    BY <1>9, UploadAssumption
  <2> QED BY <1>10, <2>1, LeavesNoMore
<1>12. metadata' \in [Key -> File \union {NoFile}] /\ failures' \in 0..MaxFailures
  BY DEF UploadIInv, UploadTypeOK
<1> QED BY <1>3, <1>8, <1>11, <1>12, UploadMoves

\* Request q writes the object under its key and goes on.
LEMMA WritesObject ==
  ASSUME UploadIInv, NEW q \in Upload, upload[q].pc \in {"store", "writing"},
         NEW pc \in {"writing", "written", "sign"}, NEW part \in {"cut", "whole"},
         pc = "writing" <=> part = "cut",
         objects' = Stored(q, part), Proceed(q, pc), UNCHANGED <<adapter, sidecars, metadata, failures>>
  PROVE  UploadIInv'
<1>1. /\ upload[q] \in UploadRecord /\ upload[q].key \in Key /\ upload[q].file \in File
      /\ sidecars[upload[q].key] = "none" /\ upload[q].pc # "idle"
  BY UploadFacts DEF KnowsObject
<1>2. objects \in Objects /\ sidecars \in Sidecars /\ Beside(objects, sidecars)
  BY DEF UploadIInv, UploadTypeOK, Objects, Sidecars
<1>3. PICK k \in Key : k = upload[q].key
  BY <1>1
<1>4. PICK x \in [file : File, part : {"cut", "whole"}] : x = [file |-> upload[q].file, part |-> part]
  BY <1>1
<1>5. objects' = [objects EXCEPT ![k] = x]
  BY <1>3, <1>4 DEF Stored
<1>6. objects' \in Objects /\ objects'[k] = x /\ \A o \in Key : o # k => objects'[o] = objects[o]
  BY <1>2, <1>5 DEF Objects
<1>7. Beside(objects', sidecars')
  BY <1>1, <1>2, <1>3, <1>6 DEF Beside
<1>8. PICK r \in UploadRecord : r = [upload[q] EXCEPT !.pc = pc]
  BY <1>1 DEF UploadRecord
<1>9. r.pc = pc /\ r.key = k /\ r.file = upload[q].file
  BY <1>1, <1>3, <1>8 DEF UploadRecord
<1>10. KnowsObject(r, objects', sidecars')
  <2>1. sidecars'[k] = "none" /\ objects'[k].part = part /\ r.file \in File
    BY <1>1, <1>3, <1>4, <1>6, <1>9
  <2> QED BY <1>9, <2>1 DEF KnowsObject
<1>11. pc \in UploadStates
  BY DEF UploadStates
<1>12. \A o \in Key : o # upload[q].key => objects'[o] = objects[o] /\ sidecars'[o] = sidecars[o]
  BY <1>3, <1>6
<1> QED BY <1>1, <1>2, <1>6, <1>7, <1>8, <1>10, <1>11, <1>12, GoesOn

\* Request q writes the sidecar under its key and goes on.
LEMMA WritesSidecar ==
  ASSUME UploadIInv, NEW q \in Upload, upload[q].pc \in {"written", "describing"},
         NEW pc \in {"describing", "stored"}, NEW part \in {"cut", "whole"},
         pc = "describing" <=> part = "cut",
         sidecars' = [sidecars EXCEPT ![upload[q].key] = part], Proceed(q, pc),
         UNCHANGED <<adapter, objects, metadata, failures>>
  PROVE  UploadIInv'
<1>1. /\ upload[q] \in UploadRecord /\ upload[q].key \in Key /\ upload[q].file \in File
      /\ objects[upload[q].key].part = "whole" /\ upload[q].pc # "idle"
  BY UploadFacts DEF KnowsObject
<1>2. objects \in Objects /\ sidecars \in Sidecars /\ Beside(objects, sidecars)
  BY DEF UploadIInv, UploadTypeOK, Objects, Sidecars
<1>3. PICK k \in Key : k = upload[q].key
  BY <1>1
<1>4. sidecars' \in Sidecars /\ sidecars'[k] = part /\ \A o \in Key : o # k => sidecars'[o] = sidecars[o]
  BY <1>2, <1>3 DEF Sidecars
<1>5. Beside(objects', sidecars')
  BY <1>1, <1>2, <1>3, <1>4 DEF Beside
<1>6. PICK r \in UploadRecord : r = [upload[q] EXCEPT !.pc = pc]
  BY <1>1 DEF UploadRecord
<1>7. r.pc = pc /\ r.key = k /\ r.file = upload[q].file
  BY <1>1, <1>3, <1>6 DEF UploadRecord
<1>8. KnowsObject(r, objects', sidecars')
  BY <1>1, <1>3, <1>4, <1>7 DEF KnowsObject
<1>9. pc \in UploadStates
  BY DEF UploadStates
<1>10. \A o \in Key : o # upload[q].key => objects'[o] = objects[o] /\ sidecars'[o] = sidecars[o]
  BY <1>3, <1>4
<1> QED BY <1>1, <1>2, <1>4, <1>5, <1>6, <1>8, <1>9, <1>10, GoesOn

LEMMA UnusedIsUpload == Unused \in UploadRecord /\ Unused.pc = "idle" /\ Unused.key = NoKey
BY DEF Unused, UploadRecord

\* Request q ends, and what is under its key is not cut, or counts as a failure.
LEMMA UploadEnds ==
  ASSUME UploadIInv, NEW q \in Upload, upload[q].pc # "idle",
         upload' = [upload EXCEPT ![q] = Unused], UNCHANGED <<adapter, sidecars>>,
         metadata' \in [Key -> File \union {NoFile}],
         \/ UNCHANGED objects
         \/ objects' = Stored(q, "whole") /\ upload[q].pc = "store",
         failures' \in 0..MaxFailures,
         \/ failures' = failures + 1
         \/ failures' = failures
            /\ objects'[upload[q].key].part # "cut" /\ sidecars[upload[q].key] # "cut"
  PROVE  UploadIInv'
<1>1. /\ upload[q] \in UploadRecord /\ upload[q].key \in Key /\ upload[q].file \in File
      /\ upload[q].pc = "store" => sidecars[upload[q].key] = "none"
  BY UploadFacts DEF KnowsObject
<1>2. objects \in Objects /\ sidecars \in Sidecars /\ Beside(objects, sidecars)
  BY DEF UploadIInv, UploadTypeOK, Objects, Sidecars
<1>3. objects' \in Objects
  BY <1>1, <1>2 DEF Stored, Objects
<1>4. \A k \in Key : k # upload[q].key => objects'[k] = objects[k] /\ sidecars'[k] = sidecars[k]
  BY <1>2 DEF Stored, Objects
<1>5. Beside(objects', sidecars')
  BY <1>1, <1>2, <1>4 DEF Beside
<1>6. /\ upload \in [Upload -> UploadRecord] /\ failures \in Nat /\ failures' \in Nat
      /\ IsFiniteSet(LeftCut) /\ Cardinality(LeftCut) <= failures
  BY UploadAssumption DEF UploadIInv, UploadTypeOK, UploadRecord
<1>7. ASSUME NEW k \in LeftCut', k # upload[q].key
      PROVE  k \in LeftCut
  <2>1. k \in Key /\ Torn(k)' /\ \A o \in Upload : upload'[o].key # k
    BY DEF LeftCut
  <2>2. \A o \in Upload : upload[o].key # k
    BY <1>6, <1>7, <2>1
  <2>3. objects'[k] = objects[k] /\ sidecars'[k] = sidecars[k]
    BY <1>4, <1>7, <2>1
  <2>4. Torn(k)
    BY <2>1, <2>3 DEF Torn
  <2> QED BY <2>1, <2>2, <2>4 DEF LeftCut
<1>8. IsFiniteSet(LeftCut') /\ Cardinality(LeftCut') <= failures'
  <2>1. CASE failures' = failures /\ objects'[upload[q].key].part # "cut"
                                 /\ sidecars[upload[q].key] # "cut"
    <3>1. upload[q].key \notin LeftCut'
      BY <2>1 DEF LeftCut, Torn
    <3>2. LeftCut' \subseteq LeftCut
      BY <1>7, <3>1
    <3> QED BY <1>6, <2>1, <3>2, LeavesNoMore
  <2>2. CASE failures' = failures + 1
    <3> DEFINE more == LeftCut \union {upload[q].key}
    <3>1. LeftCut' \subseteq more
      BY <1>7
    <3>2. IsFiniteSet(more) /\ Cardinality(more) \in {Cardinality(LeftCut), Cardinality(LeftCut) + 1}
      <4>1. CASE upload[q].key \in LeftCut
        <5>1. more = LeftCut
          BY <4>1
        <5> QED BY <1>6, <5>1
      <4>2. CASE upload[q].key \notin LeftCut
        BY <1>6, <4>2, FS_AddElement
      <4> QED BY <4>1, <4>2
    <3> HIDE DEF more
    <3>3. IsFiniteSet(LeftCut') /\ Cardinality(LeftCut') <= Cardinality(more)
      BY <3>1, <3>2, FS_Subset
    <3>4. Cardinality(LeftCut') \in Nat /\ Cardinality(LeftCut) \in Nat
      BY <1>6, <3>3, FS_CardinalityType
    <3> QED BY <1>6, <2>2, <3>2, <3>3, <3>4
  <2> QED BY <2>1, <2>2
<1>9. KnowsObject(Unused, objects', sidecars')
  BY UnusedIsUpload DEF KnowsObject
<1> QED BY <1>2, <1>3, <1>4, <1>5, <1>8, <1>9, UnusedIsUpload, UploadMoves

\* The key is nobody's, and nothing is under it.
LEMMA UploadFileKeeps ==
  ASSUME UploadIInv, NEW q \in Upload, NEW k \in Key, NEW f \in File, NEW u \in Uploader,
         UploadFile(q, k, f, u)
  PROVE  UploadIInv'
<1> DEFINE r == [pc |-> "store", key |-> k, file |-> f,
                 by |-> CurrentUser("sub", RequestUser(u))]
<1>1. /\ r \in UploadRecord /\ r.pc = "store" /\ r.key = k /\ r.file = f
      /\ upload' = [upload EXCEPT ![q] = r]
  BY DEF UploadFile, UploadRecord, CurrentUser, RequestUser
<1> HIDE DEF r
<1>2. /\ upload[q].key = NoKey /\ objects[k] = Nothing
      /\ \A o \in Upload : upload[o].key # k
      /\ UNCHANGED <<adapter, objects, sidecars, metadata, failures>>
  BY UploadFacts DEF UploadFile, UploadAt, KnowsObject, FreshKey, Used, Held
<1>3. KnowsObject(r, objects', sidecars')
  <2>1. sidecars[k] = "none"
    BY <1>2 DEF UploadIInv, Beside, Nothing
  <2> QED BY <1>1, <1>2, <2>1 DEF KnowsObject
<1>4. upload \in [Upload -> UploadRecord] /\ failures \in Nat
  BY UploadAssumption DEF UploadIInv, UploadTypeOK, UploadRecord
<1>5. LeftCut' \subseteq LeftCut
  <2> SUFFICES ASSUME NEW o \in Key, Torn(o), \A p \in Upload : upload'[p].key # o
               PROVE  o \in LeftCut
    BY <1>2 DEF LeftCut, Torn
  <2>1. \A p \in Upload : p # q => upload[p].key # o
    BY <1>1, <1>4
  <2>2. upload[q].key # o
    BY <1>2, UploadAssumption
  <2> QED BY <2>1, <2>2 DEF LeftCut
<1>6. IsFiniteSet(LeftCut') /\ Cardinality(LeftCut') <= failures'
  BY <1>2, <1>4, <1>5, LeavesNoMore
<1>7. /\ sidecars' \in Sidecars /\ Beside(objects', sidecars')
      /\ metadata' \in [Key -> File \union {NoFile}] /\ failures' \in 0..MaxFailures
      /\ objects' \in Objects
  BY <1>2 DEF UploadIInv, UploadTypeOK, Objects, Sidecars
<1> QED BY <1>1, <1>2, <1>3, <1>6, <1>7, UploadMoves

LEMMA UploadStepKeeps ==
  ASSUME UploadIInv, [UploadStep]_uploadVars
  PROVE  UploadIInv'
<1>1. ASSUME NEW q \in Upload, NEW k \in Key, NEW f \in File, NEW u \in Uploader,
             UploadFile(q, k, f, u)
      PROVE  UploadIInv'
  BY <1>1, UploadFileKeeps
<1>2. ASSUME NEW q \in Upload
      PROVE  KnowsObject(upload[q], objects, sidecars)
  BY UploadFacts
<1>3. /\ metadata \in [Key -> File \union {NoFile}] /\ failures \in 0..MaxFailures
  BY DEF UploadIInv, UploadTypeOK
<1>4. ASSUME NEW q \in Upload, BeginWrite(q) PROVE UploadIInv'
  BY <1>4, WritesObject DEF BeginWrite, UploadAt
<1>5. ASSUME NEW q \in Upload, EndWrite(q) PROVE UploadIInv'
  BY <1>5, WritesObject DEF EndWrite, UploadAt
<1>6. ASSUME NEW q \in Upload, BeginSidecar(q) PROVE UploadIInv'
  BY <1>6, WritesSidecar DEF BeginSidecar, UploadAt
<1>7. ASSUME NEW q \in Upload, EndSidecar(q) PROVE UploadIInv'
  BY <1>7, WritesSidecar DEF EndSidecar, UploadAt
<1>8. ASSUME NEW q \in Upload, Put(q) PROVE UploadIInv'
  BY <1>8, WritesObject DEF Put, UploadAt
<1>9. ASSUME NEW q \in Upload, GetUrl(q) PROVE UploadIInv'
  <2>1. /\ upload[q].pc = "sign" /\ Proceed(q, "stored")
        /\ UNCHANGED <<adapter, objects, sidecars, metadata, failures>>
    BY <1>9 DEF GetUrl, UploadAt
  <2>2. upload[q] \in UploadRecord
    BY UploadFacts
  <2>3. PICK r \in UploadRecord : r = [upload[q] EXCEPT !.pc = "stored"]
    BY <2>2 DEF UploadRecord
  <2>4. r.pc = "stored" /\ r.key = upload[q].key /\ r.file = upload[q].file
    BY <2>2, <2>3 DEF UploadRecord
  <2>5. KnowsObject(r, objects', sidecars')
    BY <1>2, <2>1, <2>4 DEF KnowsObject
  <2>6. objects' \in Objects /\ sidecars' \in Sidecars /\ Beside(objects', sidecars')
    BY <2>1 DEF UploadIInv, UploadTypeOK, Objects, Sidecars
  <2>7. "stored" \in UploadStates
    BY DEF UploadStates
  <2> QED BY <2>1, <2>3, <2>5, <2>6, <2>7, GoesOn
<1>11. ASSUME failures < MaxFailures, failures' = failures + 1
       PROVE  failures' \in 0..MaxFailures
  BY <1>3, <1>11, UploadAssumption
<1>12. ASSUME NEW q \in Upload, Rejects(q) PROVE UploadIInv'
  BY <1>3, <1>11, <1>12, UploadEnds DEF Rejects, Dropped, UploadAt
<1>13. ASSUME NEW q \in Upload, PutUnanswered(q) PROVE UploadIInv'
  BY <1>3, <1>11, <1>13, UploadEnds DEF PutUnanswered, Dropped, UploadAt
<1>14. ASSUME NEW q \in Upload, PutRefused(q) PROVE UploadIInv'
  <2>1. /\ upload[q].pc = "store" /\ upload' = [upload EXCEPT ![q] = Unused]
        /\ UNCHANGED <<adapter, objects, sidecars, metadata, failures>>
    BY <1>14 DEF PutRefused, UploadAt
  <2>2. objects'[upload[q].key].part # "cut" /\ sidecars[upload[q].key] # "cut"
    BY <1>2, <2>1 DEF KnowsObject, Nothing
  <2> QED BY <1>3, <2>1, <2>2, UploadEnds
<1>15. ASSUME NEW q \in Upload, SaveMetadata(q) PROVE UploadIInv'
  <2>1. /\ upload[q].pc = "stored" /\ upload' = [upload EXCEPT ![q] = Unused]
        /\ UNCHANGED <<adapter, objects, sidecars, failures>>
    BY <1>15 DEF SaveMetadata, UploadAt
  <2>2. metadata' \in [Key -> File \union {NoFile}]
    BY <1>2, <1>3, <1>15, <2>1 DEF SaveMetadata, KnowsObject
  <2>3. objects'[upload[q].key].part # "cut" /\ sidecars[upload[q].key] # "cut"
    BY <1>2, <2>1 DEF KnowsObject
  <2> QED BY <1>3, <2>1, <2>2, <2>3, UploadEnds
<1>16. CASE UNCHANGED uploadVars
  BY <1>16 DEF uploadVars, UploadIInv, UploadTypeOK, LeftCut, Torn
<1> QED BY <1>1, <1>4, <1>5, <1>6, <1>7, <1>8, <1>9, <1>12, <1>13, <1>14, <1>15, <1>16 DEF UploadStep

\* Whoever writes under a key found nothing there, or began to write it.
LEMMA WholeStaysWhole ==
  ASSUME UploadIInv, [UploadStep]_uploadVars, NEW k \in Key, objects[k].part = "whole"
  PROVE  objects'[k] = objects[k]
<1>1. ASSUME NEW q \in Upload, upload[q].pc \in {"store", "writing"},
             NEW part \in {"cut", "whole"}, objects' = Stored(q, part)
      PROVE  objects'[k] = objects[k]
  <2>1. upload[q].key # k
    BY <1>1, UploadFacts DEF KnowsObject, Nothing
  <2> QED BY <1>1, <2>1 DEF Stored, UploadIInv, UploadTypeOK
<1>2. CASE UNCHANGED objects
  BY <1>2
<1> QED BY <1>1, <1>2 DEF UploadStep, uploadVars, UploadFile, Rejects, BeginWrite, EndWrite,
       BeginSidecar, EndSidecar, Put, PutRefused, PutUnanswered, GetUrl, SaveMetadata, UploadAt

\* Whoever writes a sidecar found none, or began to write it.
LEMMA WholeSidecarsStay ==
  ASSUME UploadIInv, [UploadStep]_uploadVars, NEW k \in Key, sidecars[k] = "whole"
  PROVE  sidecars'[k] = "whole"
<1>1. ASSUME NEW q \in Upload, upload[q].pc \in {"written", "describing"},
             NEW part \in {"cut", "whole"}, sidecars' = [sidecars EXCEPT ![upload[q].key] = part]
      PROVE  sidecars'[k] = "whole"
  <2>1. upload[q].key # k
    BY <1>1, UploadFacts DEF KnowsObject
  <2> QED BY <1>1, <2>1 DEF UploadIInv, UploadTypeOK
<1>2. CASE UNCHANGED sidecars
  BY <1>2
<1> QED BY <1>1, <1>2 DEF UploadStep, uploadVars, UploadFile, Rejects, BeginWrite, EndWrite,
       BeginSidecar, EndSidecar, Put, PutRefused, PutUnanswered, GetUrl, SaveMetadata, UploadAt

LEMMA InitUploadIInv == UploadInit => UploadIInv
<1> SUFFICES ASSUME UploadInit PROVE UploadIInv
  OBVIOUS
<1>1. /\ objects = [k \in Key |-> Nothing] /\ sidecars = [k \in Key |-> "none"] /\ failures = 0
      /\ upload = [q \in Upload |-> Unused] /\ metadata = [k \in Key |-> NoFile]
      /\ adapter \in {"local", "s3"}
  BY DEF UploadInit
<1>2. LeftCut = {}
  BY <1>1 DEF LeftCut, Nothing, Torn
<1>3. IsFiniteSet(LeftCut) /\ Cardinality(LeftCut) = 0
  BY <1>2, FS_EmptySet
<1>4. \A q \in Upload : upload[q] \in UploadRecord /\ KnowsObject(upload[q], objects, sidecars)
  BY <1>1, UnusedIsUpload DEF KnowsObject
<1>5. UploadTypeOK
  BY <1>1, <1>4, UploadAssumption DEF UploadTypeOK, UploadRecord
<1> QED BY <1>1, <1>3, <1>4, <1>5, UnusedIsUpload DEF UploadIInv, Beside

\* Whatever fails, and however requests overlap: a whole object is never written
\* again, nor a whole sidecar, which has a whole object beside it, and each failure leaves
\* at most one file cut (local-storage.adapter.ts, s3-storage.adapter.ts, upload-file.use-case.ts).
THEOREM ObjectsStayWhole == UploadSpec => StoredObjectsStayWhole
<1> DEFINE Whole ==
      /\ \A k \in Key : objects[k].part = "whole" => objects'[k] = objects[k]
      /\ \A k \in Key : sidecars[k] = "whole" => sidecars'[k] = "whole"
      /\ \A k \in Key : sidecars'[k] # "none" => objects'[k].part = "whole"
      /\ Cardinality({k \in Key : Torn(k)' /\ \A q \in Upload : upload'[q].key # k})
           <= failures'
<1>1. ASSUME UploadIInv, [UploadStep]_uploadVars PROVE UploadIInv' /\ Whole
  <2>1. UploadIInv'
    BY <1>1, UploadStepKeeps
  <2>2. \A k \in Key : objects[k].part = "whole" => objects'[k] = objects[k]
    BY <1>1, WholeStaysWhole
  <2>3. \A k \in Key : sidecars[k] = "whole" => sidecars'[k] = "whole"
    BY <1>1, WholeSidecarsStay
  <2> QED BY <2>1, <2>2, <2>3 DEF UploadIInv, LeftCut, Beside
<1> QED BY <1>1, InitUploadIInv, PTL DEF UploadSpec, StoredObjectsStayWhole


-----------------------------------------------------------------------------
(* What no upload gets *)

\* Every request carries the user object, which is no id: no row is ever inserted.
Unrecorded ==
  /\ \A k \in Key : metadata[k] = NoFile
  /\ \A q \in Upload : upload[q].pc # "idle" => upload[q].by \in [userId : Uploader]

LEMMA UnrecordedStep ==
  ASSUME UploadTypeOK, Unrecorded, [UploadStep]_uploadVars
  PROVE  Unrecorded'
<1>1. upload \in [Upload -> UploadRecord] /\ metadata \in [Key -> File \union {NoFile}]
  BY DEF UploadTypeOK, UploadRecord
<1>2. ASSUME NEW q \in Upload, NEW k \in Key, NEW f \in File, NEW u \in Uploader,
             UploadFile(q, k, f, u)
      PROVE  Unrecorded'
  BY <1>1, <1>2 DEF UploadFile, CurrentUser, RequestUser, Unrecorded
<1>3. ASSUME NEW q \in Upload, UNCHANGED metadata,
             \/ upload' = [upload EXCEPT ![q] = Unused]
             \/ upload[q].pc # "idle" /\ \E pc \in UploadStates : Proceed(q, pc)
      PROVE  Unrecorded'
  <2>1. CASE upload' = [upload EXCEPT ![q] = Unused]
    BY <1>1, <1>3, <2>1 DEF Unrecorded, Unused
  <2>2. CASE upload[q].pc # "idle" /\ \E pc \in UploadStates : Proceed(q, pc)
    <3>1. \A o \in Upload : /\ upload'[o].by = upload[o].by
                            /\ upload'[o].pc # "idle" => upload[o].pc # "idle"
      BY <1>1, <2>2 DEF Proceed, UploadRecord
    <3> QED BY <1>3, <3>1 DEF Unrecorded
  <2> QED BY <1>3, <2>1, <2>2
<1>4. ASSUME NEW q \in Upload,
             \/ Rejects(q)
             \/ BeginWrite(q) \/ EndWrite(q) \/ BeginSidecar(q) \/ EndSidecar(q)
             \/ Put(q) \/ PutRefused(q) \/ PutUnanswered(q) \/ GetUrl(q)
      PROVE  Unrecorded'
  <2>1. UNCHANGED metadata
    BY <1>4 DEF Rejects, BeginWrite, EndWrite, BeginSidecar, EndSidecar, Put, PutRefused,
       PutUnanswered, GetUrl
  <2>2. \/ upload' = [upload EXCEPT ![q] = Unused]
        \/ upload[q].pc # "idle" /\ \E pc \in UploadStates : Proceed(q, pc)
    BY <1>4 DEF Rejects, Dropped, BeginWrite, EndWrite, BeginSidecar, EndSidecar, Put, PutRefused,
       PutUnanswered, GetUrl, UploadAt, UploadStates
  <2> QED BY <1>3, <2>1, <2>2
<1>5. ASSUME NEW q \in Upload, SaveMetadata(q)
      PROVE  Unrecorded'
  <2>1. upload[q].by \in [userId : Uploader]
    BY <1>5 DEF SaveMetadata, UploadAt, Unrecorded
  <2>2. PICK u \in Uploader : upload[q].by = [userId |-> u]
    BY <2>1
  <2>3. ~Fits(q)
    BY <2>2, UploadAssumption DEF Fits
  <2> QED BY <1>3, <1>5, <2>3 DEF SaveMetadata
<1>6. CASE UNCHANGED uploadVars
  BY <1>6 DEF uploadVars, Unrecorded
<1> QED BY <1>2, <1>4, <1>5, <1>6 DEF UploadStep

LEMMA InitUnrecorded == UploadInit => Unrecorded
BY DEF UploadInit, Unrecorded, Unused

\* POST /files never leaves a row: whatever is uploaded, by whomever, on either storage,
\* the file_metadata table stays empty (upload-file.use-case.ts inserts the user object of
\* file.controller.ts as uploaded_by), while the objects pile up in the storage.
THEOREM NoUploadIsRecorded == UploadSpec => [](\A k \in Key : metadata[k] = NoFile)
<1>1. UploadIInv /\ Unrecorded /\ [UploadStep]_uploadVars => UploadIInv' /\ Unrecorded'
  BY UploadStepKeeps, UnrecordedStep DEF UploadIInv
<1>2. UploadIInv /\ Unrecorded => \A k \in Key : metadata[k] = NoFile
  BY DEF Unrecorded
<1> QED BY <1>1, <1>2, InitUploadIInv, InitUnrecorded, PTL DEF UploadSpec

-----------------------------------------------------------------------------
(* All the parts together, as RecordsSpec runs them *)

\* No sender begins more marks than the bound.
LEMMA MarksCounted ==
  ASSUME marks \in 0..MaxMarks, [NotificationStep]_notificationVars
  PROVE  marks' \in 0..MaxMarks
<1>1. UNCHANGED marks \/ (marks < MaxMarks /\ marks' = marks + 1)
  BY DEF NotificationStep, SendNotification, Delete, Take, MarkAsSent, MarkAsFailed,
     FindMarked, notificationVars
<1> QED BY <1>1, NotificationAssumption

\* A step of one part is a stuttering step of every other.
LEMMA OnePartMoves ==
  ASSUME RecordsNext \/ UNCHANGED <<focus, recordVars>>
  PROVE  /\ [ConversationStep]_conversationVars
         /\ [RoomsStep]_roomVars
         /\ [NotificationStep]_notificationVars
         /\ [UploadStep]_uploadVars
         /\ [StoreNext]_storeVars
         /\ [Discussing]_<<storeVars, discussionVars>>
         /\ [ConsumerStep]_consumerVars
BY DEF RecordsNext, recordVars, Discussing

\* What every part keeps true.
RecordsInv ==
  /\ ConversationTypeOK
  /\ RoomsInv
  /\ Marks /\ marks \in 0..MaxMarks
  /\ UploadIInv
  /\ StoreIInv /\ DiscussionIInv
  /\ Progress /\ Offsets

\* A table with one post is one the store can be in.
LEMMA OnePostIsSound ==
  ASSUME posts = OnePost, req = [q \in Request |-> Idle], now = 0, faults = 0, free = {}
  PROVE  StoreIInv
<1>1. NewRow(h1, NoSlug) \in Row
  BY PostAssumed, RowOperators
<1>2. posts \in [Post -> RowOrNone] /\ \A p \in Post : posts[p] # NoRow => p = post1
  BY <1>1 DEF OnePost, RowOrNone
<1>3. req \in [Request -> RequestRecord] /\ \A q \in Request : Sound(req[q])
  BY IdleIsSound DEF Sound
<1>4. now \in 0..MaxTime /\ faults \in 0..MaxFaults
  BY PostAssumption, SMT
<1>5. SlugsUnique /\ FreeSlugs
  BY <1>2 DEF SlugsUnique, FreeSlugs, Idle
<1>6. \A q \in Request : req[q].pc \in Waiting \union {"idle"}
  BY DEF Idle
<1> QED BY <1>2, <1>3, <1>4, <1>5, <1>6 DEF StoreIInv, Table

LEMMA InitRecordsInv == RecordsInit => RecordsInv
<1> SUFFICES ASSUME RecordsInit PROVE RecordsInv
  OBVIOUS
<1>1. /\ ConversationInit /\ RoomsInit /\ NotificationInit /\ UploadInit
      /\ DiscussionInit /\ ConsumerInit
      /\ req = [q \in Request |-> Idle] /\ now = 0 /\ faults = 0 /\ free = {}
      /\ posts = OnePost \/ posts = [p \in Post |-> NoRow]
  BY DEF RecordsInit
<1>2. ConversationTypeOK
  BY <1>1 DEF ConversationInit, ConversationTypeOK
<1>3. RoomsInv /\ UploadIInv /\ Progress /\ Offsets
  BY <1>1, InitRoomsInv, InitUploadIInv, InitConsumer
<1>4. Marks /\ marks \in 0..MaxMarks
  BY <1>1, InitMarks, NotificationAssumption DEF NotificationInit
<1>5. StoreIInv
  BY <1>1, OnePostIsSound, InitStoreIInv DEF StoreInit
<1>6. DiscussionIInv
  BY <1>1, DiscussionStarts
<1> QED BY <1>2, <1>3, <1>4, <1>5, <1>6 DEF RecordsInv

LEMMA NextRecordsInv == RecordsInv /\ [RecordsNext]_<<focus, recordVars>> => RecordsInv'
<1> SUFFICES ASSUME RecordsInv, [RecordsNext]_<<focus, recordVars>> PROVE RecordsInv'
  OBVIOUS
<1>1. /\ [ConversationStep]_conversationVars
      /\ [RoomsStep]_roomVars
      /\ [NotificationStep]_notificationVars
      /\ [UploadStep]_uploadVars
      /\ [Discussing]_<<storeVars, discussionVars>>
      /\ [ConsumerStep]_consumerVars
  BY OnePartMoves
<1>2. ConversationTypeOK'
  BY <1>1, ConversationKeeps DEF RecordsInv
<1>3. RoomsInv' /\ UploadIInv'
  BY <1>1, NextRoomsInv, UploadStepKeeps DEF RecordsInv
<1>4. Marks' /\ marks' \in 0..MaxMarks
  BY <1>1, MarksKept, MarksCounted DEF RecordsInv
<1>5. StoreIInv' /\ DiscussionIInv'
  BY <1>1, DiscussingKeeps DEF RecordsInv
<1>6. Progress' /\ Offsets'
  BY <1>1, ConsumerKeeps DEF RecordsInv
<1> QED BY <1>2, <1>3, <1>4, <1>5, <1>6 DEF RecordsInv

LEMMA RecordsInvariance == RecordsSpec => []RecordsInv
BY InitRecordsInv, NextRecordsInv, PTL DEF RecordsSpec

\* Every part keeps its types, for every value of the constants.
THEOREM RecordTypes == RecordsSpec => []RecordsTypeOK
<1>1. RecordsInv => ConversationTypeOK /\ NotificationTypeOK
  BY DEF RecordsInv, Marks, NotificationTypeOK
<1>2. RecordsInv => RoomsTypeOK /\ UploadTypeOK /\ DiscussionTypeOK
  BY DEF RecordsInv, RoomsInv, UploadIInv, DiscussionIInv
<1>3. RecordsInv => StoreTypeOK
  BY DEF RecordsInv, StoreIInv, Table, StoreTypeOK, RequestRecord, FreeSlugs
<1>4. RecordsInv => ConsumerTypeOK
  <2>1. Offsets => 0..appended \subseteq 0..MaxLog
    BY ConsumerAssumption DEF Offsets, ConsumerAssumption
  <2>2. Offsets => ConsumerTypeOK
    BY <2>1 DEF Offsets, ConsumerTypeOK
  <2> QED BY <2>2 DEF RecordsInv
<1>5. RecordsInv => RecordsTypeOK
  BY <1>1, <1>2, <1>3, <1>4 DEF RecordsTypeOK
<1> QED BY <1>5, RecordsInvariance, PTL

\* The behaviours that the run explores are behaviours of the parts: what is proved of a
\* part holds of the composition, and no part notices that the others are there.
THEOREM RecordsImplementParts ==
  RecordsSpec => /\ ConversationSpec /\ RoomsSpec /\ NotificationSpec
                 /\ UploadSpec /\ ConsumerSpec
<1>1. RecordsInit => /\ ConversationInit /\ RoomsInit /\ NotificationInit
                     /\ UploadInit /\ ConsumerInit
  BY DEF RecordsInit
<1>2. [RecordsNext]_<<focus, recordVars>> =>
        /\ [ConversationStep]_conversationVars
        /\ [RoomsStep]_roomVars
        /\ [NotificationStep]_notificationVars
        /\ [UploadStep]_uploadVars
        /\ [ConsumerStep]_consumerVars
  BY OnePartMoves
<1> QED BY <1>1, <1>2, PTL DEF RecordsSpec, ConversationSpec, RoomsSpec, NotificationSpec,
           UploadSpec, ConsumerSpec

\* Posts and discussions begin at a table with a post or without: their properties hold
\* all the same.
THEOREM PostRecords ==
  RecordsSpec => /\ [](RefusedOnlyIfRacedOrUnchecked /\ DuplicateTagsAreConflicts)
                 /\ PublicationLasts
<1>1. RecordsInv => RefusedOnlyIfRacedOrUnchecked /\ DuplicateTagsAreConflicts
  BY InvRefusals DEF RecordsInv, DiscussionIInv
<1>2. RecordsInv /\ [RecordsNext]_<<focus, recordVars>>
        => [\A p \in Post : SettledPost(p) => SettledPost(p)']_storeVars
  BY OnePartMoves, SettledStays DEF RecordsInv
<1> QED BY <1>1, <1>2, RecordsInvariance, PTL DEF RecordsSpec, PublicationLasts

=============================================================================
