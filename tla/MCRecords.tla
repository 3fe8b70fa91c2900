------------------------------ MODULE MCRecords ------------------------------
(***************************************************************************)
(* Small instances of the parts of the application that share no state and *)
(* never call one another: conversations, WebSocket rooms, notifications,  *)
(* uploads, the Kafka consumer, and the posts with their comments and tags.*)
(* Each behaviour is one of the part `focus' names, so that the state      *)
(* space is the sum of theirs and not the product.  Comments and tags move *)
(* beside a table with one post, which is all they ask of it.              *)
(***************************************************************************)
EXTENDS Conversation, Rooms, Notifications, Uploads, Discussions, Consumer

CONSTANTS
  i1, i2, s1, s2, n1, user, news, newsBlank, other, newsSlug, otherSlug,
  h1, post1

ASSUME PostAssumed == h1 \in Title /\ post1 \in Post

VARIABLE focus

MCHomeOf == [s \in Socket |-> IF s = s1 THEN i1 ELSE i2]
MCUserRoom == [s \in {n1} |-> user]
MCTrimmed == [n \in Name |-> IF n = newsBlank THEN news ELSE n]
MCTagSlugOf == [n \in Name |-> IF n = other THEN otherSlug ELSE newsSlug]
MCTitleSlugOf == [t \in Title |-> newsSlug]

recordVars == <<conversationVars, roomVars, notificationVars, uploadVars,
                storeVars, discussionVars, consumerVars>>

OnePost == [p \in Post |-> IF p = post1 THEN NewRow(h1, NoSlug) ELSE NoRow]

RecordsInit ==
  /\ focus \in {"conversation", "rooms", "notifications", "uploads", "posts", "discussions", "consumer"}
  /\ ConversationInit /\ RoomsInit /\ NotificationInit /\ UploadInit
  /\ DiscussionInit /\ ConsumerInit
  /\ focus # "uploads" => adapter = "local"
  /\ req = [q \in Request |-> Idle] /\ now = 0 /\ faults = 0 /\ free = {}
  /\ posts = IF focus = "discussions" THEN OnePost ELSE [p \in Post |-> NoRow]

RecordsNext ==
  /\ focus' = focus
  /\ \/ focus = "conversation" /\ ConversationStep
        /\ UNCHANGED <<roomVars, notificationVars, uploadVars, storeVars, discussionVars, consumerVars>>
     \/ focus = "rooms" /\ RoomsStep
        /\ UNCHANGED <<conversationVars, notificationVars, uploadVars, storeVars, discussionVars, consumerVars>>
     \/ focus = "notifications" /\ NotificationStep
        /\ UNCHANGED <<conversationVars, roomVars, uploadVars, storeVars, discussionVars, consumerVars>>
     \/ focus = "uploads" /\ UploadStep
        /\ UNCHANGED <<conversationVars, roomVars, notificationVars, storeVars, discussionVars, consumerVars>>
     \/ focus = "posts" /\ StoreNext
        /\ UNCHANGED <<conversationVars, roomVars, notificationVars, uploadVars, discussionVars, consumerVars>>
     \/ focus = "discussions" /\ DiscussionStep
        /\ UNCHANGED <<conversationVars, roomVars, notificationVars, uploadVars, storeVars, consumerVars>>
     \/ focus = "consumer" /\ ConsumerStep
        /\ UNCHANGED <<conversationVars, roomVars, notificationVars, uploadVars, storeVars, discussionVars>>

RecordsSpec == RecordsInit /\ [][RecordsNext]_<<focus, recordVars>>

\* Uploads to the local storage, which looks at no metadata.
UploadsOnDiskSpec ==
  focus = "uploads" /\ adapter = "local" /\ RecordsInit /\ [][RecordsNext]_<<focus, recordVars>>

-----------------------------------------------------------------------------
\* Every part keeps its types, whichever of them moves.
RecordsTypeOK ==
  /\ ConversationTypeOK /\ RoomsTypeOK /\ NotificationTypeOK
  /\ UploadTypeOK /\ StoreTypeOK /\ DiscussionTypeOK /\ ConsumerTypeOK

=============================================================================
