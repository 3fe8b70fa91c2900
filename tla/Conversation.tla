---------------------------- MODULE Conversation ----------------------------
(***************************************************************************)
(* The conversation aggregate: who takes part, whether it is archived, and *)
(* its messages with their read and edited flags.                          *)
(*                                                                         *)
(* The aggregate lives in memory and its methods are synchronous, so a     *)
(* method is one action.  A message is an object the caller may keep:      *)
(* markAsRead and edit work on it whoever calls them, in an archived       *)
(* conversation too.  Nothing stores conversations; `from' builds one      *)
(* again from its columns, which do not hold the messages.  The name and   *)
(* the text of a message are left out, except that a text may be blank.    *)
(***************************************************************************)
EXTENDS Naturals, Sequences, FiniteSets

CONSTANTS
  Participant,      \* user ids
  MaxListed,        \* bound: length of the list given to create
  MaxMessages,      \* bound: messages of a conversation
  NoConversation

VARIABLES
  conversation,     \* the aggregate's own fields, or NoConversation before create
  messages          \* its messages, oldest first

conversationVars == <<conversation, messages>>

Kind == {"DIRECT", "GROUP", "CHANNEL"}
Text == {"blank", "words"}
Message == [sender : Participant, isRead : BOOLEAN, isEdited : BOOLEAN]
Aggregate == [type : Kind, members : SUBSET Participant, active : BOOLEAN]

ASSUME ConversationAssumption ==
  /\ MaxListed \in Nat /\ MaxMessages \in Nat
  /\ NoConversation \notin Aggregate

-----------------------------------------------------------------------------
(* Message *)

NewMessage(u) == [sender |-> u, isRead |-> FALSE, isEdited |-> FALSE]

MarkAsRead(i) ==
  /\ i \in DOMAIN messages
  /\ messages' = [messages EXCEPT ![i].isRead = TRUE]
  /\ UNCHANGED conversation

Edit(i, text) ==
  /\ i \in DOMAIN messages
  /\ text # "blank"
  /\ messages' = [messages EXCEPT ![i].isEdited = TRUE]
  /\ UNCHANGED conversation

-----------------------------------------------------------------------------
(* Conversation *)

\* The list is counted as it was given, with its duplicates and before the creator
\* is added to it; the aggregate keeps the set.
LongEnough(type, ids) ==
  /\ type = "DIRECT" => Len(ids) = 2
  /\ type = "GROUP" => Len(ids) >= 2

CreateConversation(type, by, ids) ==
  /\ conversation = NoConversation
  /\ LongEnough(type, ids)
  /\ conversation' = [type |-> type, members |-> {ids[i] : i \in DOMAIN ids} \union {by},
                       active |-> TRUE]
  /\ messages' = <<>>

\* from: a second aggregate object for the same columns, used from now on.
From ==
  /\ conversation # NoConversation
  /\ messages # <<>>
  /\ messages' = <<>>
  /\ UNCHANGED conversation

Exists == conversation # NoConversation
IsParticipant(u) == u \in conversation.members

AddMessage(u, text) ==
  /\ Exists
  /\ conversation.active /\ IsParticipant(u) /\ text # "blank"
  /\ Len(messages) < MaxMessages
  /\ messages' = Append(messages, NewMessage(u))
  /\ UNCHANGED conversation

CanAdd(u, by) ==
  /\ IsParticipant(by) /\ conversation.type # "DIRECT"
  /\ ~IsParticipant(u)

AddParticipant(u, by) ==
  /\ Exists
  /\ CanAdd(u, by)
  /\ conversation' = [conversation EXCEPT !.members = @ \union {u}]
  /\ UNCHANGED messages

CanRemove(u, by) ==
  /\ IsParticipant(by) /\ conversation.type # "DIRECT"
  /\ IsParticipant(u)
  /\ Cardinality(conversation.members) > 2

RemoveParticipant(u, by) ==
  /\ Exists
  /\ CanRemove(u, by)
  /\ conversation' = [conversation EXCEPT !.members = @ \ {u}]
  /\ UNCHANGED messages

SetActive(by, flag) ==
  /\ Exists
  /\ IsParticipant(by)
  /\ conversation' = [conversation EXCEPT !.active = flag]
  /\ UNCHANGED messages

Archive(by) == SetActive(by, FALSE)
Reactivate(by) == SetActive(by, TRUE)

-----------------------------------------------------------------------------
ConversationInit ==
  /\ conversation = NoConversation
  /\ messages = <<>>

Lists == UNION {[1..n -> Participant] : n \in 0..MaxListed}

ConversationStep ==
  \/ \E type \in Kind, by \in Participant, ids \in Lists : CreateConversation(type, by, ids)
  \/ From
  \/ \E i \in 1..MaxMessages : MarkAsRead(i)
  \/ \E i \in 1..MaxMessages, text \in Text : Edit(i, text)
  \/ \E u \in Participant, text \in Text : AddMessage(u, text)
  \/ \E u, by \in Participant : AddParticipant(u, by) \/ RemoveParticipant(u, by)
  \/ \E by \in Participant : Archive(by) \/ Reactivate(by)

ConversationSpec == ConversationInit /\ [][ConversationStep]_conversationVars

-----------------------------------------------------------------------------
(* Properties *)

ConversationTypeOK ==
  /\ conversation \in Aggregate \union {NoConversation}
  /\ messages \in Seq(Message)

=============================================================================
