---------------------------- MODULE Notifications ----------------------------
(***************************************************************************)
(* The notifications table, the use case that stores a notification, and   *)
(* the repository methods a sender is to mark it with.                     *)
(*                                                                         *)
(* markAsSent and markAsFailed are two statements each, an UPDATE of some  *)
(* columns and a findOneOrFail, and others move in between.  The repository*)
(* has no sender yet (a TODO in the use case announces one): the senders   *)
(* here take a pending row, or one that failed and may be retried, and     *)
(* call either method on it, several at a time.  The owner, title and text *)
(* of a notification never change and are left out.                        *)
(***************************************************************************)
EXTENDS Naturals

CONSTANTS
  Notification,   \* ids
  Sender,         \* callers of the marking methods
  MaxMarks,       \* bound: marks begun
  NoNotification, NoNotificationRow

NotificationRow == [status : {"pending", "sent", "failed"}, sentAt : BOOLEAN, error : BOOLEAN]

ASSUME NotificationAssumption ==
  /\ MaxMarks \in Nat
  /\ NoNotification \notin Notification
  /\ NoNotificationRow \notin NotificationRow

VARIABLES
  notifications,  \* the table: id -> row; sentAt and error tell whether they are set
  sender,         \* sender -> what it does next, and for which notification
  marks,          \* marks begun so far
  gone,           \* history: notifications that were deleted
  delivered       \* history: notifications marked as sent at least once

notificationVars == <<notifications, sender, marks, gone, delivered>>

AtRest == [pc |-> "rest", id |-> NoNotification]
SetSender(s, pc, n) == sender' = [sender EXCEPT ![s] = [pc |-> pc, id |-> n]]
Present(n) == notifications[n] # NoNotificationRow

-----------------------------------------------------------------------------
(* Variants with a bug, to show that the properties can fail. *)

\* markAsFailed, like the entity's method of that name, clears the columns it does
\* not set, but not the status.
FailedColumnsAlone(row) == [row EXCEPT !.sentAt = FALSE, !.error = TRUE]

\* The mark is a save, which inserts a row that is not there.
UpdatedOrInserted(n, row) == [notifications EXCEPT ![n] = row]

-----------------------------------------------------------------------------
(* SendNotificationUseCase and NotificationRepository *)

\* Notification.create
NewNotification == [status |-> "pending", sentAt |-> FALSE, error |-> FALSE]

\* execute: a fresh id, one INSERT.
SendNotification(n) ==
  /\ ~Present(n) /\ n \notin gone
  /\ notifications' = [notifications EXCEPT ![n] = NewNotification]
  /\ UNCHANGED <<sender, marks, gone, delivered>>

\* findPending, or a row whose canRetry is true.
CanRetry(row) == row.status = "failed"

Take(s, n) ==
  /\ sender[s] = AtRest
  /\ Present(n)
  /\ notifications[n].status = "pending" \/ CanRetry(notifications[n])
  /\ marks < MaxMarks
  /\ marks' = marks + 1
  /\ SetSender(s, "holds", n)
  /\ UNCHANGED <<notifications, gone, delivered>>

SentColumns(row) == [row EXCEPT !.status = "sent", !.sentAt = TRUE]
FailedColumns(row) == [row EXCEPT !.status = "failed", !.error = TRUE]

\* UPDATE ... WHERE id: nothing happens if the row is gone.
Updated(n, row) ==
  IF Present(n) THEN [notifications EXCEPT ![n] = row] ELSE notifications

Current(n) == IF Present(n) THEN notifications[n] ELSE NewNotification

MarkAsSent(s) ==
  LET n == sender[s].id IN
  /\ sender[s].pc = "holds"
  /\ notifications' = Updated(n, SentColumns(Current(n)))
  /\ delivered' = IF Present(n) THEN delivered \union {n} ELSE delivered
  /\ SetSender(s, "marked", n)
  /\ UNCHANGED <<marks, gone>>

MarkAsFailed(s) ==
  LET n == sender[s].id IN
  /\ sender[s].pc = "holds"
  /\ notifications' = Updated(n, FailedColumns(Current(n)))
  /\ SetSender(s, "marked", n)
  /\ UNCHANGED <<marks, gone, delivered>>

\* findOneOrFail: the answer is the row as it is by now; it throws if there is none.
FindMarked(s) ==
  /\ sender[s].pc = "marked"
  /\ sender' = [sender EXCEPT ![s] = AtRest]
  /\ UNCHANGED <<notifications, marks, gone, delivered>>

Delete(n) ==
  /\ Present(n)
  /\ notifications' = [notifications EXCEPT ![n] = NoNotificationRow]
  /\ gone' = gone \union {n}
  /\ UNCHANGED <<sender, marks, delivered>>

-----------------------------------------------------------------------------
NotificationInit ==
  /\ notifications = [n \in Notification |-> NoNotificationRow]
  /\ sender = [s \in Sender |-> AtRest]
  /\ marks = 0
  /\ gone = {}
  /\ delivered = {}

NotificationStep ==
  \/ \E n \in Notification : SendNotification(n) \/ Delete(n)
  \/ \E s \in Sender, n \in Notification : Take(s, n)
  \/ \E s \in Sender : MarkAsSent(s) \/ MarkAsFailed(s) \/ FindMarked(s)

NotificationSpec == NotificationInit /\ [][NotificationStep]_notificationVars

-----------------------------------------------------------------------------
(* Properties *)

NotificationTypeOK ==
  /\ notifications \in [Notification -> NotificationRow \union {NoNotificationRow}]
  /\ sender \in [Sender -> [pc : {"rest", "holds", "marked"},
                            id : Notification \union {NoNotification}]]
  /\ marks \in 0..MaxMarks
  /\ gone \in SUBSET Notification
  /\ delivered \in SUBSET Notification

\* However the partial UPDATEs of several senders interleave, the columns of a row
\* agree: a sent one has its time, a failed one its reason, a pending one neither,
\* and there is a time exactly on the rows that were marked as sent at some point,
\* also when a later failure has overwritten the status.
MarksAgree ==
  \A n \in Notification : Present(n) =>
    LET row == notifications[n] IN
    /\ row.status = "sent" => row.sentAt
    /\ row.status = "failed" => row.error
    /\ row.status = "pending" => ~row.sentAt /\ ~row.error
    /\ row.sentAt = (n \in delivered)

\* A mark that was begun before a deletion does not bring the notification back.
DeletedNotificationsStayDeleted == \A n \in gone : ~Present(n)

=============================================================================
