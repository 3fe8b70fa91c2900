---------------------------- MODULE EventDelivery ----------------------------
(***************************************************************************)
(* What the transactional outbox promises, with no table, worker or broker *)
(* protocol in sight: a message that was accepted is owed until it has     *)
(* been delivered at least once, and nothing that was not accepted is ever *)
(* delivered.  Outbox is checked, and its safety part proved, to implement *)
(* this.                                                                   *)
(***************************************************************************)
CONSTANTS
  Message,     \* what may be handed over for delivery
  Healthy      \* the messages the transport is able to carry, a subset of Message

VARIABLES
  accepted,    \* every message ever handed over
  owed,        \* accepted and not yet acknowledged as delivered
  delivered    \* delivered at least once

dvars == <<accepted, owed, delivered>>

Init ==
  /\ accepted = {}
  /\ owed = {}
  /\ delivered = {}

Accept(m) ==
  /\ m \notin accepted
  /\ accepted' = accepted \union {m}
  /\ owed' = owed \union {m}
  /\ UNCHANGED delivered

\* A second delivery of the same message is a stuttering step.
Deliver(m) ==
  /\ m \in accepted
  /\ delivered' = delivered \union {m}
  /\ UNCHANGED <<accepted, owed>>

\* The debt is dropped only for a message that got through.
Acknowledge(m) ==
  /\ m \in owed
  /\ m \in delivered
  /\ owed' = owed \ {m}
  /\ UNCHANGED <<accepted, delivered>>

Next == \E m \in Message : Accept(m) \/ Deliver(m) \/ Acknowledge(m)

Safety == Init /\ [][Next]_dvars

\* Every healthy message that is accepted is delivered and acknowledged.
Progress == \A m \in Healthy : (m \in accepted) ~> (m \in delivered /\ m \notin owed)

=============================================================================
