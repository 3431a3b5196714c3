------------------------------- MODULE Channel --------------------------------
(***************************************************************************)
(* What an outbox promises to the consumers of its topic, without tables,  *)
(* statuses or relays: a recorded message is delivered at least once before *)
(* the service settles it, and not again after that.                       *)
(***************************************************************************)
EXTENDS Naturals

CONSTANT Messages

VARIABLES
  recorded,   \* messages the service has recorded
  delivered,  \* how often each message was put into the topic
  settled     \* recorded messages the service is done with

vars == <<recorded, delivered, settled>>

Init ==
  /\ recorded = {}
  /\ delivered = [m \in Messages |-> 0]
  /\ settled = {}

Record(m) ==
  /\ m \notin recorded
  /\ recorded' = recorded \cup {m}
  /\ UNCHANGED <<delivered, settled>>

\* Any number of times, until the message is settled.
Deliver(m) ==
  /\ m \in recorded \ settled
  /\ delivered' = [delivered EXCEPT ![m] = @ + 1]
  /\ UNCHANGED <<recorded, settled>>

Settle(m) ==
  /\ m \in recorded \ settled
  /\ delivered[m] > 0
  /\ settled' = settled \cup {m}
  /\ UNCHANGED <<recorded, delivered>>

Next == \E m \in Messages : Record(m) \/ Deliver(m) \/ Settle(m)

Spec == Init /\ [][Next]_vars
=============================================================================
