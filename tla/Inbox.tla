-------------------------------- MODULE Inbox --------------------------------
(***************************************************************************)
(* What the webhook promises to the sender of an event, whoever else is at *)
(* work and whatever fails: the event is applied, then recorded, never the *)
(* other way round; neither is undone; and it is acknowledged only once it *)
(* is recorded.  How often it is applied is no part of the promise.        *)
(***************************************************************************)
CONSTANT Events

VARIABLES
  applied,    \* events whose change has reached the order
  recorded,   \* events that will not be applied again by a new delivery
  acked       \* events whose sender was told that it is done

vars == <<applied, recorded, acked>>

Init ==
  /\ applied = {}
  /\ recorded = {}
  /\ acked = {}

Apply(e) ==
  /\ e \notin applied
  /\ applied' = applied \cup {e}
  /\ UNCHANGED <<recorded, acked>>

\* The answer goes out with the record, and may be lost.
Record(e) ==
  /\ e \notin recorded
  /\ recorded' = recorded \cup {e}
  /\ e \in applied
  /\ acked' = acked \cup {e} \/ UNCHANGED acked
  /\ UNCHANGED applied

\* The answer to an event that is sent again.
Acknowledge(e) ==
  /\ e \in recorded
  /\ acked' = acked \cup {e}
  /\ UNCHANGED <<applied, recorded>>

Next == \E e \in Events : Apply(e) \/ Record(e) \/ Acknowledge(e)

Spec == Init /\ [][Next]_vars

=============================================================================
