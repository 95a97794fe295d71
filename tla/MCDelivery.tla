----------------------------- MODULE MCDelivery -----------------------------
(***************************************************************************)
(* Small instances of Delivery for TLC.                                    *)
(***************************************************************************)
EXTENDS Delivery, TLC

CONSTANTS o1, u1, u2, r1, r2, a1, a2, malformed, infinite, unstorable, none

\* The chain migrations.py seeds, three statuses of it.
Chain == {1, 2, 3}
ChainEdges == {<<1, 2>>, <<2, 3>>}

\* Two statuses and the one pair between them.
OneEdge == {<<1, 2>>}

Event(o, s, t) == [secret |-> "s3cret", order_id |-> o, status_id |-> s,
                   ts |-> t]

NoEvents == {}

OneEvent == {Event(o1, 2, "t1")}

\* Both statuses of OneEdge, reported at two times.
TwoEvents == OneEvent \cup {Event(o1, 1, "t2")}

\* A status that no row of status_transitions reaches from the first.
SkippingEvent == {Event(o1, 3, "t1")}

\* Events that are answered 500 each time they come.
RaisingEvents == {Event(unstorable, 2, "t1"), Event(infinite, 2, "")}

\* One event that can be applied, one with a status name the handler does not
\* know, and those that raise.
WithBadEvents == OneEvent \cup {Event(o1, 9, "t1")} \cup RaisingEvents

RequestSymmetry == Permutations(Requests)

AdminSymmetry == Permutations(AdminTasks)

=============================================================================
