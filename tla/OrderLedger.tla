---------------------------- MODULE OrderLedger -----------------------------
(***************************************************************************)
(* What the tables promise about orders, whoever writes to them: an order  *)
(* is placed once; while it is open it moves from status to status, and    *)
(* each move is one entry at the end of its trail; once closed it never    *)
(* moves and never opens again.                                            *)
(***************************************************************************)
EXTENDS Sequences

CONSTANTS Orders, Statuses

VARIABLES
  phase,    \* o -> "absent", "open" or "closed"
  status,   \* o -> the status o is in, once it is placed
  trail     \* o -> the statuses o has moved to, oldest first

vars == <<phase, status, trail>>

Init ==
  /\ phase = [o \in Orders |-> "absent"]
  /\ status = [o \in Orders |-> "none"]
  /\ trail = [o \in Orders |-> << >>]

Place(o, s) ==
  /\ phase[o] = "absent"
  /\ phase' = [phase EXCEPT ![o] = "open"]
  /\ status' = [status EXCEPT ![o] = s]
  /\ UNCHANGED trail

Move(o, s) ==
  /\ phase[o] = "open"
  /\ status' = [status EXCEPT ![o] = s]
  /\ trail' = [trail EXCEPT ![o] = Append(@, s)]
  /\ UNCHANGED phase

Close(o) ==
  /\ phase[o] = "open"
  /\ phase' = [phase EXCEPT ![o] = "closed"]
  /\ UNCHANGED <<status, trail>>

Next ==
  \E o \in Orders :
    \/ \E s \in Statuses : Place(o, s) \/ Move(o, s)
    \/ Close(o)

Spec == Init /\ [][Next]_vars

=============================================================================
