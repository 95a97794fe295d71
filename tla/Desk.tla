-------------------------------- MODULE Desk --------------------------------
(***************************************************************************)
(* What the dialogs of a chat promise its admin, however their handlers    *)
(* overlap, repeat and fail: the bot asks whether an order shall be        *)
(* created, and creates only what it has asked about before, with one of   *)
(* the statuses, at most one order for a number, and takes none back.      *)
(* Nothing is said of the title, nor of who answered the question.         *)
(***************************************************************************)
EXTENDS Naturals, Sequences

CONSTANTS
  Field,      \* what may stand in a field of a card
  Statuses    \* the choices of a status

VARIABLES
  asked,      \* numbers and clients that stood together on a card
  placed      \* orders created, oldest first

vars == <<asked, placed>>

Init ==
  /\ asked = {}
  /\ placed = << >>

Asks == [number : Field, client : Field]

\* What the bot has asked it has asked for good.
Ask ==
  /\ UNCHANGED placed
  /\ asked \subseteq asked'
  /\ asked' \subseteq Asks

Free(number) == \A i \in 1 .. Len(placed) : placed[i].number # number

Place(ask, s) ==
  /\ Free(ask.number)
  /\ placed' = Append(placed, [number |-> ask.number, client |-> ask.client,
                               status |-> s])
  /\ UNCHANGED asked

Next ==
  \/ Ask
  \/ \E ask \in asked, s \in Statuses : Place(ask, s)

Spec == Init /\ [][Next]_vars

=============================================================================
