-------------------------------- MODULE Cards --------------------------------
(***************************************************************************)
(* The card a client is shown (check_order, src/delivery/handlers.py:33-64)*)
(* is read from the tables of Delivery in two sessions, the order first    *)
(* and its history after it: any writer may come in between.               *)
(***************************************************************************)
EXTENDS Delivery

CONSTANT Readers  \* check_order handlers at work at once

VARIABLE reading  \* reader -> the order and its row as read, or Nothing

Nothing == [order |-> NoOrder, row |-> NoOrder]

cardVars == <<vars, reading>>

CardTypeOK ==
  reading \in [Readers -> [order : OrderIds, row : OrderRow] \cup {Nothing}]

CardInit == Init /\ reading = [c \in Readers |-> Nothing]

-----------------------------------------------------------------------------

\* get_order_by_number: open orders only; for any other the answer is
\* ORDER_NOT_FOUND, and nothing is read on.
ReadOrder(c, o) ==
  /\ reading[c] = Nothing
  /\ Matches(o)
  /\ reading' = [reading EXCEPT ![c] = [order |-> o, row |-> orders[o]]]
  /\ UNCHANGED vars

\* get_order_history, and the card is sent, or the answer fails: RetryMiddleware
\* then reads both again.
ShowCard(c) ==
  /\ reading[c] # Nothing
  /\ reading' = [reading EXCEPT ![c] = Nothing]
  /\ UNCHANGED vars

\* Every writer of the tables may come in between; a crash ends the reader.
CardNext ==
  \/ \E c \in Readers : ShowCard(c) \/ \E o \in OrderIds : ReadOrder(c, o)
  \/ /\ WebhookNext \/ AdminNext \/ OrderNext \/ ClientNext
     /\ UNCHANGED reading
  \/ Crash /\ reading' = [c \in Readers |-> Nothing]

CardSpec == CardInit /\ [][CardNext]_cardVars

-----------------------------------------------------------------------------

(***************************************************************************)
(* README.md:34: the customer sees where the order has been rather than    *)
(* only where it is.  The history on a card (handlers.py:41) is never      *)
(* behind the status on it (handlers.py:36): the row that brought the      *)
(* status is there, and later ones at most, although the two are read in   *)
(* different sessions and the order may move or be closed in between.      *)
(***************************************************************************)
CardTellsStatus ==
  \A c \in Readers :
    reading[c] # Nothing =>
      LET rows == history[reading[c].order]
          last == reading[c].row.version - 1
      IN  /\ last <= Len(rows)
          /\ last > 0 => rows[last].status_id = reading[c].row.status_id

=============================================================================
