----------------------------- MODULE OrderStore -----------------------------
(***************************************************************************)
(* The SQLite tables of src/core/migrations.py and the statements that     *)
(* src/delivery/service.py runs on them.  One operator is one transaction: *)
(* db.transaction() commits everything in its block or nothing, and SQLite *)
(* has one writer at a time, so what other coroutines can see between the  *)
(* statements of one block is nothing.                                     *)
(*                                                                         *)
(* The tables statuses and status_transitions are written by the migration *)
(* alone, so they are constants here.                                      *)
(***************************************************************************)
EXTENDS Naturals, Sequences

CONSTANTS
  OrderIds,     \* row ids the orders table may hand out
  Statuses,     \* rows of statuses, all of them active
  Transitions,  \* rows of status_transitions, as pairs of statuses
  Users,        \* Telegram users who may subscribe
  Stamps,       \* values of source_timestamp
  NoOrder,      \* "no such row"
  MaxFaults     \* bound: environment faults in one behaviour

ASSUME StoreAssumption ==
  /\ Transitions \subseteq Statuses \X Statuses
  /\ "admin" \notin Stamps
  /\ MaxFaults \in Nat

VARIABLES
  orders,   \* id -> row of orders, or NoOrder
  history,  \* id -> rows of order_status_history, in insertion order
  subs,     \* id -> users with an active row in subscriptions
  events,   \* rows of webhook_events: <<order_id, status_id, source_timestamp>>
  faults    \* environment faults so far

storeVars == <<orders, history, subs, events>>

OrderRow == [status_id : Statuses, is_active : {0, 1}, version : Nat \ {0}]

ASSUME NoOrderAssumption == NoOrder \notin OrderRow

(***************************************************************************)
(* A history row.  Its source is what changed_by and comment tell apart: a *)
(* callback of an admin, or the webhook; the stamp of the webhook's event  *)
(* and the status the update replaced are history variables, which no      *)
(* statement reads.                                                        *)
(***************************************************************************)
HistoryRow == [status_id : Statuses, source : Stamps \cup {"admin"},
               prev : Statuses]

StoreTypeOK ==
  /\ orders \in [OrderIds -> OrderRow \cup {NoOrder}]
  /\ history \in [OrderIds -> Seq(HistoryRow)]
  /\ subs \in [OrderIds -> SUBSET Users]
  /\ events \subseteq OrderIds \X Statuses \X Stamps
  /\ faults \in 0..MaxFaults

StoreInit ==
  /\ orders = [o \in OrderIds |-> NoOrder]
  /\ history = [o \in OrderIds |-> << >>]
  /\ subs = [o \in OrderIds |-> {}]
  /\ events = {}
  /\ faults = 0

\* One more fault of the environment, while the bound allows it.
Fault ==
  /\ faults < MaxFaults
  /\ faults' = faults + 1

-----------------------------------------------------------------------------
(* Orders *)

Exists(o) == orders[o] # NoOrder

\* create_order: a new row, open, at version 1, with no history row.
CreateOrder(o, s) ==
  /\ ~Exists(o)
  /\ orders' = [orders EXCEPT ![o] =
                  [status_id |-> s, is_active |-> 1, version |-> 1]]
  /\ UNCHANGED <<history, subs, events>>

\* Mutant: the WHERE clause without "AND is_active = 1".
MatchesAnyRow(o) == Exists(o)

\* "WHERE id = :oid AND is_active = 1": whether rowcount is positive.
Matches(o) == Exists(o) /\ orders[o].is_active = 1

\* Mutant: the history row is never inserted.
LoggedNothing(o, s, source) == history[o]

\* The history of o with the row the update inserts.
Logged(o, s, source) ==
  Append(history[o], [status_id |-> s, source |-> source,
                      prev |-> orders[o].status_id])

(***************************************************************************)
(* update_order_status, which returns Matches(o).  It takes whatever       *)
(* status it is given: the graph of transitions is not consulted.          *)
(***************************************************************************)
UpdateOrderStatus(o, s, source) ==
  /\ \/ /\ Matches(o)
        /\ orders' = [orders EXCEPT ![o].status_id = s, ![o].version = @ + 1]
        /\ history' = [history EXCEPT ![o] = Logged(o, s, source)]
     \/ /\ ~Matches(o)
        /\ UNCHANGED <<orders, history>>
  /\ UNCHANGED <<subs, events>>

\* Mutant: SET is_active = is_active - 1.
InactiveByDecrement(o) == orders[o].is_active - 1

\* SET is_active = 0.
Inactive(o) == 0

\* close_order, whatever the row's state.
CloseOrder(o) ==
  /\ Exists(o)
  /\ orders' = [orders EXCEPT ![o].is_active = Inactive(o)]
  /\ UNCHANGED <<history, subs, events>>

\* Mutant: every status follows every other.
AnySuccessor(s) == Statuses

\* get_next_status: fetchone() of a query without ORDER BY, any successor.
Successors(s) == {t \in Statuses : <<s, t>> \in Transitions}

-----------------------------------------------------------------------------
(* Subscriptions: UNIQUE(order_id, user_id), so one flag for each pair *)

SubscribeOrder(o, u) ==
  /\ subs' = [subs EXCEPT ![o] = @ \cup {u}]
  /\ UNCHANGED <<orders, history, events>>

UnsubscribeOrder(o, u) ==
  /\ subs' = [subs EXCEPT ![o] = @ \ {u}]
  /\ UNCHANGED <<orders, history, events>>

-----------------------------------------------------------------------------
(* What the tables promise *)

(***************************************************************************)
(* The history table tells the whole story of an order: its version counts *)
(* the rows, each row starts from the status the row before left, and the  *)
(* last one is the status orders holds.  Every writer of orders.status_id  *)
(* must insert its row in the same transaction for this to survive         *)
(* concurrent updates.                                                     *)
(***************************************************************************)
HistoryTellsStatus ==
  \A o \in OrderIds :
    /\ ~Exists(o) => history[o] = << >>
    /\ Exists(o) => orders[o].version = Len(history[o]) + 1
    /\ Exists(o) /\ history[o] # << >> =>
         orders[o].status_id = history[o][Len(history[o])].status_id
    /\ \A i \in 1 .. Len(history[o]) - 1 :
         history[o][i + 1].prev = history[o][i].status_id

(***************************************************************************)
(* README.md:37: status changes are validated against the allowed graph    *)
(* rather than written straight to the database.  Every recorded change    *)
(* follows a row of status_transitions.                                    *)
(***************************************************************************)
OnlyAllowedTransitions ==
  \A o \in OrderIds : \A i \in 1 .. Len(history[o]) :
    <<history[o][i].prev, history[o][i].status_id>> \in Transitions

=============================================================================
