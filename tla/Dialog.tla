------------------------------- MODULE Dialog -------------------------------
(***************************************************************************)
(* One chat of a configured admin with the bot: the state machine of       *)
(* src/core/fsm.py, the handlers of both routers that move it, and the     *)
(* orders its dialog creates.                                              *)
(*                                                                         *)
(* aiogram reads the chat's state once, when an update arrives, and picks  *)
(* the handler by it.  A message's handler then waits for the throttling   *)
(* middleware's calls to Redis, so it may start after another update has   *)
(* moved the state; it runs again when its answer fails on the network     *)
(* (RetryMiddleware).  A callback has neither middleware.  State and data  *)
(* live in aiogram's MemoryStorage, whose calls never give up the event    *)
(* loop: what a handler does to them between two awaits is one step.       *)
(***************************************************************************)
EXTENDS Naturals, Sequences, FiniteSets

CONSTANTS
  Updates,     \* messages and taps the bot can be working on at once
  Words,       \* texts an admin may type
  Statuses,    \* rows of statuses, never empty once migrated
  Blank,       \* the field a dialog has not filled: data.get(key, "")
  MaxRetries,  \* RetryMiddleware's max_retries
  MaxFaults,   \* bound: network failures, database failures and crashes
  MaxCards     \* bound: different confirmation cards sent

ASSUME DialogAssumption ==
  /\ Blank \notin Words \cup Statuses
  /\ Statuses # {}
  /\ MaxRetries \in Nat \ {0}
  /\ MaxFaults \in Nat
  /\ MaxCards \in Nat

VARIABLES
  state,    \* the chat's FSM state, "none" outside a dialog
  data,     \* the chat's FSM data
  updates,  \* t -> the handler working on update t
  cards,    \* confirmation cards the bot has sent, delivered or not
  created,  \* rows the dialog has inserted into orders, oldest first
  faults    \* faults so far

vars == <<state, data, updates, cards, created, faults>>

States == {"none", "checking", "password",
           "number", "client", "title", "choosing", "confirming"}

Field == Words \cup {Blank}

Data == [number : Field, client : Field, title : Field,
         status : Statuses \cup {Blank}]

NoData == [number |-> Blank, client |-> Blank, title |-> Blank,
           status |-> Blank]

\* The fields confirm_create puts on the card.
Card(d) == [number |-> d.number, client |-> d.client, title |-> d.title]

Commands == {"/start", "check", "/admin", "new"}

Texts == Commands \cup Words

\* Handlers that open a dialog, with the state they set.
Opening == [start_check |-> "checking", cmd_admin |-> "password",
            start_new_order |-> "number"]

\* Handlers that end whatever dialog is open.
Closing == {"cmd_start", "check_password"}

Entering == {"enter_number", "enter_client", "enter_title"}

Handlers == DOMAIN Opening \cup Closing \cup Entering \cup {"check_order"}

Idle == [pc |-> "idle"]

\* A message: "statuses" is enter_title's read of the statuses table.  What
\* a field is given is never a command: those have handlers of their own.
MessageTask ==
  {m \in [pc : {"run", "statuses"}, handler : Handlers,
          text : Texts, tries : 0 .. MaxRetries - 1] :
     m.handler \in Entering => m.text \in Words}

\* A tap on "create", with the data it has read.
ConfirmTask == [pc : {"create", "clear"}, data : Data]

TypeOK ==
  /\ state \in States
  /\ data \in Data
  /\ updates \in [Updates -> MessageTask \cup ConfirmTask \cup {Idle}]
  /\ cards \subseteq [number : Field, client : Field, title : Field]
  /\ created \in Seq(Data)
  /\ faults \in 0 .. MaxFaults

Init ==
  /\ state = "none"
  /\ data = NoData
  /\ updates = [t \in Updates |-> Idle]
  /\ cards = {}
  /\ created = << >>
  /\ faults = 0

Fault ==
  /\ faults < MaxFaults
  /\ faults' = faults + 1

-----------------------------------------------------------------------------
(* Messages *)

\* The handler of a text, the routers' handlers tried in their order: those
\* of delivery/handlers.py first.  "none" is no handler that moves the state.
Route(text) ==
  IF text = "/start" THEN "cmd_start"
  ELSE IF text = "check" THEN "start_check"
  ELSE IF state = "checking" THEN "check_order"
  ELSE IF text = "/admin" THEN "cmd_admin"
  ELSE IF state = "password" THEN "check_password"
  ELSE IF text = "new" THEN "start_new_order"
  ELSE IF state \in {"number", "client", "title"}
    THEN [number |-> "enter_number", client |-> "enter_client",
          title |-> "enter_title"][state]
  ELSE "none"

\* The chat's state is read here and not again.  The handler runs when the
\* throttling middleware lets it, at once or after slow calls to Redis.
Receive(t, text) ==
  /\ updates[t] = Idle
  /\ Route(text) # "none"
  /\ updates' = [updates EXCEPT ![t] =
       [pc |-> "run", handler |-> Route(text), text |-> text, tries |-> 0]]
  /\ UNCHANGED <<state, data, cards, created, faults>>

\* The middleware drops a message that follows another within min_interval.
\* It sits outside the retries, so a handler that is repeated is not dropped.
Throttle(t) ==
  /\ updates[t].pc = "run"
  /\ updates[t].tries = 0
  /\ updates' = [updates EXCEPT ![t] = Idle]
  /\ UNCHANGED <<state, data, cards, created, faults>>

\* The handler's last await, its answer: sent, or given up after the last
\* try; or failed on the network, and the whole handler runs again.
Answer(t) ==
  \/ /\ updates' = [updates EXCEPT ![t] = Idle]
     /\ UNCHANGED faults
  \/ /\ Fault
     /\ updates[t].tries + 1 < MaxRetries
     /\ updates' = [updates EXCEPT ![t].pc = "run", ![t].tries = @ + 1]

\* state.clear()
Clear == state' = "none" /\ data' = NoData

Open(t) ==
  /\ updates[t].pc = "run"
  /\ updates[t].handler \in DOMAIN Opening
  /\ state' = Opening[updates[t].handler]
  /\ Answer(t)
  /\ UNCHANGED <<data, cards, created>>

Close(t) ==
  /\ updates[t].pc = "run"
  /\ updates[t].handler \in Closing
  /\ Clear
  /\ Answer(t)
  /\ UNCHANGED <<cards, created>>

\* get_order_by_number finds an order that any chat created and nobody has
\* closed, or none: an unknown number leaves the dialog open for another try.
CheckOrder(t) ==
  /\ updates[t].pc = "run"
  /\ updates[t].handler = "check_order"
  /\ Clear \/ UNCHANGED <<state, data>>
  /\ Answer(t)
  /\ UNCHANGED <<cards, created>>

EnterNumber(t) ==
  /\ updates[t].pc = "run"
  /\ updates[t].handler = "enter_number"
  /\ data' = [data EXCEPT !.number = updates[t].text]
  /\ state' = "client"
  /\ Answer(t)
  /\ UNCHANGED <<cards, created>>

EnterClient(t) ==
  /\ updates[t].pc = "run"
  /\ updates[t].handler = "enter_client"
  /\ data' = [data EXCEPT !.client = updates[t].text]
  /\ state' = "title"
  /\ Answer(t)
  /\ UNCHANGED <<cards, created>>

\* The title is stored before the statuses are read, the state set after.
EnterTitle(t) ==
  /\ updates[t].pc = "run"
  /\ updates[t].handler = "enter_title"
  /\ data' = [data EXCEPT !.title = updates[t].text]
  /\ updates' = [updates EXCEPT ![t].pc = "statuses"]
  /\ UNCHANGED <<state, cards, created, faults>>

OfferStatuses(t) ==
  /\ updates[t].pc = "statuses"
  /\ state' = "choosing"
  /\ Answer(t)
  /\ UNCHANGED <<data, cards, created>>

-----------------------------------------------------------------------------
(* Taps on the keyboards of the dialog *)

\* Mutant: the button carries the status's place in the list, not its id.
StoresPosition(s) ==
  LET d == [data EXCEPT !.status = s - 1]
  IN  /\ state = "choosing"
      /\ Cardinality(cards \cup {Card(d)}) <= MaxCards
      /\ data' = d
      /\ state' = "confirming"
      /\ cards' = cards \cup {Card(d)}
      /\ UNCHANGED <<updates, created, faults>>

\* choose_status, to the card that asks for confirmation.
ChooseStatus(s) ==
  LET d == [data EXCEPT !.status = s]
  IN  /\ state = "choosing"
      /\ Cardinality(cards \cup {Card(d)}) <= MaxCards
      /\ data' = d
      /\ state' = "confirming"
      /\ cards' = cards \cup {Card(d)}
      /\ UNCHANGED <<updates, created, faults>>

\* confirm_order up to its insert: the data are read at once.
TapCreate(t) ==
  /\ updates[t] = Idle
  /\ state = "confirming"
  /\ updates' = [updates EXCEPT ![t] = [pc |-> "create", data |-> data]]
  /\ UNCHANGED <<state, data, cards, created, faults>>

\* Mutant: orders.number is not UNIQUE.
NeverTaken(number) == FALSE

\* UNIQUE on orders.number, as far as the orders of this chat go.
Taken(number) == \E i \in 1 .. Len(created) : created[i].number = number

\* Mutant: the data are read when the row is inserted.
InsertsCurrentData(t) ==
  /\ updates[t].pc = "create"
  /\ ~Taken(data.number)
  /\ created' = Append(created, data)
  /\ updates' = [updates EXCEPT ![t].pc = "clear"]
  /\ UNCHANGED <<state, data, cards, faults>>

\* create_order raises when the number is taken, by an order of this chat or
\* of another: the handler ends and the dialog stays where it is.
InsertOrder(t) ==
  /\ updates[t].pc = "create"
  /\ \/ /\ ~Taken(updates[t].data.number)
        /\ created' = Append(created, updates[t].data)
        /\ updates' = [updates EXCEPT ![t].pc = "clear"]
     \/ /\ updates' = [updates EXCEPT ![t] = Idle]
        /\ UNCHANGED created
  /\ UNCHANGED <<state, data, cards, faults>>

\* Mutant: set_data({}) in place of clear().
EmptiesDataOnly(t) ==
  /\ updates[t].pc = "clear"
  /\ data' = NoData
  /\ updates' = [updates EXCEPT ![t] = Idle]
  /\ UNCHANGED <<state, cards, created, faults>>

\* The rest of confirm_order.
EndDialog(t) ==
  /\ updates[t].pc = "clear"
  /\ Clear
  /\ updates' = [updates EXCEPT ![t] = Idle]
  /\ UNCHANGED <<cards, created, faults>>

\* cancel_order asks for no state: any card ever sent will do.
TapCancel ==
  /\ cards # {}
  /\ Clear
  /\ UNCHANGED <<updates, cards, created, faults>>

-----------------------------------------------------------------------------

\* get_statuses raises and ends its handler, the title stored already.
FailDb(t) ==
  /\ updates[t].pc = "statuses"
  /\ Fault
  /\ updates' = [updates EXCEPT ![t] = Idle]
  /\ UNCHANGED <<state, data, cards, created>>

\* The FSM is in memory: a restart forgets it, the orders and the chat stay.
Crash ==
  /\ Fault
  /\ Clear
  /\ updates' = [t \in Updates |-> Idle]
  /\ UNCHANGED <<cards, created>>

Work(t) ==
  \/ Throttle(t) \/ Open(t) \/ Close(t) \/ CheckOrder(t)
  \/ EnterNumber(t) \/ EnterClient(t) \/ EnterTitle(t) \/ OfferStatuses(t)
  \/ InsertOrder(t) \/ EndDialog(t)

Next ==
  \/ \E t \in Updates :
       \/ \E text \in Texts : Receive(t, text)
       \/ Work(t) \/ TapCreate(t) \/ FailDb(t)
  \/ \E s \in Statuses : ChooseStatus(s)
  \/ TapCancel
  \/ Crash

Spec == Init /\ [][Next]_vars

-----------------------------------------------------------------------------
(* Properties *)

Orders == {created[i] : i \in 1 .. Len(created)}

(***************************************************************************)
(* confirm_order falls back to status 0 (admin/handlers.py:129), which no  *)
(* JOIN with statuses shows: such an order exists and nobody can see it.   *)
(* However updates overlap, fail or repeat, no order is created without a  *)
(* status its admin chose.                                                 *)
(***************************************************************************)
CreatedWithStatus == \A d \in Orders : d.status \in Statuses

(***************************************************************************)
(* Number and client of a new order stood together on a confirmation card  *)
(* (admin/handlers.py:108-116), although a late message or a handler that  *)
(* is repeated may rewrite the data at any await of another.               *)
(***************************************************************************)
CreatedFromACard ==
  \A d \in Orders : \E c \in cards : c.number = d.number /\ c.client = d.client

\* No two orders of the dialog share a number.
NumbersDiffer ==
  \A i, j \in 1 .. Len(created) :
    created[i].number = created[j].number => i = j

(***************************************************************************)
(* Taps on "create" run side by side (admin/handlers.py:119-134) and each  *)
(* inserts what it has read, the dialog being cleared only later; still,   *)
(* there are never more orders than different cards: each order has a card *)
(* of its own that asked for it.                                           *)
(***************************************************************************)
OneOrderPerCard == Len(created) <= Cardinality(cards)

AskOf(d) == [number |-> d.number, client |-> d.client]

RowOf(d) == [number |-> d.number, client |-> d.client, status |-> d.status]

Asked == {AskOf(c) : c \in cards}

Placed == [i \in 1 .. Len(created) |-> RowOf(created[i])]

Promise == INSTANCE Desk WITH asked <- Asked, placed <- Placed

(***************************************************************************)
(* The dialogs implement Desk: what is inserted (admin/handlers.py:124)    *)
(* was asked about by a card that went out before, not after; it has a     *)
(* status and a number of its own; and whatever runs later, a repeated     *)
(* handler or a restart, takes no order and no question back.              *)
(***************************************************************************)
ImplementsDesk == Promise!Spec

(***************************************************************************)
(* delivery/texts.py:95: the confirmation step shows what exactly will be  *)
(* created, before it is written to the database.                          *)
(***************************************************************************)
CreatedAsShown == \A d \in Orders : Card(d) \in cards

=============================================================================
