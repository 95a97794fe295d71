----------------------------- MODULE AdminPanel -----------------------------
(***************************************************************************)
(* The callbacks of the admin panel that change orders                     *)
(* (src/admin/handlers.py).  aiogram runs every update as a task of its    *)
(* own, so two taps on the same "next" button are two tasks that           *)
(* interleave at each await.  The long one is next_status:                 *)
(*                                                                         *)
(*   get_order, get_next_status -> update -> subscribers -> notify         *)
(*                                                                         *)
(* A keyboard stays in the chat for ever: a callback may name an order     *)
(* that has moved on or was closed since its keyboard was sent.            *)
(***************************************************************************)
EXTENDS OrderStore

CONSTANT AdminTasks   \* callbacks the event loop can be working on at once

VARIABLES
  tasks,     \* a -> what the callback does next, its order and what it read
  notified   \* <<user, order, status>>: messages Telegram has delivered

adminVars == <<tasks, notified>>

IdleTask == [pc |-> "idle"]

TaskRow == [pc : {"update", "subscribers", "notify"}, order : OrderIds,
            status : Statuses, pending : SUBSET Users]

AdminTypeOK ==
  /\ tasks \in [AdminTasks -> TaskRow \cup {IdleTask}]
  /\ notified \subseteq Users \X OrderIds \X Statuses

AdminInit ==
  /\ tasks = [a \in AdminTasks |-> IdleTask]
  /\ notified = {}

-----------------------------------------------------------------------------
(* next_status *)

\* The order's status and its successor, read before the first write.  The
\* transitions never change, so both reads are one step.  get_order asks for
\* no is_active: the button works on a closed order too.
PressNext(a, o) ==
  /\ tasks[a] = IdleTask
  /\ Exists(o)
  /\ \E s \in Successors(orders[o].status_id) :
       tasks' = [tasks EXCEPT ![a] = [pc |-> "update", order |-> o,
                                      status |-> s, pending |-> {}]]
  /\ UNCHANGED <<storeVars, faults, notified>>

\* Mutant: the status is read and announced, the update is forgotten.
ForgetsUpdate(a) ==
  /\ tasks[a].pc = "update"
  /\ tasks' = [tasks EXCEPT ![a].pc = "subscribers"]
  /\ UNCHANGED <<storeVars, faults, notified>>

\* The result of update_order_status is ignored.
NextUpdate(a) ==
  /\ tasks[a].pc = "update"
  /\ UpdateOrderStatus(tasks[a].order, tasks[a].status, "admin")
  /\ tasks' = [tasks EXCEPT ![a].pc = "subscribers"]
  /\ UNCHANGED <<faults, notified>>

\* The callback with these users left to tell; with none left it ends.
Notifying(a, users) ==
  tasks' = [tasks EXCEPT ![a] =
              IF users = {} THEN IdleTask
              ELSE [@ EXCEPT !.pc = "notify", !.pending = users]]

\* Mutant: "AND is_active = 0".
LeftSubscribers(o) == Users \ subs[o]

\* get_order_subscribers
Subscribers(o) == subs[o]

NextSubscribers(a) ==
  /\ tasks[a].pc = "subscribers"
  /\ Notifying(a, Subscribers(tasks[a].order))
  /\ UNCHANGED <<storeVars, faults, notified>>

\* Sends that fail are passed over: that user is never told of this change.
NextNotify(a, u) ==
  /\ tasks[a].pc = "notify"
  /\ u \in tasks[a].pending
  /\ \/ notified' = notified \cup {<<u, tasks[a].order, tasks[a].status>>}
        /\ UNCHANGED faults
     \/ Fault /\ UNCHANGED notified
  /\ Notifying(a, tasks[a].pending \ {u})
  /\ UNCHANGED storeVars

\* A database call raises: the error handler logs it and the callback ends.
AdminError(a) ==
  /\ tasks[a].pc \in {"update", "subscribers"}
  /\ Fault
  /\ tasks' = [tasks EXCEPT ![a] = IdleTask]
  /\ UNCHANGED <<storeVars, notified>>

\* What the event loop owes a callback it has started.
TaskStep(a) ==
  NextUpdate(a) \/ NextSubscribers(a) \/ \E u \in Users : NextNotify(a, u)

-----------------------------------------------------------------------------
(* The callbacks that make one database call *)

\* confirm_close, on any order its keyboard names, closed already or not.
ConfirmClose(o) ==
  /\ CloseOrder(o)
  /\ UNCHANGED <<faults, adminVars>>

\* confirm_order, at the end of the dialog that creates an order.
ConfirmOrder(o, s) ==
  /\ CreateOrder(o, s)
  /\ UNCHANGED <<faults, adminVars>>

=============================================================================
