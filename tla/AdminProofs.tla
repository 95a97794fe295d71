---------------------------- MODULE AdminProofs -----------------------------
(***************************************************************************)
(* What an admin's "next" may write, and what subscribers are told of it.  *)
(***************************************************************************)
EXTENDS DeliveryProofs

\* Every status o has been in.
Held(o) == {orders[o].status_id} \cup HeldBefore(o, Len(history[o]))

\* A callback about to write holds a successor of a status its order was in.
TasksFollow ==
  \A a \in AdminTasks :
    tasks[a].pc = "update" =>
      /\ Exists(tasks[a].order)
      /\ \E s \in Held(tasks[a].order) : <<s, tasks[a].status>> \in Transitions

EdgeInv == TasksFollow /\ AdminMovesFollowAnEdge

\* A status once held is held for ever.
LEMMA HeldGrows ==
  ASSUME Typed, [Next]_vars, NEW o \in OrderIds, Exists(o)
  PROVE  Exists(o)' /\ Held(o) \subseteq Held(o)'
<1> USE DEF Typed, TypeOK
<1>1. CASE Untouched(o)
  BY <1>1 DEF Untouched, Exists, Held, HeldBefore
<1>2. CASE Closed(o)
  BY <1>2, ClosedRow DEF Held, HeldBefore
<1>3. ASSUME NEW s \in Statuses, NEW source \in Stamps \cup {"admin"},
             Moved(o, s, source)
      PROVE  Exists(o)' /\ Held(o) \subseteq Held(o)'
  <2> DEFINE n == Len(history[o])
  <2>0. /\ Exists(o)'
        /\ n \in Nat
        /\ Len(history'[o]) = n + 1
        /\ \A i \in 1 .. n : history'[o][i] = history[o][i]
        /\ history'[o][n + 1] =
             [status_id |-> s, source |-> source, prev |-> orders[o].status_id]
    BY <1>3, MovedRow
  <2>1. history'[o][n + 1].prev = orders[o].status_id
    BY <2>0
  <2>2. orders[o].status_id \in HeldBefore(o, Len(history[o]))'
    BY <2>0, <2>1 DEF HeldBefore
  <2>3. HeldBefore(o, n) \subseteq HeldBefore(o, Len(history[o]))'
    BY <2>0, <2>1 DEF HeldBefore
  <2>4. HeldBefore(o, Len(history[o]))' \subseteq Held(o)'
    BY DEF Held
  <2>5. Held(o) \subseteq HeldBefore(o, Len(history[o]))'
    <3>1. SUFFICES ASSUME NEW p \in Held(o)
                   PROVE  p \in HeldBefore(o, Len(history[o]))'
      OBVIOUS
    <3>2. p = orders[o].status_id \/ p \in HeldBefore(o, n)
      BY DEF Held
    <3> HIDE DEF n
    <3> QED
      BY <3>2, <2>2, <2>3
  <2> HIDE DEF n
  <2> QED
    BY <2>0, <2>4, <2>5
<1>4. ~Placed(o)
  BY DEF Placed
<1> QED
  BY <1>1, <1>2, <1>3, <1>4, NextOrder DEF OrderStep, MovedByAdmin, TaskRow

\* How a step brings a callback to its update.
LEMMA TaskEffect ==
  ASSUME Typed, [Next]_vars, NEW a \in AdminTasks, tasks'[a].pc = "update"
  PROVE  \/ tasks'[a] = tasks[a]
         \/ \E o \in OrderIds : PressNext(a, o)
<1> USE DEF Typed, TypeOK, AdminTypeOK
<1>1. CASE AdminNext
  <2>1. PICK b \in AdminTasks :
          \/ \E o \in OrderIds : PressNext(b, o)
          \/ TaskStep(b)
          \/ AdminError(b)
    BY <1>1 DEF AdminNext
  <2>2. CASE \E o \in OrderIds : PressNext(b, o)
    BY <2>2 DEF PressNext
  <2>3. CASE NextUpdate(b)
    <3>1. tasks' = [tasks EXCEPT ![b].pc = "subscribers"] /\ tasks[b] \in TaskRow
      BY <2>3, TaskAtWork DEF NextUpdate
    <3> QED
      BY <3>1 DEF TaskRow
  <2>4. ASSUME NEW users \in SUBSET Users, Notifying(b, users), tasks[b] \in TaskRow
        PROVE  tasks'[a] = tasks[a]
    BY <2>4 DEF Notifying, TaskRow, IdleTask
  <2>5. CASE NextSubscribers(b)
    <3>1. tasks[b] \in TaskRow /\ Notifying(b, Subscribers(tasks[b].order))
      BY <2>5, TaskAtWork DEF NextSubscribers
    <3>2. Subscribers(tasks[b].order) \in SUBSET Users
      BY <3>1 DEF Subscribers, StoreTypeOK, TaskRow
    <3> QED
      BY <2>4, <3>1, <3>2
  <2>6. CASE \E u \in Users : NextNotify(b, u)
    <3>1. PICK u \in Users : NextNotify(b, u)
      BY <2>6
    <3>2. tasks[b] \in TaskRow /\ Notifying(b, tasks[b].pending \ {u})
      BY <3>1, TaskAtWork DEF NextNotify
    <3>3. tasks[b].pending \ {u} \in SUBSET Users
      BY <3>2 DEF TaskRow
    <3> QED
      BY <2>4, <3>2, <3>3
  <2>7. CASE AdminError(b)
    BY <2>7 DEF AdminError, IdleTask
  <2> QED
    BY <2>1, <2>2, <2>3, <2>5, <2>6, <2>7 DEF TaskStep
<1>2. CASE ~AdminNext
  BY <1>2 DEF Next, WebhookNext, OrderNext, ConfirmClose, ConfirmOrder, ClientNext,
     Subscribe, Unsubscribe, Crash, adminVars, vars, IdleTask
<1> QED
  BY <1>1, <1>2

LEMMA TasksFollowStep ==
  ASSUME Typed, EdgeInv, [Next]_vars
  PROVE  TasksFollow'
<1> SUFFICES ASSUME NEW a \in AdminTasks, tasks'[a].pc = "update"
             PROVE  /\ Exists(tasks[a].order)'
                    /\ \E s \in Held(tasks[a].order)' :
                         <<s, tasks'[a].status>> \in Transitions
  BY DEF TasksFollow
<1> USE DEF Typed, TypeOK
<1>1. CASE tasks'[a] = tasks[a]
  <2>1. PICK o \in OrderIds : o = tasks[a].order
    BY <1>1, TaskAtWork DEF TaskRow
  <2>2. PICK s \in Held(o) : <<s, tasks[a].status>> \in Transitions
    BY <1>1, <2>1 DEF EdgeInv, TasksFollow
  <2>3. Exists(o)' /\ s \in Held(o)'
    BY <1>1, <2>1, <2>2, HeldGrows DEF EdgeInv, TasksFollow
  <2>4. tasks'[a].order = o /\ tasks'[a].status = tasks[a].status
    BY <1>1, <2>1
  <2>5. Exists(tasks[a].order)'
    BY <2>3, <2>4 DEF Exists
  <2>6. s \in Held(tasks[a].order)'
    BY <2>3, <2>4 DEF Held, HeldBefore
  <2> QED
    BY <2>2, <2>4, <2>5, <2>6
<1>2. CASE \E o \in OrderIds : PressNext(a, o)
  <2>1. PICK o \in OrderIds : PressNext(a, o)
    BY <1>2
  <2>2. PICK s \in Successors(orders[o].status_id) :
          tasks' = [tasks EXCEPT ![a] = [pc |-> "update", order |-> o,
                                         status |-> s, pending |-> {}]]
    BY <2>1 DEF PressNext
  <2>3. tasks'[a].order = o /\ tasks'[a].status = s
    BY <2>2 DEF AdminTypeOK
  <2>4. UNCHANGED <<orders, history>> /\ Exists(o)
    BY <2>1 DEF PressNext, storeVars
  <2> QED
    BY <2>2, <2>3, <2>4 DEF Successors, Held, HeldBefore, Exists
<1> QED
  BY <1>1, <1>2, TaskEffect

\* The rows of one order an admin wrote.
EdgesOf(o) ==
  \A i \in 1 .. Len(history[o]) :
    history[o][i].source = "admin" =>
      \E s \in HeldBefore(o, i) : <<s, history[o][i].status_id>> \in Transitions

LEMMA EdgesKept ==
  ASSUME Typed, EdgeInv, [Next]_vars, NEW o \in OrderIds
  PROVE  EdgesOf(o)'
<1> USE DEF Typed, TypeOK
<1> DEFINE n == Len(history[o])
<1>0. EdgesOf(o)
  BY DEF EdgeInv, AdminMovesFollowAnEdge, EdgesOf
<1>1. CASE UNCHANGED history[o]
  BY <1>0, <1>1 DEF EdgesOf, HeldBefore
<1>2. ASSUME NEW s \in Statuses, NEW source \in Stamps \cup {"admin"},
             Moved(o, s, source),
             source = "admin" => \E p \in Held(o) : <<p, s>> \in Transitions
      PROVE  EdgesOf(o)'
  <2>1. /\ n \in Nat
        /\ Len(history'[o]) = n + 1
        /\ \A i \in 1 .. n : history'[o][i] = history[o][i]
        /\ history'[o][n + 1] =
             [status_id |-> s, source |-> source, prev |-> orders[o].status_id]
    BY <1>2, MovedRow
  <2> SUFFICES ASSUME NEW i \in 1 .. n + 1, history'[o][i].source = "admin"
               PROVE  \E p \in HeldBefore(o, i)' :
                        <<p, history'[o][i].status_id>> \in Transitions
    BY <2>1 DEF EdgesOf, HeldBefore
  <2>2. CASE i = n + 1
    <3>1. Held(o) \subseteq HeldBefore(o, i)'
      BY <2>1, <2>2 DEF Held, HeldBefore
    <3>2. history'[o][i].status_id = s /\ source = "admin"
      BY <2>1, <2>2
    <3> QED
      BY <1>2, <3>1, <3>2
  <2>3. CASE i \in 1 .. n
    <3>1. HeldBefore(o, i)' = HeldBefore(o, i)
      <4>1. \A j \in 1 .. i : j \in 1 .. n
        BY <2>1, <2>3
      <4>2. \A j \in 1 .. i : history'[o][j].prev = history[o][j].prev
        BY <2>1, <4>1
      <4> QED
        BY <4>2, Zenon DEF HeldBefore
    <3> QED
      BY <1>0, <2>1, <2>3, <3>1 DEF EdgesOf
  <2> HIDE DEF n
  <2> QED
    BY <2>1, <2>2, <2>3
<1>3. CASE MovedByAdmin(o)
  <2>1. PICK a \in AdminTasks :
          /\ tasks[a] \in TaskRow
          /\ tasks[a].pc = "update"
          /\ tasks[a].order = o
          /\ Moved(o, tasks[a].status, "admin")
    BY <1>3 DEF MovedByAdmin
  <2>2. \E p \in Held(o) : <<p, tasks[a].status>> \in Transitions
    BY <2>1 DEF EdgeInv, TasksFollow
  <2> QED
    BY <1>2, <2>1, <2>2 DEF TaskRow
<1>4. CASE \E s \in Statuses, t \in Stamps : Moved(o, s, t)
  BY <1>2, <1>4, StoreAssumption
<1> QED
  BY <1>1, <1>3, <1>4, NextOrder DEF OrderStep, Untouched, Placed, Closed

LEMMA InitEdge == Init => EdgeInv
<1> SUFFICES ASSUME Init PROVE EdgeInv
  OBVIOUS
<1>1. TasksFollow
  BY DEF Init, AdminInit, TasksFollow, IdleTask
<1>2. \A o \in OrderIds : Len(history[o]) = 0
  BY DEF Init, StoreInit
<1> QED
  BY <1>1, <1>2 DEF EdgeInv, AdminMovesFollowAnEdge

LEMMA EdgeStep == Typed /\ EdgeInv /\ [Next]_vars => EdgeInv'
<1> SUFFICES ASSUME Typed, EdgeInv, [Next]_vars PROVE EdgeInv'
  OBVIOUS
<1>1. \A o \in OrderIds : EdgesOf(o)'
  BY EdgesKept
<1> QED
  BY <1>1, TasksFollowStep DEF EdgeInv, AdminMovesFollowAnEdge, EdgesOf, HeldBefore

\* Whatever interleaves between an admin's read and write, the status written
\* follows one the order was in (admin/handlers.py:175-184).
THEOREM AdminMovesFollow == Spec => []AdminMovesFollowAnEdge
<1>1. EdgeInv => AdminMovesFollowAnEdge
  BY DEF EdgeInv
<1> QED
  BY <1>1, InitEdge, EdgeStep, TypeCorrect, PTL DEF Spec

-----------------------------------------------------------------------------
(* What subscribers are told *)

\* The order has been moved to s, or is closed.
Done(o, s) == Changed(o, s) \/ (Exists(o) /\ orders[o].is_active = 0)

LEMMA DoneStays ==
  ASSUME Typed, [Next]_vars, NEW o \in OrderIds, NEW s \in Statuses, Done(o, s)
  PROVE  Done(o, s)'
<1>1. CASE Changed(o, s)
  BY <1>1, HistoryGrows DEF Changed, Done
<1>2. CASE Exists(o) /\ orders[o].is_active = 0
  BY <1>2, ClosedStays DEF Done
<1> QED
  BY <1>1, <1>2 DEF Done

\* The update of a callback moves the order, or finds it closed.
LEMMA UpdateDoes ==
  ASSUME StoreTypeOK, NEW o \in OrderIds, NEW s \in Statuses, Exists(o),
         UpdateOrderStatus(o, s, "admin")
  PROVE  Done(o, s)'
<1>1. CASE Moved(o, s, "admin")
  <2>1. /\ Len(history[o]) \in Nat
        /\ Len(history'[o]) = Len(history[o]) + 1
        /\ history'[o][Len(history[o]) + 1] =
             [status_id |-> s, source |-> "admin", prev |-> orders[o].status_id]
    BY <1>1, MovedRow
  <2>2. /\ Len(history'[o]) \in 1 .. Len(history'[o])
        /\ history'[o][Len(history'[o])].status_id = s
    BY <2>1
  <2> QED
    BY <2>2 DEF Done, Changed
<1>2. CASE ~Matches(o)
  <2>1. orders[o] \in OrderRow /\ orders[o].is_active = 0
    BY <1>2 DEF Matches, Exists, StoreTypeOK, OrderRow
  <2>2. UNCHANGED orders
    BY <1>2 DEF UpdateOrderStatus
  <2> QED
    BY <2>1, <2>2 DEF Done, Exists
<1>3. CASE Matches(o) /\ Untouched(o)
  <2>1. history'[o] = Append(history[o], [status_id |-> s, source |-> "admin",
                                          prev |-> orders[o].status_id])
    BY <1>3 DEF UpdateOrderStatus, Logged, StoreTypeOK
  <2>2. /\ [status_id |-> s, source |-> "admin", prev |-> orders[o].status_id]
             \in HistoryRow
        /\ history[o] \in Seq(HistoryRow)
    BY <1>3 DEF Matches, Exists, StoreTypeOK, OrderRow, HistoryRow
  <2>3. Len(history'[o]) = Len(history[o]) + 1 /\ Len(history[o]) \in Nat
    BY <2>1, <2>2, AppendedRow
  <2> QED
    BY <1>3, <2>3 DEF Untouched
<1> QED
  BY <1>1, <1>2, <1>3, UpdateEffect

\* A callback that tells, or is about to, comes from its update.
PastUpdate(a) == tasks[a].pc \in {"subscribers", "notify"}

LEMMA PastUpdateEffect ==
  ASSUME Typed, [Next]_vars, NEW a \in AdminTasks, PastUpdate(a)'
  PROVE  /\ tasks[a] \in TaskRow
         /\ PastUpdate(a) \/ NextUpdate(a)
         /\ tasks'[a].order = tasks[a].order
         /\ tasks'[a].status = tasks[a].status
<1> USE DEF Typed, TypeOK, AdminTypeOK
<1>1. CASE tasks'[a] = tasks[a]
  BY <1>1 DEF PastUpdate, IdleTask
<1>2. CASE tasks'[a] # tasks[a]
  <2>1. AdminNext
    BY <1>2 DEF Next, WebhookNext, OrderNext, ConfirmClose, ConfirmOrder, ClientNext,
       Subscribe, Unsubscribe, Crash, adminVars, vars, IdleTask, PastUpdate
  <2>2. PICK b \in AdminTasks :
          \/ \E o \in OrderIds : PressNext(b, o)
          \/ TaskStep(b)
          \/ AdminError(b)
    BY <2>1 DEF AdminNext
  <2>3. ~(\E o \in OrderIds : PressNext(b, o)) /\ ~AdminError(b)
    BY <1>2 DEF PressNext, AdminError, PastUpdate, IdleTask
  <2>4. CASE NextUpdate(b)
    <3>1. tasks' = [tasks EXCEPT ![b].pc = "subscribers"] /\ tasks[b] \in TaskRow
      BY <2>4, TaskAtWork DEF NextUpdate
    <3>2. a = b
      BY <1>2, <3>1
    <3> QED
      BY <2>4, <3>1, <3>2 DEF TaskRow
  <2>5. CASE NextSubscribers(b) \/ \E u \in Users : NextNotify(b, u)
    <3>1. PICK users : Notifying(b, users)
      BY <2>5 DEF NextSubscribers, NextNotify
    <3>2. tasks[b] \in TaskRow /\ PastUpdate(b)
      BY <2>5, TaskAtWork DEF NextSubscribers, NextNotify, PastUpdate
    <3>3. a = b
      BY <1>2, <3>1 DEF Notifying
    <3>4. tasks' = [tasks EXCEPT ![b] = [tasks[b] EXCEPT !.pc = "notify",
                                                         !.pending = users]]
      BY <3>1, <3>3 DEF Notifying, PastUpdate, IdleTask
    <3> QED
      BY <3>2, <3>3, <3>4 DEF TaskRow
  <2> QED
    BY <2>2, <2>3, <2>4, <2>5 DEF TaskStep
<1> QED
  BY <1>1, <1>2

\* Only a callback that tells a user tells anyone anything.
LEMMA NotifiedEffect ==
  ASSUME Typed, [Next]_vars, NEW u, NEW o, NEW s,
         <<u, o, s>> \in notified', <<u, o, s>> \notin notified
  PROVE  \E a \in AdminTasks : PastUpdate(a) /\ tasks[a].order = o /\ tasks[a].status = s
<1>1. AdminNext
  BY DEF Next, WebhookNext, OrderNext, ConfirmClose, ConfirmOrder, ClientNext,
     Subscribe, Unsubscribe, Crash, adminVars, vars
<1>2. PICK a \in AdminTasks, v \in Users : NextNotify(a, v)
  BY <1>1 DEF AdminNext, PressNext, TaskStep, NextUpdate, NextSubscribers, AdminError
<1> QED
  BY <1>2 DEF NextNotify, PastUpdate

TellingInv ==
  /\ \A a \in AdminTasks : PastUpdate(a) => Done(tasks[a].order, tasks[a].status)
  /\ \A u \in Users, o \in OrderIds, s \in Statuses :
       <<u, o, s>> \in notified => Done(o, s)

LEMMA TellingStep ==
  ASSUME Typed, EdgeInv, TellingInv, [Next]_vars
  PROVE  TellingInv'
<1>1. ASSUME NEW a \in AdminTasks, PastUpdate(a)'
      PROVE  Done(tasks[a].order, tasks[a].status)'
  <2> DEFINE o == tasks[a].order
             s == tasks[a].status
  <2>1. /\ tasks[a] \in TaskRow
        /\ PastUpdate(a) \/ NextUpdate(a)
        /\ tasks'[a].order = o
        /\ tasks'[a].status = s
    BY <1>1, PastUpdateEffect
  <2>2. o \in OrderIds /\ s \in Statuses
    BY <2>1 DEF TaskRow
  <2>3. CASE PastUpdate(a)
    <3>1. Done(o, s)
      BY <2>3 DEF TellingInv
    <3> QED
      BY <2>1, <2>2, <3>1, DoneStays DEF Done, Changed, Exists
  <2>4. CASE NextUpdate(a)
    <3>1. Exists(o) /\ UpdateOrderStatus(o, s, "admin")
      BY <2>4 DEF NextUpdate, EdgeInv, TasksFollow
    <3>2. Changed(o, s)' \/ (Exists(o)' /\ orders'[o].is_active = 0)
      BY <2>1, <2>2, <3>1, UpdateDoes DEF Done, Changed, Exists, Typed, TypeOK
    <3> QED
      BY <2>1, <3>2 DEF Done, Changed, Exists
  <2> QED
    BY <2>1, <2>3, <2>4
<1>2. ASSUME NEW u \in Users, NEW o \in OrderIds, NEW s \in Statuses,
             <<u, o, s>> \in notified'
      PROVE  Done(o, s)'
  <2>1. Done(o, s)
    BY <1>2, NotifiedEffect DEF TellingInv
  <2> QED
    BY <2>1, DoneStays
<1> QED
  BY <1>1, <1>2 DEF TellingInv

\* Whatever else happens to the order, nobody is told of a status before the
\* update that was to bring it (admin/handlers.py:184-191).
THEOREM ToldAfter == Spec => []ToldAfterTheChange
<1>1. Init => EdgeInv /\ TellingInv
  BY InitEdge DEF Init, AdminInit, TellingInv, PastUpdate, IdleTask
<1>2. Typed /\ EdgeInv /\ TellingInv /\ [Next]_vars => (EdgeInv /\ TellingInv)'
  BY EdgeStep, TellingStep
<1>3. TellingInv => ToldAfterTheChange
  BY DEF TellingInv, Done, ToldAfterTheChange
<1> QED
  BY <1>1, <1>2, <1>3, TypeCorrect, PTL DEF Spec

-----------------------------------------------------------------------------
(* What it takes to leave the graph of transitions *)

\* No request is about to write a status.
WebhookQuiet == \A r \in Requests : req[r].pc # "update"

\* No two callbacks stand between the read and the write of one order.
OneTapAtATime ==
  \A a, b \in AdminTasks :
    /\ tasks[a].pc = "update"
    /\ tasks[b].pc = "update"
    /\ tasks[a].order = tasks[b].order
    => a = b

\* What a callback is about to write follows the status its order is in.
OnTheGraph ==
  \A a \in AdminTasks :
    tasks[a].pc = "update" =>
      /\ Exists(tasks[a].order)
      /\ <<orders[tasks[a].order].status_id, tasks[a].status>> \in Transitions

GraphInv == OnTheGraph /\ OnlyAllowedTransitions

\* Who writes history.
LEMMA HistoryWriters ==
  ASSUME [Next]_vars, history' # history
  PROVE  \/ \E r \in Requests : ApplyUpdate(r)
         \/ \E a \in AdminTasks : NextUpdate(a)
<1>1. WebhookNext => \E r \in Requests : ApplyUpdate(r)
  BY DEF WebhookNext, RequestStep, TurnAway, Refuse, Raise, Receive,
     CheckDuplicate, LookUpOrder,
     RecordEvent, InsertEvent, FailDb, storeVars
<1>2. AdminNext => \E a \in AdminTasks : NextUpdate(a)
  BY DEF AdminNext, TaskStep, PressNext, NextSubscribers, NextNotify, AdminError,
     storeVars
<1>3. ~OrderNext /\ ~ClientNext /\ ~Crash /\ ~(UNCHANGED vars)
  BY DEF OrderNext, ConfirmClose, ConfirmOrder, CloseOrder, CreateOrder, ClientNext,
     Subscribe, Unsubscribe, SubscribeOrder, UnsubscribeOrder, Crash, storeVars, vars
<1> QED
  BY <1>1, <1>2, <1>3 DEF Next

\* While the webhook is quiet, an order moves by a callback at its update.
LEMMA QuietMove ==
  ASSUME Typed, WebhookQuiet, [Next]_vars, NEW o \in OrderIds, NEW s \in Statuses,
         NEW source \in Stamps \cup {"admin"}, Moved(o, s, source)
  PROVE  \E a \in AdminTasks :
           /\ NextUpdate(a)
           /\ tasks[a] \in TaskRow
           /\ tasks[a].order = o
           /\ Moved(o, tasks[a].status, "admin")
<1> USE DEF Typed, TypeOK
<1>1. /\ Len(history'[o]) = Len(history[o]) + 1
      /\ Len(history[o]) \in Nat
  BY MovedRow
<1>2. history'[o] # history[o] /\ ~Untouched(o)
  BY <1>1 DEF Untouched
<1>3. ~\E r \in Requests : ApplyUpdate(r)
  BY DEF ApplyUpdate, WebhookQuiet
<1>4. PICK a \in AdminTasks : NextUpdate(a)
  BY <1>2, <1>3, HistoryWriters
<1>5. tasks[a] \in TaskRow
  BY <1>4, TaskAtWork DEF NextUpdate
<1>6. /\ tasks[a].order \in OrderIds
      /\ tasks[a].status \in Statuses
      /\ UpdateOrderStatus(tasks[a].order, tasks[a].status, "admin")
  BY <1>4, <1>5 DEF NextUpdate, TaskRow
<1>7. tasks[a].order = o /\ Moved(o, tasks[a].status, "admin")
  BY <1>2, <1>6, UpdateEffect
<1> QED
  BY <1>4, <1>5, <1>7

LEMMA OnTheGraphStep ==
  ASSUME Typed, GraphInv, WebhookQuiet, OneTapAtATime, [Next]_vars
  PROVE  OnTheGraph'
<1> SUFFICES ASSUME NEW a \in AdminTasks, tasks'[a].pc = "update"
             PROVE  /\ Exists(tasks[a].order)'
                    /\ <<orders'[tasks'[a].order].status_id, tasks'[a].status>>
                         \in Transitions
  BY DEF OnTheGraph
<1> USE DEF Typed, TypeOK
<1>1. CASE tasks'[a] = tasks[a]
  <2>1. PICK o \in OrderIds : o = tasks[a].order
    BY <1>1, TaskAtWork DEF TaskRow
  <2>2. Exists(o) /\ <<orders[o].status_id, tasks[a].status>> \in Transitions
    BY <1>1, <2>1 DEF GraphInv, OnTheGraph
  <2>3. ASSUME NEW s \in Statuses, NEW source \in Stamps \cup {"admin"},
               Moved(o, s, source)
        PROVE  FALSE
    <3>1. PICK b \in AdminTasks : NextUpdate(b) /\ tasks[b] \in TaskRow
                                  /\ tasks[b].order = o
      BY <2>3, QuietMove
    <3>2. b = a
      BY <1>1, <2>1, <3>1 DEF OneTapAtATime, NextUpdate
    <3> QED
      BY <1>1, <3>1, <3>2 DEF NextUpdate, AdminTypeOK, TaskRow
  <2>4. Untouched(o) \/ Closed(o)
    <3>1. ~Placed(o)
      BY <2>2 DEF Placed
    <3> QED
      BY <2>3, <3>1, NextOrder DEF OrderStep, MovedByAdmin, TaskRow
  <2>5. Exists(o)' /\ orders'[o].status_id = orders[o].status_id
    BY <2>2, <2>4, ClosedRow DEF Untouched, Exists
  <2> QED
    BY <1>1, <2>1, <2>2, <2>5 DEF Exists
<1>2. CASE \E o \in OrderIds : PressNext(a, o)
  <2>1. PICK o \in OrderIds : PressNext(a, o)
    BY <1>2
  <2>2. PICK s \in Successors(orders[o].status_id) :
          tasks' = [tasks EXCEPT ![a] = [pc |-> "update", order |-> o,
                                         status |-> s, pending |-> {}]]
    BY <2>1 DEF PressNext
  <2>3. tasks'[a].order = o /\ tasks'[a].status = s
    BY <2>2 DEF AdminTypeOK
  <2>4. UNCHANGED orders /\ Exists(o)
    BY <2>1 DEF PressNext, storeVars
  <2> QED
    BY <2>2, <2>3, <2>4 DEF Successors, Exists
<1> QED
  BY <1>1, <1>2, TaskEffect

LEMMA AllowedStep ==
  ASSUME Typed, GraphInv, WebhookQuiet, [Next]_vars
  PROVE  OnlyAllowedTransitions'
<1> SUFFICES ASSUME NEW o \in OrderIds, NEW i \in 1 .. Len(history'[o])
             PROVE  <<history'[o][i].prev, history'[o][i].status_id>> \in Transitions
  BY DEF OnlyAllowedTransitions
<1> USE DEF Typed, TypeOK
<1>1. CASE history'[o] = history[o]
  BY <1>1 DEF GraphInv, OnlyAllowedTransitions
<1>2. ASSUME NEW s \in Statuses, NEW source \in Stamps \cup {"admin"},
             Moved(o, s, source)
      PROVE  <<history'[o][i].prev, history'[o][i].status_id>> \in Transitions
  <2> DEFINE n == Len(history[o])
  <2>1. PICK a \in AdminTasks :
          /\ NextUpdate(a)
          /\ tasks[a] \in TaskRow
          /\ tasks[a].order = o
          /\ Moved(o, tasks[a].status, "admin")
    BY <1>2, QuietMove
  <2>2. tasks[a].status \in Statuses
    BY <2>1 DEF TaskRow
  <2>3. /\ n \in Nat
        /\ Len(history'[o]) = n + 1
        /\ \A j \in 1 .. n : history'[o][j] = history[o][j]
        /\ history'[o][n + 1] = [status_id |-> tasks[a].status, source |-> "admin",
                                 prev |-> orders[o].status_id]
    BY <2>1, <2>2, MovedRow
  <2>4. <<orders[o].status_id, tasks[a].status>> \in Transitions
    BY <2>1 DEF NextUpdate, GraphInv, OnTheGraph
  <2>5. CASE i = n + 1
    <3>1. /\ history'[o][i].prev = orders[o].status_id
          /\ history'[o][i].status_id = tasks[a].status
      BY <2>3, <2>5
    <3> QED
      BY <2>4, <3>1
  <2>6. CASE i \in 1 .. n
    BY <2>3, <2>6 DEF GraphInv, OnlyAllowedTransitions
  <2> QED
    BY <2>3, <2>5, <2>6
<1> QED
  BY <1>1, <1>2, NextOrder DEF OrderStep, MovedByAdmin, TaskRow, Untouched, Placed,
     Closed

\* Two ways lead off the graph, those of the runs webhook_skips_graph and
\* double_tap, and there is no third: as long as the webhook writes nothing
\* and no two taps overlap on one order, every change follows a row of
\* status_transitions (admin/handlers.py:175-184), whatever else happens.
THEOREM NoThirdWayOffTheGraph ==
  Spec /\ []WebhookQuiet /\ []OneTapAtATime => []OnlyAllowedTransitions
<1>1. Init => GraphInv
  <2> SUFFICES ASSUME Init PROVE GraphInv
    OBVIOUS
  <2>1. \A o \in OrderIds : Len(history[o]) = 0
    BY DEF Init, StoreInit
  <2> QED
    BY <2>1 DEF Init, AdminInit, IdleTask, GraphInv, OnTheGraph,
       OnlyAllowedTransitions
<1>2. Typed /\ GraphInv /\ WebhookQuiet /\ OneTapAtATime /\ [Next]_vars => GraphInv'
  BY OnTheGraphStep, AllowedStep DEF GraphInv
<1>3. GraphInv => OnlyAllowedTransitions
  BY DEF GraphInv
<1> QED
  BY <1>1, <1>2, <1>3, TypeCorrect, PTL DEF Spec

-----------------------------------------------------------------------------
(* What it takes to announce a change that did not happen *)

\* No callback is about to write to an order that is closed.
WritesToOpen ==
  \A a \in AdminTasks : tasks[a].pc = "update" => Matches(tasks[a].order)

ChangesToldInv ==
  /\ \A a \in AdminTasks : PastUpdate(a) => Changed(tasks[a].order, tasks[a].status)
  /\ ToldOnlyChanges

LEMMA ChangedStays ==
  ASSUME Typed, [Next]_vars, NEW o \in OrderIds, NEW s \in Statuses, Changed(o, s)
  PROVE  Changed(o, s)'
  BY HistoryGrows DEF Changed

\* The update of a callback moves an order that is open.
LEMMA UpdateChanges ==
  ASSUME StoreTypeOK, NEW o \in OrderIds, NEW s \in Statuses, Matches(o),
         UpdateOrderStatus(o, s, "admin")
  PROVE  Changed(o, s)'
<1>1. history'[o] = Append(history[o], [status_id |-> s, source |-> "admin",
                                        prev |-> orders[o].status_id])
  BY DEF UpdateOrderStatus, Logged, StoreTypeOK
<1>2. /\ [status_id |-> s, source |-> "admin", prev |-> orders[o].status_id]
           \in HistoryRow
      /\ history[o] \in Seq(HistoryRow)
  BY DEF Matches, Exists, StoreTypeOK, OrderRow, HistoryRow
<1>3. /\ Len(history'[o]) = Len(history[o]) + 1
      /\ Len(history[o]) \in Nat
      /\ history'[o][Len(history[o]) + 1] =
           [status_id |-> s, source |-> "admin", prev |-> orders[o].status_id]
  BY <1>1, <1>2, AppendedRow
<1>4. /\ Len(history'[o]) \in 1 .. Len(history'[o])
      /\ history'[o][Len(history'[o])].status_id = s
  BY <1>3
<1> QED
  BY <1>4 DEF Changed

LEMMA ChangesToldStep ==
  ASSUME Typed, WritesToOpen, ChangesToldInv, [Next]_vars
  PROVE  ChangesToldInv'
<1>1. ASSUME NEW a \in AdminTasks, PastUpdate(a)'
      PROVE  Changed(tasks[a].order, tasks[a].status)'
  <2> DEFINE o == tasks[a].order
             s == tasks[a].status
  <2>1. /\ tasks[a] \in TaskRow
        /\ PastUpdate(a) \/ NextUpdate(a)
        /\ tasks'[a].order = o
        /\ tasks'[a].status = s
    BY <1>1, PastUpdateEffect
  <2>2. o \in OrderIds /\ s \in Statuses
    BY <2>1 DEF TaskRow
  <2>3. CASE PastUpdate(a)
    <3>1. Changed(o, s)
      BY <2>3 DEF ChangesToldInv
    <3> QED
      BY <2>1, <2>2, <3>1, ChangedStays DEF Changed
  <2>4. CASE NextUpdate(a)
    <3>1. Matches(o) /\ UpdateOrderStatus(o, s, "admin")
      BY <2>4 DEF NextUpdate, WritesToOpen
    <3>2. \E i \in 1 .. Len(history'[o]) : history'[o][i].status_id = s
      BY <2>2, <3>1, UpdateChanges DEF Changed, Typed, TypeOK
    <3> QED
      BY <2>1, <3>2 DEF Changed
  <2> QED
    BY <2>1, <2>3, <2>4
<1>2. ASSUME NEW u \in Users, NEW o \in OrderIds, NEW s \in Statuses,
             <<u, o, s>> \in notified'
      PROVE  Changed(o, s)'
  <2>1. Changed(o, s)
    BY <1>2, NotifiedEffect DEF ChangesToldInv, ToldOnlyChanges
  <2> QED
    BY <2>1, ChangedStays
<1> QED
  BY <1>1, <1>2 DEF ChangesToldInv, ToldOnlyChanges

\* "next" on an order that is closed by the time of the update, as in the run
\* told_closed, is the only way to announce a change that did not happen
\* (admin/handlers.py:184-191).
THEOREM OnlyClosedOrdersMislead == Spec /\ []WritesToOpen => []ToldOnlyChanges
<1>1. Init => ChangesToldInv
  BY DEF Init, AdminInit, ChangesToldInv, ToldOnlyChanges, PastUpdate, IdleTask
<1>2. Typed /\ WritesToOpen /\ ChangesToldInv /\ [Next]_vars => ChangesToldInv'
  BY ChangesToldStep
<1>3. ChangesToldInv => ToldOnlyChanges
  BY DEF ChangesToldInv
<1> QED
  BY <1>1, <1>2, <1>3, TypeCorrect, PTL DEF Spec

=============================================================================
