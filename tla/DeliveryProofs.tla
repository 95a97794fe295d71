--------------------------- MODULE DeliveryProofs ---------------------------
(***************************************************************************)
(* What holds of Delivery for every set of orders, requests, callbacks,    *)
(* events and users, and for any number of faults.                         *)
(***************************************************************************)
EXTENDS Delivery, TLAPS

-----------------------------------------------------------------------------
(* Types *)

\* An accepted event names an order, a status and a time of the tables.
LEMMA AcceptedEvent ==
  ASSUME NEW m \in Messages, Accepted(m)
  PROVE  m.order_id \in OrderIds /\ m.status_id \in Statuses /\ m.ts \in Stamps
  BY MessageAssumption DEF Accepted, Checked, WellFormed, Storable

(***************************************************************************)
(* A request at work, or a callback about to write, holds what it read.    *)
(***************************************************************************)
RequestsAccepted == \A r \in Requests : req[r] # Idle => Accepted(req[r].msg)

Typed == TypeOK /\ RequestsAccepted

LEMMA RequestAtWork ==
  ASSUME Typed, NEW r \in Requests, req[r].pc # "idle"
  PROVE  /\ req[r] \in [pc : Steps, msg : Messages]
         /\ req[r].msg \in Messages
         /\ Accepted(req[r].msg)
         /\ req[r].msg.order_id \in OrderIds
         /\ req[r].msg.status_id \in Statuses
         /\ req[r].msg.ts \in Stamps
<1>1. req[r] # Idle
  BY DEF Idle
<1>2. req[r] \in [pc : Steps, msg : Messages] /\ Accepted(req[r].msg)
  BY <1>1 DEF Typed, TypeOK, ApiTypeOK, RequestsAccepted
<1> QED
  BY <1>2, AcceptedEvent

LEMMA TaskAtWork ==
  ASSUME TypeOK, NEW a \in AdminTasks, tasks[a].pc # "idle"
  PROVE  tasks[a] \in TaskRow
  BY DEF TypeOK, AdminTypeOK, IdleTask

\* What update_order_status leaves in the tables, and what it changes.
LEMMA UpdateTyped ==
  ASSUME StoreTypeOK, NEW o \in OrderIds, NEW s \in Statuses,
         NEW source \in Stamps \cup {"admin"},
         UpdateOrderStatus(o, s, source)
  PROVE  /\ orders' \in [OrderIds -> OrderRow \cup {NoOrder}]
         /\ history' \in [OrderIds -> Seq(HistoryRow)]
         /\ subs' = subs
         /\ events' = events
<1>1. CASE Matches(o)
  <2>1. orders[o] \in OrderRow
    BY <1>1 DEF Matches, Exists, StoreTypeOK
  <2>2. [orders[o] EXCEPT !.status_id = s, !.version = @ + 1] \in OrderRow
    <3>1. orders[o].version + 1 \in Nat \ {0}
      BY <2>1 DEF OrderRow
    <3>2. \A v \in Nat \ {0} :
            [orders[o] EXCEPT !.status_id = s, !.version = v] \in OrderRow
      BY <2>1 DEF OrderRow
    <3> QED
      BY <3>1, <3>2
  <2>3. orders' = [orders EXCEPT ![o] =
                     [orders[o] EXCEPT !.status_id = s, !.version = @ + 1]]
    BY <1>1 DEF UpdateOrderStatus
  <2>4. Logged(o, s, source) \in Seq(HistoryRow)
    <3>1. [status_id |-> s, source |-> source, prev |-> orders[o].status_id]
            \in HistoryRow
      BY <2>1 DEF HistoryRow, OrderRow
    <3>2. history[o] \in Seq(HistoryRow)
      BY DEF StoreTypeOK
    <3> QED
      BY <3>1, <3>2 DEF Logged
  <2> QED
    BY <1>1, <2>2, <2>3, <2>4 DEF UpdateOrderStatus, StoreTypeOK
<1>2. CASE ~Matches(o)
  BY <1>2 DEF UpdateOrderStatus, StoreTypeOK
<1> QED
  BY <1>1, <1>2

LEMMA CreateTyped ==
  ASSUME StoreTypeOK, NEW o \in OrderIds, NEW s \in Statuses, CreateOrder(o, s)
  PROVE  /\ orders' \in [OrderIds -> OrderRow \cup {NoOrder}]
         /\ UNCHANGED <<history, subs, events>>
  BY DEF CreateOrder, StoreTypeOK, OrderRow

LEMMA CloseTyped ==
  ASSUME StoreTypeOK, NEW o \in OrderIds, CloseOrder(o)
  PROVE  /\ orders' \in [OrderIds -> OrderRow \cup {NoOrder}]
         /\ UNCHANGED <<history, subs, events>>
<1>1. orders[o] \in OrderRow
  BY DEF CloseOrder, Exists, StoreTypeOK
<1>2. [orders[o] EXCEPT !.is_active = 0] \in OrderRow
  BY <1>1 DEF OrderRow
<1> QED
  BY <1>2 DEF CloseOrder, Inactive, StoreTypeOK

LEMMA FaultTyped ==
  ASSUME faults \in 0 .. MaxFaults, Fault \/ UNCHANGED faults
  PROVE  faults' \in 0 .. MaxFaults
  BY StoreAssumption DEF Fault

-----------------------------------------------------------------------------
(* Type correctness *)

LEMMA InitTyped == Init => Typed
  BY StoreAssumption DEF Init, StoreInit, ApiInit, AdminInit, Typed, TypeOK,
     StoreTypeOK, ApiTypeOK, AdminTypeOK, RequestsAccepted

\* An answer ends the request.
LEMMA AnswerTyped ==
  ASSUME Typed, NEW r \in Requests, req[r].pc # "idle",
         NEW answer \in Replies, Answer(r, answer)
  PROVE  /\ req' \in [Requests -> [pc : Steps, msg : Messages] \cup {Idle}]
         /\ replies' \in [Messages -> SUBSET Replies]
         /\ \A q \in Requests : req'[q] # Idle => Accepted(req'[q].msg)
         /\ faults' \in 0 .. MaxFaults
<1>1. req' = [req EXCEPT ![r] = Idle]
  BY DEF Answer
<1>2. req' \in [Requests -> [pc : Steps, msg : Messages] \cup {Idle}]
  BY <1>1 DEF Typed, TypeOK, ApiTypeOK
<1>3. \A q \in Requests : req'[q] # Idle => Accepted(req'[q].msg)
  BY <1>1 DEF Typed, TypeOK, ApiTypeOK, RequestsAccepted
<1>4. replies' \in [Messages -> SUBSET Replies] /\ faults' \in 0 .. MaxFaults
  <2>1. /\ replies \in [Messages -> SUBSET Replies]
        /\ faults \in 0 .. MaxFaults
    BY DEF Typed, TypeOK, ApiTypeOK, StoreTypeOK
  <2>2. CASE UNCHANGED faults /\ replies' = [replies EXCEPT ![req[r].msg] =
                                             replies[req[r].msg] \cup {answer}]
    BY <2>1, <2>2
  <2>3. CASE Fault /\ UNCHANGED replies
    BY <2>1, <2>3, FaultTyped
  <2> QED
    BY <2>2, <2>3 DEF Answer, Reply
<1> QED
  BY <1>2, <1>3, <1>4

LEMMA GotoTyped ==
  ASSUME Typed, NEW r \in Requests, req[r].pc # "idle",
         NEW step \in Steps, Goto(r, step)
  PROVE  /\ req' \in [Requests -> [pc : Steps, msg : Messages] \cup {Idle}]
         /\ replies' \in [Messages -> SUBSET Replies]
         /\ \A q \in Requests : req'[q] # Idle => Accepted(req'[q].msg)
         /\ faults' \in 0 .. MaxFaults
<1>1. req[r] \in [pc : Steps, msg : Messages] /\ Accepted(req[r].msg)
  BY RequestAtWork
<1>2. [req[r] EXCEPT !.pc = step] \in [pc : Steps, msg : Messages]
  BY <1>1
<1>3. /\ req' = [req EXCEPT ![r] = [req[r] EXCEPT !.pc = step]]
      /\ UNCHANGED <<replies, faults>>
  BY DEF Goto
<1>4. req' \in [Requests -> [pc : Steps, msg : Messages] \cup {Idle}]
  BY <1>2, <1>3 DEF Typed, TypeOK, ApiTypeOK
<1>5. \A q \in Requests : req'[q] # Idle => Accepted(req'[q].msg)
  <2>1. req'[r].msg = req[r].msg
    BY <1>1, <1>3 DEF Typed, TypeOK, ApiTypeOK
  <2>2. \A q \in Requests \ {r} : req'[q] = req[q]
    BY <1>3 DEF Typed, TypeOK, ApiTypeOK
  <2> QED
    BY <1>1, <2>1, <2>2 DEF Typed, RequestsAccepted
<1> QED
  BY <1>3, <1>4, <1>5 DEF Typed, TypeOK, ApiTypeOK, StoreTypeOK

\* The steps of the webhook's requests.
LEMMA WebhookTyped == Typed /\ WebhookNext => Typed'
<1> SUFFICES ASSUME Typed, WebhookNext PROVE Typed'
  OBVIOUS
<1> USE DEF Typed, TypeOK
<1>a. AdminTypeOK'
  BY DEF WebhookNext, AdminTypeOK, adminVars
<1>1. CASE \E m \in Messages : TurnAway(m)
  <2>1. PICK m \in Messages : TurnAway(m)
    BY <1>1
  <2>2. UNCHANGED <<orders, history, subs, events, req, statusUpdates>>
    BY <2>1 DEF TurnAway, Refuse, Raise, storeVars
  <2>3. replies' \in [Messages -> SUBSET Replies] /\ faults' \in 0 .. MaxFaults
    <3>1. ASSUME NEW answer \in {"refused", "error"}, UNCHANGED faults,
                 replies' = [replies EXCEPT ![m] = replies[m] \cup {answer}]
          PROVE  replies' \in [Messages -> SUBSET Replies] /\ faults' \in 0 .. MaxFaults
      BY <3>1 DEF ApiTypeOK, StoreTypeOK, Replies
    <3>2. CASE Fault /\ UNCHANGED replies
      BY <3>2, FaultTyped DEF ApiTypeOK, StoreTypeOK
    <3> QED
      BY <2>1, <3>1, <3>2 DEF TurnAway, Refuse, Raise, Reply
  <2> QED
    BY <1>a, <2>2, <2>3 DEF StoreTypeOK, ApiTypeOK, RequestsAccepted
<1>2. CASE \E r \in Requests, m \in Messages : Receive(r, m)
  <2>1. PICK r \in Requests, m \in Messages : Receive(r, m)
    BY <1>2
  <2>2. /\ req' = [req EXCEPT ![r] = [pc |-> "dedup", msg |-> m]]
        /\ Accepted(m)
        /\ UNCHANGED <<orders, history, subs, events, faults, replies, statusUpdates>>
    BY <2>1 DEF Receive, storeVars
  <2>3. /\ [pc |-> "dedup", msg |-> m] \in [pc : Steps, msg : Messages]
        /\ req \in [Requests -> [pc : Steps, msg : Messages] \cup {Idle}]
    BY DEF Steps, ApiTypeOK
  <2>4. req' \in [Requests -> [pc : Steps, msg : Messages] \cup {Idle}]
    BY <2>2, <2>3
  <2>5. RequestsAccepted'
    BY <2>2, <2>3 DEF RequestsAccepted, Accepted, Authorized, Checked, WellFormed,
       Storable
  <2> QED
    BY <1>a, <2>2, <2>4, <2>5 DEF StoreTypeOK, ApiTypeOK
<1>3. CASE \E r \in Requests : CheckDuplicate(r) \/ LookUpOrder(r)
  <2>1. PICK r \in Requests : CheckDuplicate(r) \/ LookUpOrder(r)
    BY <1>3
  <2>2. /\ req[r].pc # "idle"
        /\ UNCHANGED <<orders, history, subs, events, statusUpdates>>
        /\ \/ \E answer \in Replies : Answer(r, answer)
           \/ \E step \in Steps : Goto(r, step)
    BY <2>1 DEF CheckDuplicate, LookUpOrder, storeVars, Replies, Steps
  <2> QED
    BY <1>a, <2>2, AnswerTyped, GotoTyped
       DEF StoreTypeOK, ApiTypeOK, RequestsAccepted, Accepted, Authorized, Checked,
       WellFormed, Storable
<1>4. CASE \E r \in Requests : ApplyUpdate(r)
  <2>1. PICK r \in Requests : ApplyUpdate(r)
    BY <1>4
  <2>2. /\ req[r].pc # "idle"
        /\ UpdateOrderStatus(req[r].msg.order_id, req[r].msg.status_id, req[r].msg.ts)
        /\ UNCHANGED statusUpdates
        /\ \/ \E answer \in Replies : Answer(r, answer)
           \/ \E step \in Steps : Goto(r, step)
    BY <2>1 DEF ApplyUpdate, Replies, Steps
  <2>3. /\ orders' \in [OrderIds -> OrderRow \cup {NoOrder}]
        /\ history' \in [OrderIds -> Seq(HistoryRow)]
        /\ UNCHANGED <<subs, events>>
    BY <2>2, RequestAtWork, UpdateTyped
  <2> QED
    BY <1>a, <2>2, <2>3, AnswerTyped, GotoTyped
       DEF StoreTypeOK, ApiTypeOK, RequestsAccepted, Accepted, Authorized, Checked,
       WellFormed, Storable
<1>5. CASE \E r \in Requests : RecordEvent(r)
  <2>1. PICK r \in Requests : RecordEvent(r)
    BY <1>5
  <2>2. /\ req[r].pc # "idle"
        /\ UNCHANGED <<orders, history, subs>>
        /\ \E answer \in Replies : Answer(r, answer)
        /\ events' = events \/ events' = events \cup {EventKey(req[r].msg)}
        /\ statusUpdates' = statusUpdates \/ statusUpdates' = statusUpdates + 1
    BY <2>1 DEF RecordEvent, InsertEvent, Replies
  <2>3. EventKey(req[r].msg) \in OrderIds \X Statuses \X Stamps
    BY <2>2, RequestAtWork DEF EventKey
  <2>4. events' \subseteq OrderIds \X Statuses \X Stamps /\ statusUpdates' \in Nat
    BY <2>2, <2>3 DEF StoreTypeOK, ApiTypeOK
  <2> QED
    BY <1>a, <2>2, <2>4, AnswerTyped
       DEF StoreTypeOK, ApiTypeOK, RequestsAccepted, Accepted, Authorized, Checked,
       WellFormed, Storable
<1>6. CASE \E r \in Requests : FailDb(r)
  <2>1. PICK r \in Requests : FailDb(r)
    BY <1>6
  <2>2. /\ req' = [req EXCEPT ![r] = Idle]
        /\ replies' = [replies EXCEPT ![req[r].msg] = replies[req[r].msg] \cup {"error"}]
        /\ UNCHANGED <<orders, history, subs, events, statusUpdates>>
        /\ faults' \in 0 .. MaxFaults
    BY <2>1, FaultTyped DEF FailDb, storeVars, StoreTypeOK
  <2>3. replies' \in [Messages -> SUBSET Replies]
    BY <2>2 DEF ApiTypeOK, Replies
  <2>4. req' \in [Requests -> [pc : Steps, msg : Messages] \cup {Idle}]
    BY <2>2 DEF ApiTypeOK
  <2>5. RequestsAccepted'
    BY <2>2 DEF RequestsAccepted, ApiTypeOK, Accepted, Authorized, Checked,
       WellFormed, Storable
  <2> QED
    BY <1>a, <2>2, <2>3, <2>4, <2>5 DEF StoreTypeOK, ApiTypeOK
<1> QED
  BY <1>1, <1>2, <1>3, <1>4, <1>5, <1>6 DEF WebhookNext, RequestStep

\* A callback that has told some of its users, or ends.
LEMMA NotifyingTyped ==
  ASSUME AdminTypeOK, NEW a \in AdminTasks, tasks[a] \in TaskRow,
         NEW users \in SUBSET Users, Notifying(a, users)
  PROVE  tasks' \in [AdminTasks -> TaskRow \cup {IdleTask}]
<1>1. [tasks[a] EXCEPT !.pc = "notify", !.pending = users] \in TaskRow
  BY DEF TaskRow
<1> QED
  BY <1>1 DEF Notifying, AdminTypeOK

\* The steps of the admins' callbacks.
LEMMA AdminTyped == Typed /\ AdminNext => Typed'
<1> SUFFICES ASSUME Typed, AdminNext PROVE Typed'
  OBVIOUS
<1> USE DEF Typed, TypeOK
<1>a. ApiTypeOK' /\ RequestsAccepted'
  BY DEF AdminNext, ApiTypeOK, apiVars, RequestsAccepted, Accepted, Authorized,
     Checked, WellFormed, Storable
<1>1. PICK a \in AdminTasks :
        \/ \E o \in OrderIds : PressNext(a, o)
        \/ TaskStep(a)
        \/ AdminError(a)
  BY DEF AdminNext
<1>2. CASE \E o \in OrderIds : PressNext(a, o)
  <2>1. PICK o \in OrderIds : PressNext(a, o)
    BY <1>2
  <2>2. PICK s \in Statuses :
          tasks' = [tasks EXCEPT ![a] = [pc |-> "update", order |-> o,
                                         status |-> s, pending |-> {}]]
    BY <2>1 DEF PressNext, Successors
  <2>3. tasks' \in [AdminTasks -> TaskRow \cup {IdleTask}]
    BY <2>2 DEF AdminTypeOK, TaskRow
  <2> QED
    BY <1>a, <2>1, <2>3 DEF PressNext, storeVars, StoreTypeOK, AdminTypeOK
<1>3. CASE NextUpdate(a)
  <2>1. tasks[a] \in TaskRow
    BY <1>3, TaskAtWork DEF NextUpdate
  <2>2. tasks' \in [AdminTasks -> TaskRow \cup {IdleTask}]
    BY <1>3, <2>1 DEF NextUpdate, AdminTypeOK, TaskRow
  <2>3. /\ orders' \in [OrderIds -> OrderRow \cup {NoOrder}]
        /\ history' \in [OrderIds -> Seq(HistoryRow)]
        /\ UNCHANGED <<subs, events, faults, notified>>
    BY <1>3, <2>1, UpdateTyped DEF NextUpdate, TaskRow
  <2> QED
    BY <1>a, <2>2, <2>3 DEF StoreTypeOK, AdminTypeOK
<1>4. CASE NextSubscribers(a)
  <2>1. tasks[a] \in TaskRow
    BY <1>4, TaskAtWork DEF NextSubscribers
  <2>2. Subscribers(tasks[a].order) \in SUBSET Users
    BY <2>1 DEF Subscribers, StoreTypeOK, TaskRow
  <2> QED
    BY <1>a, <1>4, <2>1, <2>2, NotifyingTyped
       DEF NextSubscribers, storeVars, StoreTypeOK, AdminTypeOK
<1>5. CASE \E u \in Users : NextNotify(a, u)
  <2>1. PICK u \in Users : NextNotify(a, u)
    BY <1>5
  <2>2. tasks[a] \in TaskRow
    BY <2>1, TaskAtWork DEF NextNotify
  <2>3. tasks[a].pending \ {u} \in SUBSET Users
    BY <2>2 DEF TaskRow
  <2>4. tasks' \in [AdminTasks -> TaskRow \cup {IdleTask}]
    BY <2>1, <2>2, <2>3, NotifyingTyped DEF NextNotify
  <2>5. notified' \subseteq Users \X OrderIds \X Statuses
    BY <2>1, <2>2 DEF NextNotify, TaskRow, AdminTypeOK
  <2>6. faults' \in 0 .. MaxFaults
    BY <2>1, FaultTyped DEF NextNotify, StoreTypeOK
  <2> QED
    BY <1>a, <2>1, <2>4, <2>5, <2>6 DEF NextNotify, storeVars, StoreTypeOK, AdminTypeOK
<1>6. CASE AdminError(a)
  BY <1>a, <1>6, FaultTyped DEF AdminError, storeVars, StoreTypeOK, AdminTypeOK
<1> QED
  BY <1>1, <1>2, <1>3, <1>4, <1>5, <1>6 DEF TaskStep

LEMMA NextTyped == Typed /\ [Next]_vars => Typed'
<1> SUFFICES ASSUME Typed, [Next]_vars PROVE Typed'
  OBVIOUS
<1>1. CASE WebhookNext
  BY <1>1, WebhookTyped
<1>2. CASE AdminNext
  BY <1>2, AdminTyped
<1>3. CASE OrderNext
  <2>1. /\ UNCHANGED <<faults, tasks, notified, req, replies, statusUpdates>>
        /\ \E o \in OrderIds : CloseOrder(o) \/ \E s \in Statuses : CreateOrder(o, s)
    BY <1>3 DEF OrderNext, ConfirmClose, ConfirmOrder, adminVars, apiVars
  <2>2. StoreTypeOK'
    BY <2>1, CloseTyped, CreateTyped DEF Typed, TypeOK, StoreTypeOK
  <2> QED
    BY <2>1, <2>2 DEF Typed, TypeOK, ApiTypeOK, AdminTypeOK, RequestsAccepted,
       Accepted, Authorized, Checked, WellFormed, Storable
<1>4. CASE ClientNext
  <2>1. /\ UNCHANGED <<orders, history, events, faults, tasks, notified,
                       req, replies, statusUpdates>>
        /\ \E o \in OrderIds, u \in Users :
             \/ subs' = [subs EXCEPT ![o] = @ \cup {u}]
             \/ subs' = [subs EXCEPT ![o] = @ \ {u}]
    BY <1>4 DEF ClientNext, Subscribe, Unsubscribe, SubscribeOrder,
       UnsubscribeOrder, adminVars, apiVars
  <2>2. StoreTypeOK'
    BY <2>1 DEF Typed, TypeOK, StoreTypeOK
  <2> QED
    BY <2>1, <2>2 DEF Typed, TypeOK, ApiTypeOK, AdminTypeOK, RequestsAccepted,
       Accepted, Authorized, Checked, WellFormed, Storable
<1>5. CASE Crash
  <2>1. faults' \in 0 .. MaxFaults
    BY <1>5, FaultTyped DEF Crash, Typed, TypeOK, StoreTypeOK
  <2> QED
    BY <1>5, <2>1 DEF Crash, storeVars, Typed, TypeOK, StoreTypeOK, ApiTypeOK,
       AdminTypeOK, RequestsAccepted
<1>6. CASE UNCHANGED vars
  BY <1>6 DEF vars, Typed, TypeOK, StoreTypeOK, ApiTypeOK, AdminTypeOK,
     RequestsAccepted, Accepted, Authorized, Checked, WellFormed, Storable
<1> QED
  BY <1>1, <1>2, <1>3, <1>4, <1>5, <1>6 DEF Next

\* Every variable keeps its type, and every request at work holds an event
\* that passed the secret, the payload and the status checks.
THEOREM TypeCorrect == Spec => []Typed
<1>1. Init => Typed
  BY InitTyped
<1>2. Typed /\ [Next]_vars => Typed'
  BY NextTyped
<1> QED
  BY <1>1, <1>2, PTL DEF Spec

\* The type invariant of the specification.
THEOREM TypeOKHolds == Spec => []TypeOK
<1>1. Typed => TypeOK
  BY DEF Typed
<1> QED
  BY <1>1, TypeCorrect, PTL

-----------------------------------------------------------------------------
(* Every step, seen from the row and the history of one order *)

Untouched(o) == UNCHANGED <<orders[o], history[o]>>

Placed(o) ==
  /\ ~Exists(o)
  /\ \E s \in Statuses :
       orders'[o] = [status_id |-> s, is_active |-> 1, version |-> 1]
  /\ UNCHANGED history[o]

\* s and source of the row that o's update inserts.
Moved(o, s, source) ==
  /\ Matches(o)
  /\ orders'[o] = [orders[o] EXCEPT !.status_id = s, !.version = @ + 1]
  /\ history'[o] = Append(history[o], [status_id |-> s, source |-> source,
                                       prev |-> orders[o].status_id])

Closed(o) ==
  /\ Exists(o)
  /\ orders'[o] = [orders[o] EXCEPT !.is_active = 0]
  /\ UNCHANGED history[o]

\* The task that moves o when an admin does.
MovedByAdmin(o) ==
  \E a \in AdminTasks :
    /\ tasks[a] \in TaskRow
    /\ tasks[a].pc = "update"
    /\ tasks[a].order = o
    /\ Moved(o, tasks[a].status, "admin")

OrderStep(o) ==
  \/ Untouched(o)
  \/ Placed(o)
  \/ \E s \in Statuses, t \in Stamps : Moved(o, s, t)
  \/ MovedByAdmin(o)
  \/ Closed(o)

LEMMA UpdateEffect ==
  ASSUME StoreTypeOK, NEW o \in OrderIds, NEW p \in OrderIds,
         NEW s \in Statuses, NEW source, UpdateOrderStatus(p, s, source)
  PROVE  Untouched(o) \/ (o = p /\ Moved(o, s, source))
<1>1. CASE Matches(p)
  <2>1. /\ orders' = [orders EXCEPT ![p] =
                        [orders[p] EXCEPT !.status_id = s, !.version = @ + 1]]
        /\ history' = [history EXCEPT ![p] = Logged(p, s, source)]
    BY <1>1 DEF UpdateOrderStatus
  <2> QED
    BY <1>1, <2>1 DEF Untouched, Moved, Logged, StoreTypeOK
<1>2. CASE ~Matches(p)
  BY <1>2 DEF UpdateOrderStatus, Untouched
<1> QED
  BY <1>1, <1>2

LEMMA NextOrder ==
  ASSUME Typed, [Next]_vars, NEW o \in OrderIds
  PROVE  OrderStep(o)
<1> USE DEF Typed, TypeOK
<1>1. CASE UNCHANGED <<orders, history>>
  BY <1>1 DEF OrderStep, Untouched
<1>2. CASE \E r \in Requests : ApplyUpdate(r)
  <2>1. PICK r \in Requests : ApplyUpdate(r)
    BY <1>2
  <2>2. /\ req[r].msg.status_id \in Statuses
        /\ req[r].msg.order_id \in OrderIds
        /\ req[r].msg.ts \in Stamps
        /\ UpdateOrderStatus(req[r].msg.order_id, req[r].msg.status_id, req[r].msg.ts)
    BY <2>1, RequestAtWork DEF ApplyUpdate
  <2> QED
    BY <2>2, UpdateEffect DEF OrderStep
<1>3. CASE \E a \in AdminTasks : NextUpdate(a)
  <2>1. PICK a \in AdminTasks : NextUpdate(a)
    BY <1>3
  <2>2. tasks[a] \in TaskRow /\ tasks[a].pc = "update"
    BY <2>1, TaskAtWork DEF NextUpdate
  <2>3. tasks[a].order \in OrderIds /\ tasks[a].status \in Statuses
    BY <2>2 DEF TaskRow
  <2>4. UpdateOrderStatus(tasks[a].order, tasks[a].status, "admin")
    BY <2>1 DEF NextUpdate
  <2>5. Untouched(o) \/ (o = tasks[a].order /\ Moved(o, tasks[a].status, "admin"))
    BY <2>3, <2>4, UpdateEffect
  <2> QED
    BY <2>2, <2>5 DEF OrderStep, MovedByAdmin
<1>4. CASE \E p \in OrderIds, s \in Statuses : CreateOrder(p, s)
  BY <1>4 DEF CreateOrder, OrderStep, Untouched, Placed, StoreTypeOK
<1>5. CASE \E p \in OrderIds : CloseOrder(p)
  BY <1>5 DEF CloseOrder, Inactive, OrderStep, Untouched, Closed, StoreTypeOK
<1>6. WebhookNext => UNCHANGED <<orders, history>> \/ \E r \in Requests : ApplyUpdate(r)
  BY DEF WebhookNext, RequestStep, TurnAway, Refuse, Raise, Receive,
     CheckDuplicate, LookUpOrder,
     RecordEvent, InsertEvent, FailDb, storeVars
<1>7. AdminNext => UNCHANGED <<orders, history>> \/ \E a \in AdminTasks : NextUpdate(a)
  BY DEF AdminNext, TaskStep, PressNext, NextSubscribers, NextNotify, AdminError, storeVars
<1>8. OrderNext => \/ \E p \in OrderIds, s \in Statuses : CreateOrder(p, s)
                   \/ \E p \in OrderIds : CloseOrder(p)
  BY DEF OrderNext, ConfirmClose, ConfirmOrder
<1>9. ClientNext \/ Crash \/ UNCHANGED vars => UNCHANGED <<orders, history>>
  BY DEF ClientNext, Subscribe, Unsubscribe, SubscribeOrder, UnsubscribeOrder,
     Crash, storeVars, vars
<1> QED
  BY <1>1, <1>2, <1>3, <1>4, <1>5, <1>6, <1>7, <1>8, <1>9 DEF Next

-----------------------------------------------------------------------------
(* The history tells the status *)

\* HistoryTellsStatus for one order.
Told1(o) ==
  /\ ~Exists(o) => history[o] = << >>
  /\ Exists(o) => orders[o].version = Len(history[o]) + 1
  /\ Exists(o) /\ history[o] # << >> =>
       orders[o].status_id = history[o][Len(history[o])].status_id
  /\ \A i \in 1 .. Len(history[o]) - 1 :
       history[o][i + 1].prev = history[o][i].status_id

\* What appending a row does to the rows and their number.
LEMMA AppendedRow ==
  ASSUME NEW h \in Seq(HistoryRow), NEW row \in HistoryRow
  PROVE  /\ Append(h, row) \in Seq(HistoryRow)
         /\ Len(Append(h, row)) = Len(h) + 1
         /\ Len(h) \in Nat
         /\ \A i \in 1 .. Len(h) : Append(h, row)[i] = h[i]
         /\ Append(h, row)[Len(h) + 1] = row
  OBVIOUS

\* What an update does to the columns and the rows of its order.
LEMMA MovedRow ==
  ASSUME StoreTypeOK, NEW o \in OrderIds, NEW s \in Statuses,
         NEW source \in Stamps \cup {"admin"}, Moved(o, s, source)
  PROVE  /\ orders[o] \in OrderRow
         /\ orders'[o] \in OrderRow
         /\ Exists(o) /\ Exists(o)' /\ Matches(o)'
         /\ orders'[o].status_id = s
         /\ orders'[o].version = orders[o].version + 1
         /\ history[o] \in Seq(HistoryRow)
         /\ Len(history[o]) \in Nat
         /\ Len(history'[o]) = Len(history[o]) + 1
         /\ \A i \in 1 .. Len(history[o]) : history'[o][i] = history[o][i]
         /\ history'[o][Len(history[o]) + 1] =
              [status_id |-> s, source |-> source, prev |-> orders[o].status_id]
<1>1. orders[o] \in OrderRow /\ orders[o].is_active = 1
  BY DEF Moved, Matches, Exists, StoreTypeOK
<1>2. orders[o].version + 1 \in Nat \ {0}
  BY <1>1 DEF OrderRow
<1>3. \A v \in Nat \ {0} :
        LET row == [orders[o] EXCEPT !.status_id = s, !.version = v]
        IN  row \in OrderRow /\ row.status_id = s /\ row.version = v
            /\ row.is_active = orders[o].is_active
  BY <1>1 DEF OrderRow
<1>4. /\ orders'[o] \in OrderRow
      /\ orders'[o].status_id = s
      /\ orders'[o].version = orders[o].version + 1
      /\ orders'[o].is_active = 1
  BY <1>1, <1>2, <1>3 DEF Moved
<1>5. Exists(o) /\ Exists(o)' /\ Matches(o)'
  BY <1>1, <1>4, NoOrderAssumption DEF Exists, Matches
<1>6. [status_id |-> s, source |-> source, prev |-> orders[o].status_id] \in HistoryRow
  BY <1>1 DEF HistoryRow, OrderRow
<1>7. history[o] \in Seq(HistoryRow)
  BY DEF StoreTypeOK
<1> QED
  BY <1>1, <1>4, <1>5, <1>6, <1>7, AppendedRow DEF Moved

\* What creating and closing an order do to its columns.
LEMMA PlacedRow ==
  ASSUME NEW o \in OrderIds, Placed(o)
  PROVE  /\ Exists(o)' /\ ~Exists(o)
         /\ orders'[o].version = 1
         /\ orders'[o].is_active = 1
         /\ orders'[o].status_id \in Statuses
         /\ history'[o] = history[o]
<1>1. PICK s \in Statuses :
        orders'[o] = [status_id |-> s, is_active |-> 1, version |-> 1]
  BY DEF Placed
<1>2. orders'[o] \in OrderRow
  BY <1>1 DEF OrderRow
<1> QED
  BY <1>1, <1>2, NoOrderAssumption DEF Placed, Exists

LEMMA ClosedRow ==
  ASSUME StoreTypeOK, NEW o \in OrderIds, Closed(o)
  PROVE  /\ Exists(o) /\ Exists(o)'
         /\ orders'[o].status_id = orders[o].status_id
         /\ orders'[o].version = orders[o].version
         /\ orders'[o].is_active = 0
         /\ history'[o] = history[o]
<1>1. orders[o] \in OrderRow
  BY DEF Closed, Exists, StoreTypeOK
<1>2. [orders[o] EXCEPT !.is_active = 0] \in OrderRow
  BY <1>1 DEF OrderRow
<1> QED
  BY <1>1, <1>2, NoOrderAssumption DEF Closed, Exists, OrderRow

LEMMA MovedTells ==
  ASSUME StoreTypeOK, NEW o \in OrderIds, NEW s \in Statuses,
         NEW source \in Stamps \cup {"admin"}, Moved(o, s, source), Told1(o)
  PROVE  Told1(o)'
<1> DEFINE n == Len(history[o])
<1>0. /\ Exists(o) /\ Exists(o)'
      /\ orders'[o].status_id = s
      /\ orders'[o].version = orders[o].version + 1
      /\ n \in Nat
      /\ Len(history'[o]) = n + 1
      /\ \A i \in 1 .. n : history'[o][i] = history[o][i]
      /\ history'[o][n + 1] =
           [status_id |-> s, source |-> source, prev |-> orders[o].status_id]
  BY MovedRow
<1>1. orders'[o].version = Len(history'[o]) + 1
  <2>1. orders[o].version = n + 1
    BY <1>0 DEF Told1
  <2> QED
    BY <1>0, <2>1
<1>2. orders'[o].status_id = history'[o][Len(history'[o])].status_id
  BY <1>0
<1>3. ASSUME NEW i \in 1 .. Len(history'[o]) - 1
      PROVE  history'[o][i + 1].prev = history'[o][i].status_id
  <2>0. i \in 1 .. n
    BY <1>0
  <2>1. CASE i = n
    <3>1. history[o] # << >>
      BY <2>0, <2>1
    <3>2. orders[o].status_id = history[o][n].status_id
      BY <1>0, <3>1 DEF Told1
    <3> QED
      BY <1>0, <2>0, <2>1, <3>2
  <2>2. CASE i # n
    <3>1. i \in 1 .. n - 1 /\ i + 1 \in 1 .. n
      BY <1>0, <2>0, <2>2
    <3>2. history[o][i + 1].prev = history[o][i].status_id
      BY <3>1 DEF Told1
    <3> HIDE DEF n
    <3> QED
      BY <1>0, <2>0, <3>1, <3>2
  <2> QED
    BY <2>1, <2>2
<1> QED
  BY <1>0, <1>1, <1>2, <1>3 DEF Told1

LEMMA StepTells ==
  ASSUME Typed, [Next]_vars, NEW o \in OrderIds, Told1(o)
  PROVE  Told1(o)'
<1> USE DEF Typed, TypeOK
<1>1. CASE Untouched(o)
  BY <1>1 DEF Untouched, Told1, Exists
<1>2. CASE Placed(o)
  BY <1>2, PlacedRow DEF Told1
<1>3. CASE \E s \in Statuses, t \in Stamps : Moved(o, s, t)
  BY <1>3, MovedTells
<1>4. CASE MovedByAdmin(o)
  BY <1>4, MovedTells DEF MovedByAdmin, TaskRow
<1>5. CASE Closed(o)
  BY <1>5, ClosedRow DEF Told1
<1> QED
  BY <1>1, <1>2, <1>3, <1>4, <1>5, NextOrder DEF OrderStep

\* The status and the version of an order are those its history ends with,
\* whatever requests and callbacks interleave (service.py:110-124).
THEOREM HistoryTells == Spec => []HistoryTellsStatus
<1> DEFINE Inv == \A o \in OrderIds : Told1(o)
<1>1. Init => Inv
  <2> SUFFICES ASSUME Init, NEW o \in OrderIds PROVE Told1(o)
    OBVIOUS
  <2>1. orders[o] = NoOrder /\ history[o] = << >> /\ Len(history[o]) = 0
    BY DEF Init, StoreInit
  <2> QED
    BY <2>1 DEF Told1, Exists
<1>2. Typed /\ Inv /\ [Next]_vars => Inv'
  BY StepTells
<1>3. Inv => HistoryTellsStatus
  BY DEF Told1, HistoryTellsStatus
<1> QED
  BY <1>1, <1>2, <1>3, TypeCorrect, PTL DEF Spec

\* Rows are never removed or rewritten.
LEMMA HistoryGrows ==
  ASSUME Typed, [Next]_vars, NEW o \in OrderIds
  PROVE  \A i \in 1 .. Len(history[o]) :
           i \in 1 .. Len(history'[o]) /\ history'[o][i] = history[o][i]
<1> USE DEF Typed, TypeOK
<1>1. CASE history'[o] = history[o]
  BY <1>1
<1>2. CASE \E s \in Statuses, source \in Stamps \cup {"admin"} : Moved(o, s, source)
  <2>1. /\ Len(history[o]) \in Nat
        /\ Len(history'[o]) = Len(history[o]) + 1
        /\ \A i \in 1 .. Len(history[o]) : history'[o][i] = history[o][i]
    BY <1>2, MovedRow
  <2> QED
    BY <2>1
<1> QED
  BY <1>1, <1>2, NextOrder
     DEF OrderStep, Untouched, Placed, Closed, MovedByAdmin, TaskRow

\* A closed order is never opened again, and no order is ever deleted.
LEMMA ClosedStays ==
  ASSUME Typed, [Next]_vars, NEW o \in OrderIds, Exists(o), orders[o].is_active = 0
  PROVE  Exists(o)' /\ orders'[o].is_active = 0
<1>1. CASE Untouched(o)
  BY <1>1 DEF Untouched, Exists
<1>2. CASE Closed(o)
  BY <1>2, ClosedRow DEF Typed, TypeOK
<1>3. ~Placed(o) /\ ~MovedByAdmin(o) /\ \A s, t : ~Moved(o, s, t)
  BY DEF Placed, MovedByAdmin, Moved, Matches
<1> QED
  BY <1>1, <1>2, <1>3, NextOrder DEF OrderStep

LEMMA ExistsStays ==
  ASSUME Typed, [Next]_vars, NEW o \in OrderIds, Exists(o)
  PROVE  Exists(o)'
<1> USE DEF Typed, TypeOK
<1>1. CASE Untouched(o)
  BY <1>1 DEF Untouched, Exists
<1>2. CASE Closed(o)
  BY <1>2, ClosedRow
<1>3. ASSUME NEW s \in Statuses, NEW source \in Stamps \cup {"admin"},
             Moved(o, s, source)
      PROVE  Exists(o)'
  BY <1>3, MovedRow
<1>4. ~Placed(o)
  BY DEF Placed
<1> QED
  BY <1>1, <1>2, <1>3, <1>4, NextOrder DEF OrderStep, MovedByAdmin, TaskRow

=============================================================================
