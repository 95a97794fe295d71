--------------------------- MODULE WebhookProofs ----------------------------
(***************************************************************************)
(* What the answers of the webhook and the rows it leaves stand for.       *)
(***************************************************************************)
EXTENDS DeliveryProofs, FiniteSetTheorems

-----------------------------------------------------------------------------
(* What a recorded or acknowledged event stands for *)

LEMMA AppliedStays ==
  ASSUME Typed, [Next]_vars, NEW m \in Messages, Accepted(m), Applied(m)
  PROVE  Applied(m)'
<1>1. m.order_id \in OrderIds
  BY AcceptedEvent
<1>2. PICK i \in 1 .. Len(history[m.order_id]) :
        /\ history[m.order_id][i].status_id = m.status_id
        /\ history[m.order_id][i].source = m.ts
  BY DEF Applied, Wrote
<1>3. /\ i \in 1 .. Len(history'[m.order_id])
      /\ history'[m.order_id][i] = history[m.order_id][i]
  BY <1>1, HistoryGrows
<1> QED
  BY <1>2, <1>3 DEF Applied, Wrote

\* Events with the same key are applied by the same rows.
LEMMA SameKey ==
  ASSUME NEW m, NEW n, EventKey(m) = EventKey(n), Applied(m)
  PROVE  Applied(n)
  BY DEF EventKey, Applied, Wrote

\* A request past its update has applied its event; so has one that recorded
\* it; and only an accepted event is acknowledged.
PastUpdateApplied ==
  \A r \in Requests : req[r].pc = "record" => Applied(req[r].msg)

AckedApplied ==
  \A m \in Messages :
    replies[m] \cap {"ok", "duplicate"} # {} => Accepted(m) /\ Applied(m)

WebhookInv == RecordedMeansApplied /\ PastUpdateApplied /\ AckedApplied

LEMMA InitWebhook == Init => WebhookInv
  BY DEF Init, StoreInit, ApiInit, WebhookInv, RecordedMeansApplied, IsDuplicate,
     PastUpdateApplied, AckedApplied, Idle

\* A request whose update found an open order has applied its event.
LEMMA UpdateApplies ==
  ASSUME Typed, NEW r \in Requests, ApplyUpdate(r), Matches(req[r].msg.order_id)
  PROVE  Applied(req[r].msg)'
<1> DEFINE m == req[r].msg
<1>1. /\ m \in Messages /\ m.order_id \in OrderIds
      /\ m.status_id \in Statuses /\ m.ts \in Stamps
  BY RequestAtWork DEF ApplyUpdate
<1>2. /\ UpdateOrderStatus(m.order_id, m.status_id, m.ts)
      /\ req' = [req EXCEPT ![r].pc = "record"]
  BY DEF ApplyUpdate, Goto
<1>3. req'[r].msg = m
  BY <1>2 DEF Typed, TypeOK, ApiTypeOK, Idle
<1>4. history'[m.order_id] =
        Append(history[m.order_id], [status_id |-> m.status_id, source |-> m.ts,
                                     prev |-> orders[m.order_id].status_id])
  BY <1>1, <1>2 DEF UpdateOrderStatus, Logged, Typed, TypeOK, StoreTypeOK
<1>5. /\ history[m.order_id] \in Seq(HistoryRow)
      /\ orders[m.order_id] \in OrderRow
  BY <1>1 DEF Typed, TypeOK, StoreTypeOK, Matches, Exists
<1>6. [status_id |-> m.status_id, source |-> m.ts,
       prev |-> orders[m.order_id].status_id] \in HistoryRow
  BY <1>1, <1>5 DEF HistoryRow, OrderRow
<1>7. LET n == Len(history[m.order_id]) + 1
      IN  /\ n \in 1 .. Len(history'[m.order_id])
          /\ history'[m.order_id][n].status_id = m.status_id
          /\ history'[m.order_id][n].source = m.ts
  <2> DEFINE rows == history[m.order_id]
             row == [status_id |-> m.status_id, source |-> m.ts,
                     prev |-> orders[m.order_id].status_id]
  <2>1. row.status_id = m.status_id /\ row.source = m.ts
    OBVIOUS
  <2>2. rows \in Seq(HistoryRow) /\ row \in HistoryRow
    BY <1>5, <1>6
  <2>3. history'[m.order_id] = Append(rows, row)
    BY <1>4
  <2> HIDE DEF rows, row
  <2>4. /\ Len(rows) + 1 \in 1 .. Len(Append(rows, row))
        /\ Append(rows, row)[Len(rows) + 1] = row
    BY <2>2, AppendedRow
  <2>5. /\ Len(rows) + 1 \in 1 .. Len(history'[m.order_id])
        /\ history'[m.order_id][Len(rows) + 1] = row
    BY <2>3, <2>4
  <2>6. /\ history'[m.order_id][Len(rows) + 1].status_id = m.status_id
        /\ history'[m.order_id][Len(rows) + 1].source = m.ts
    BY <2>1, <2>5
  <2> QED
    BY <2>5, <2>6 DEF rows
<1> QED
  BY <1>3, <1>7 DEF Applied, Wrote

LEMMA PastUpdateStep ==
  ASSUME Typed, WebhookInv, [Next]_vars
  PROVE  PastUpdateApplied'
<1> SUFFICES ASSUME NEW r \in Requests, req'[r].pc = "record"
             PROVE  Applied(req[r].msg)'
  BY DEF PastUpdateApplied
<1>1. CASE req'[r] = req[r]
  <2>1. Applied(req[r].msg) /\ req[r].msg \in Messages /\ Accepted(req[r].msg)
    BY <1>1, RequestAtWork DEF WebhookInv, PastUpdateApplied
  <2> QED
    BY <1>1, <2>1, AppliedStays DEF Applied, Wrote
<1>2. CASE ApplyUpdate(r) /\ Matches(req[r].msg.order_id)
  BY <1>2, UpdateApplies
<1>3. CASE req'[r] # req[r]
  <2>1. WebhookNext
    BY <1>3 DEF Next, AdminNext, OrderNext, ClientNext, Subscribe, Unsubscribe,
       Crash, apiVars, vars, Idle
  <2>2. ~(\E m \in Messages : TurnAway(m))
    BY <1>3 DEF TurnAway, Refuse, Raise
  <2>3. ~(\E q \in Requests, m \in Messages : Receive(q, m))
    BY <1>3 DEF Receive, Typed, TypeOK, ApiTypeOK
  <2>4. PICK q \in Requests : RequestStep(q) \/ FailDb(q)
    BY <2>1, <2>2, <2>3 DEF WebhookNext
  <2>5. q = r /\ ~(\E answer \in Replies : Answer(r, answer)) /\ ~FailDb(r)
    <3>1. \/ req' = [req EXCEPT ![q] = Idle]
          \/ \E step \in Steps : req' = [req EXCEPT ![q].pc = step]
      BY <2>4 DEF RequestStep, CheckDuplicate, LookUpOrder, ApplyUpdate,
         RecordEvent, InsertEvent, FailDb, Answer, Goto, Steps
    <3>2. q = r
      BY <1>3, <3>1 DEF Typed, TypeOK, ApiTypeOK
    <3>3. req' # [req EXCEPT ![r] = Idle]
      BY DEF Typed, TypeOK, ApiTypeOK, Idle
    <3> QED
      BY <3>2, <3>3 DEF Answer, FailDb
  <2>6. ~Goto(r, "lookup") /\ ~Goto(r, "update")
    BY <1>3, RequestAtWork DEF Goto, Typed, TypeOK, ApiTypeOK, Idle
  <2> QED
    BY <1>2, <2>4, <2>5, <2>6 DEF RequestStep, CheckDuplicate, LookUpOrder,
       ApplyUpdate, RecordEvent, InsertEvent, Replies
<1> QED
  BY <1>1, <1>3

\* Only _record_event writes webhook_events.
LEMMA UpdateEvents ==
  ASSUME [Next]_vars, events' # events
  PROVE  \E r \in Requests : RecordEvent(r)
<1>1. ~(UNCHANGED vars) /\ ~Crash /\ ~ClientNext /\ ~OrderNext
  BY DEF vars, Crash, storeVars, ClientNext, Subscribe, Unsubscribe, SubscribeOrder,
     UnsubscribeOrder, OrderNext, ConfirmClose, ConfirmOrder, CloseOrder, CreateOrder
<1>2. ~AdminNext
  BY DEF AdminNext, PressNext, TaskStep, NextUpdate, NextSubscribers, NextNotify,
     AdminError, UpdateOrderStatus, storeVars
<1>3. WebhookNext
  BY <1>1, <1>2 DEF Next
<1> QED
  BY <1>3 DEF WebhookNext, RequestStep, TurnAway, Refuse, Raise, Receive,
     CheckDuplicate,
     LookUpOrder, ApplyUpdate, FailDb, UpdateOrderStatus, storeVars

\* Only the duplicate check and the end of a request acknowledge an event.
LEMMA NewAcknowledgement ==
  ASSUME Typed, [Next]_vars, NEW m \in Messages,
         replies[m] \cap {"ok", "duplicate"} = {},
         replies'[m] \cap {"ok", "duplicate"} # {}
  PROVE  \E r \in Requests :
           /\ req[r].pc # "idle"
           /\ req[r].msg = m
           /\ (CheckDuplicate(r) /\ IsDuplicate(m)) \/ RecordEvent(r)
<1>0. replies \in [Messages -> SUBSET Replies]
  BY DEF Typed, TypeOK, ApiTypeOK
<1>1. WebhookNext
  BY DEF Next, AdminNext, OrderNext, ClientNext, Subscribe, Unsubscribe, Crash,
     apiVars, vars
<1>2. ~(\E n \in Messages : TurnAway(n)) /\ ~(\E r \in Requests : FailDb(r))
  BY <1>0 DEF TurnAway, Refuse, Raise, FailDb, Reply
<1>3. ~(\E r \in Requests, n \in Messages : Receive(r, n))
  BY DEF Receive
<1>4. PICK r \in Requests : RequestStep(r)
  BY <1>1, <1>2, <1>3 DEF WebhookNext
<1>5. \A step : ~Goto(r, step)
  BY DEF Goto
<1>6. \A answer \in Replies : Answer(r, answer) => answer \in {"ok", "duplicate"} /\ req[r].msg = m
  BY <1>0 DEF Answer, Reply
<1>7. CASE CheckDuplicate(r)
  <2>1. Answer(r, "duplicate") /\ IsDuplicate(req[r].msg) /\ req[r].pc # "idle"
    BY <1>5, <1>7 DEF CheckDuplicate
  <2> QED
    BY <1>6, <1>7, <2>1 DEF Replies
<1>8. ~LookUpOrder(r) /\ ~ApplyUpdate(r)
  <2>1. ~Answer(r, "not found") /\ ~Answer(r, "conflict")
    BY <1>6 DEF Replies
  <2> QED
    BY <1>5, <2>1 DEF LookUpOrder, ApplyUpdate
<1>9. CASE RecordEvent(r)
  <2>1. req[r].pc # "idle" /\ \E answer \in Replies : Answer(r, answer)
    BY <1>9 DEF RecordEvent, InsertEvent, Replies
  <2> QED
    BY <1>6, <1>9, <2>1
<1> QED
  BY <1>4, <1>7, <1>8, <1>9 DEF RequestStep

LEMMA RecordedStep ==
  ASSUME Typed, WebhookInv, [Next]_vars
  PROVE  RecordedMeansApplied'
<1> SUFFICES ASSUME NEW m \in Messages, Accepted(m), IsDuplicate(m)'
             PROVE  Applied(m)'
  BY DEF RecordedMeansApplied, Accepted, Authorized, Checked, WellFormed, Storable
<1>1. CASE IsDuplicate(m)
  BY <1>1, AppliedStays DEF WebhookInv, RecordedMeansApplied
<1>2. CASE ~IsDuplicate(m)
  <2>1. EventKey(m) \in events' /\ EventKey(m) \notin events
    BY <1>2 DEF IsDuplicate, EventKey
  <2>2. PICK r \in Requests : RecordEvent(r)
    BY <2>1, UpdateEvents
  <2>3. EventKey(req[r].msg) = EventKey(m) /\ Applied(req[r].msg)
    BY <2>1, <2>2 DEF RecordEvent, InsertEvent, WebhookInv, PastUpdateApplied
  <2> QED
    BY <2>3, SameKey, AppliedStays
<1> QED
  BY <1>1, <1>2

LEMMA AckedStep ==
  ASSUME Typed, WebhookInv, [Next]_vars
  PROVE  AckedApplied'
<1> SUFFICES ASSUME NEW m \in Messages, replies'[m] \cap {"ok", "duplicate"} # {}
             PROVE  Accepted(m) /\ Applied(m)'
  BY DEF AckedApplied, Accepted, Authorized, Checked, WellFormed, Storable
<1>1. CASE replies[m] \cap {"ok", "duplicate"} # {}
  BY <1>1, AppliedStays DEF WebhookInv, AckedApplied
<1>2. CASE replies[m] \cap {"ok", "duplicate"} = {}
  <2>1. PICK r \in Requests :
          /\ req[r].pc # "idle"
          /\ req[r].msg = m
          /\ (CheckDuplicate(r) /\ IsDuplicate(m)) \/ RecordEvent(r)
    BY <1>2, NewAcknowledgement
  <2>2. Accepted(m) /\ Applied(m)
    BY <2>1, RequestAtWork
       DEF RecordEvent, InsertEvent, WebhookInv, PastUpdateApplied,
       RecordedMeansApplied
  <2> QED
    BY <2>2, AppliedStays
<1> QED
  BY <1>1, <1>2

\* An event in webhook_events is never one whose change was lost, through
\* any interleaving, failed call or crash (webhook_api.py:55-72).
THEOREM RecordedIsApplied == Spec => []RecordedMeansApplied
<1>1. Init => WebhookInv
  BY InitWebhook
<1>2. Typed /\ WebhookInv /\ [Next]_vars => WebhookInv'
  BY PastUpdateStep, RecordedStep, AckedStep DEF WebhookInv
<1>3. WebhookInv => RecordedMeansApplied
  BY DEF WebhookInv
<1> QED
  BY <1>1, <1>2, <1>3, TypeCorrect, PTL DEF Spec

\* "ok" and "duplicate_ignored" are never told of a change that is not in the
\* history (webhook_api.py:56, :74).
THEOREM AcknowledgedIsApplied == Spec => []AckMeansApplied
<1>1. Init => WebhookInv
  BY InitWebhook
<1>2. Typed /\ WebhookInv /\ [Next]_vars => WebhookInv'
  BY PastUpdateStep, RecordedStep, AckedStep DEF WebhookInv
<1>3. WebhookInv => AckMeansApplied
  BY DEF WebhookInv, AckedApplied, AckMeansApplied
<1> QED
  BY <1>1, <1>2, <1>3, TypeCorrect, PTL DEF Spec

-----------------------------------------------------------------------------
(* A refused update stays refused *)

\* A request reaches its update only for an order that exists.
UpdatesExisting ==
  \A r \in Requests : req[r].pc = "update" => Exists(req[r].msg.order_id)

ConflictClosed ==
  \A m \in Messages :
    "conflict" \in replies[m] =>
      /\ m.order_id \in OrderIds
      /\ Exists(m.order_id)
      /\ orders[m.order_id].is_active = 0

ConflictInv == UpdatesExisting /\ ConflictClosed

\* How a step changes one request.
LEMMA RequestEffect ==
  ASSUME Typed, [Next]_vars, NEW r \in Requests
  PROVE  \/ req'[r] = req[r]
         \/ req'[r] = Idle
         \/ req'[r].pc = "dedup"
         \/ Goto(r, "lookup") /\ CheckDuplicate(r)
         \/ Goto(r, "update") /\ LookUpOrder(r) /\ Exists(req[r].msg.order_id)
         \/ Goto(r, "record") /\ ApplyUpdate(r)
<1> USE DEF Typed, TypeOK, ApiTypeOK
<1>1. CASE WebhookNext
  <2>1. CASE \E m \in Messages : TurnAway(m)
    BY <2>1 DEF TurnAway, Refuse, Raise
  <2>2. CASE \E q \in Requests, m \in Messages : Receive(q, m)
    BY <2>2 DEF Receive
  <2>3. ASSUME NEW q \in Requests, RequestStep(q) \/ FailDb(q)
        PROVE  \/ req'[r] = req[r]
               \/ req'[r] = Idle
               \/ Goto(r, "lookup") /\ CheckDuplicate(r)
               \/ Goto(r, "update") /\ LookUpOrder(r) /\ Exists(req[r].msg.order_id)
               \/ Goto(r, "record") /\ ApplyUpdate(r)
    <3>1. CASE req' = [req EXCEPT ![q] = Idle]
      BY <3>1
    <3>2. CASE req' # [req EXCEPT ![q] = Idle]
      <4>1. \/ Goto(q, "lookup") /\ CheckDuplicate(q)
            \/ Goto(q, "update") /\ LookUpOrder(q) /\ Exists(req[q].msg.order_id)
            \/ Goto(q, "record") /\ ApplyUpdate(q)
        BY <2>3, <3>2 DEF RequestStep, CheckDuplicate, LookUpOrder, ApplyUpdate,
           RecordEvent, InsertEvent, FailDb, Answer
      <4>2. q # r => req'[r] = req[r]
        BY <4>1 DEF Goto
      <4> QED
        BY <4>1, <4>2
    <3> QED
      BY <3>1, <3>2
  <2> QED
    BY <1>1, <2>1, <2>2, <2>3 DEF WebhookNext
<1>2. CASE ~WebhookNext
  BY <1>2 DEF Next, AdminNext, OrderNext, ClientNext, Subscribe, Unsubscribe,
     Crash, apiVars, vars
<1> QED
  BY <1>1, <1>2

LEMMA UpdatesExistingStep ==
  ASSUME Typed, UpdatesExisting, [Next]_vars
  PROVE  UpdatesExisting'
<1> SUFFICES ASSUME NEW r \in Requests, req'[r].pc = "update"
             PROVE  Exists(req[r].msg.order_id)'
  BY DEF UpdatesExisting
<1>1. CASE req'[r] = req[r]
  <2>1. Exists(req[r].msg.order_id) /\ req[r].msg.order_id \in OrderIds
    BY <1>1, RequestAtWork DEF UpdatesExisting
  <2> QED
    BY <1>1, <2>1, ExistsStays DEF Exists
<1>2. CASE Goto(r, "update") /\ LookUpOrder(r) /\ Exists(req[r].msg.order_id)
  <2>1. req[r].msg.order_id \in OrderIds /\ req'[r].msg = req[r].msg
    BY <1>2, RequestAtWork DEF LookUpOrder, Goto, Typed, TypeOK, ApiTypeOK
  <2> QED
    BY <1>2, <2>1, ExistsStays DEF Exists
<1>3. ~(Goto(r, "lookup") /\ CheckDuplicate(r)) /\ ~(Goto(r, "record") /\ ApplyUpdate(r))
  <2>1. ASSUME NEW step \in Steps, Goto(r, step), req[r].pc # "idle"
        PROVE  req'[r].pc = step
    BY <2>1, RequestAtWork DEF Goto, Typed, TypeOK, ApiTypeOK
  <2> QED
    BY <2>1 DEF CheckDuplicate, ApplyUpdate, Steps
<1> QED
  BY <1>1, <1>2, <1>3, RequestEffect DEF Idle

\* Only a refused update is answered with a conflict.
LEMMA NewConflict ==
  ASSUME Typed, [Next]_vars, NEW m \in Messages,
         "conflict" \notin replies[m], "conflict" \in replies'[m]
  PROVE  \E r \in Requests :
           ApplyUpdate(r) /\ req[r].msg = m /\ ~Matches(m.order_id)
<1>0. replies \in [Messages -> SUBSET Replies]
  BY DEF Typed, TypeOK, ApiTypeOK
<1>1. WebhookNext
  BY DEF Next, AdminNext, OrderNext, ClientNext, Subscribe, Unsubscribe, Crash,
     apiVars, vars
<1>2. ~(\E n \in Messages : TurnAway(n)) /\ ~(\E r \in Requests : FailDb(r))
  BY <1>0 DEF TurnAway, Refuse, Raise, FailDb, Reply
<1>3. ~(\E r \in Requests, n \in Messages : Receive(r, n))
  BY DEF Receive
<1>4. PICK r \in Requests : RequestStep(r)
  BY <1>1, <1>2, <1>3 DEF WebhookNext
<1>5. \A step : ~Goto(r, step)
  BY DEF Goto
<1>6. \A answer \in Replies : Answer(r, answer) => answer = "conflict" /\ req[r].msg = m
  BY <1>0 DEF Answer, Reply
<1>7. ~Answer(r, "not found") /\ ~Answer(r, "duplicate") /\ ~Answer(r, "ok")
      /\ ~Answer(r, "error")
  BY <1>6 DEF Replies
<1>8. ApplyUpdate(r)
  BY <1>4, <1>5, <1>7 DEF RequestStep, CheckDuplicate, LookUpOrder, RecordEvent,
     InsertEvent
<1>9. Answer(r, "conflict") /\ ~Matches(req[r].msg.order_id)
  BY <1>5, <1>8 DEF ApplyUpdate
<1> QED
  BY <1>6, <1>8, <1>9 DEF Replies

LEMMA ConflictStep ==
  ASSUME Typed, ConflictInv, [Next]_vars
  PROVE  ConflictClosed'
<1> SUFFICES ASSUME NEW m \in Messages, "conflict" \in replies'[m]
             PROVE  /\ m.order_id \in OrderIds
                    /\ Exists(m.order_id)'
                    /\ orders'[m.order_id].is_active = 0
  BY DEF ConflictClosed, Exists
<1>1. CASE "conflict" \in replies[m]
  BY <1>1, ClosedStays DEF ConflictInv, ConflictClosed, Exists
<1>2. CASE "conflict" \notin replies[m]
  <2>1. PICK r \in Requests : ApplyUpdate(r) /\ req[r].msg = m /\ ~Matches(m.order_id)
    BY <1>2, NewConflict
  <2>2. m.order_id \in OrderIds /\ Exists(m.order_id)
    BY <2>1, RequestAtWork DEF ApplyUpdate, ConflictInv, UpdatesExisting
  <2>3. orders[m.order_id].is_active = 0
    <3>1. orders[m.order_id] \in OrderRow
      BY <2>2 DEF Typed, TypeOK, StoreTypeOK, Exists
    <3> QED
      BY <2>1, <2>2, <3>1 DEF Matches, OrderRow
  <2> QED
    BY <2>2, <2>3, ClosedStays DEF Exists
<1> QED
  BY <1>1, <1>2

\* 409 is told of an order that is closed, and closed for good
\* (webhook_api.py:69).
THEOREM ConflictIsFinal == Spec => []ConflictMeansClosed
<1>1. Init => ConflictInv
  BY DEF Init, ApiInit, ConflictInv, UpdatesExisting, ConflictClosed, Idle
<1>2. Typed /\ ConflictInv /\ [Next]_vars => ConflictInv'
  BY UpdatesExistingStep, ConflictStep DEF ConflictInv
<1>3. ConflictInv => ConflictMeansClosed
  BY DEF ConflictInv, ConflictClosed, ConflictMeansClosed
<1> QED
  BY <1>1, <1>2, <1>3, TypeCorrect, PTL DEF Spec

-----------------------------------------------------------------------------
(* The metric *)

MetricInv == IsFiniteSet(events) /\ statusUpdates <= Cardinality(events)

LEMMA MetricStep ==
  ASSUME Typed, MetricInv, [Next]_vars
  PROVE  MetricInv'
<1> USE DEF MetricInv
<1>0. statusUpdates \in Nat /\ Cardinality(events) \in Nat
  BY FS_CardinalityType DEF Typed, TypeOK, ApiTypeOK
<1>1. CASE UNCHANGED <<events, statusUpdates>>
  BY <1>1
<1>2. CASE Crash
  BY <1>0, <1>2 DEF Crash, storeVars
<1>3. CASE \E r \in Requests : RecordEvent(r)
  <2>1. PICK r \in Requests : RecordEvent(r)
    BY <1>3
  <2>2. CASE IsDuplicate(req[r].msg)
    BY <2>1, <2>2 DEF RecordEvent, InsertEvent
  <2>3. CASE ~IsDuplicate(req[r].msg)
    <3>1. /\ EventKey(req[r].msg) \notin events
          /\ events' = events \cup {EventKey(req[r].msg)}
          /\ statusUpdates' = statusUpdates + 1
      BY <2>1, <2>3 DEF RecordEvent, InsertEvent, IsDuplicate
    <3>2. IsFiniteSet(events') /\ Cardinality(events') = Cardinality(events) + 1
      BY <3>1, FS_AddElement
    <3> QED
      BY <1>0, <3>1, <3>2
  <2> QED
    BY <2>2, <2>3
<1>4. WebhookNext => UNCHANGED <<events, statusUpdates>> \/ \E r \in Requests : RecordEvent(r)
  BY DEF WebhookNext, RequestStep, TurnAway, Refuse, Raise, Receive,
     CheckDuplicate, LookUpOrder,
     ApplyUpdate, FailDb, UpdateOrderStatus, storeVars
<1>5. AdminNext => UNCHANGED <<events, statusUpdates>>
  BY DEF AdminNext, PressNext, TaskStep, NextUpdate, NextSubscribers, NextNotify,
     AdminError, UpdateOrderStatus, storeVars, apiVars
<1>6. OrderNext \/ ClientNext \/ UNCHANGED vars => UNCHANGED <<events, statusUpdates>>
  BY DEF OrderNext, ConfirmClose, ConfirmOrder, CloseOrder, CreateOrder, ClientNext,
     Subscribe, Unsubscribe, SubscribeOrder, UnsubscribeOrder, apiVars, vars
<1> QED
  BY <1>1, <1>2, <1>3, <1>4, <1>5, <1>6 DEF Next

\* status_updates never counts more than webhook_events holds, since a crash
\* resets it and a second insert of a key raises (webhook_api.py:72-73).
THEOREM MetricIsBounded == Spec => []MetricNeverOverstates
<1>1. Init => MetricInv
  BY FS_EmptySet DEF Init, StoreInit, ApiInit, MetricInv
<1>2. Typed /\ MetricInv /\ [Next]_vars => MetricInv'
  BY MetricStep
<1>3. MetricInv => MetricNeverOverstates
  BY DEF MetricInv, MetricNeverOverstates
<1> QED
  BY <1>1, <1>2, <1>3, TypeCorrect, PTL DEF Spec

-----------------------------------------------------------------------------
(* How often one event is applied *)

\* Requests of the event m between the duplicate check and the update, ...
Before(m) ==
  {r \in Requests :
     req[r].pc \in {"lookup", "update"} /\ EventKey(req[r].msg) = EventKey(m)}

\* ... and those that have updated the order and not recorded the event.
After(m) ==
  {r \in Requests : req[r].pc = "record" /\ EventKey(req[r].msg) = EventKey(m)}

(***************************************************************************)
(* Until m is recorded, each of its rows is due to a request that still    *)
(* has to record it, or to one that a fault ended first; a fault ends all  *)
(* of them at most.  Once m is recorded, only the requests that had passed *)
(* the check by then can add a row.                                        *)
(***************************************************************************)
RowsDue(m) ==
  LET n == Cardinality(Requests)
  IN  /\ ~IsDuplicate(m) =>
           Cardinality(RowsOf(m)) <= n * faults + Cardinality(After(m))
      /\ IsDuplicate(m) =>
           Cardinality(RowsOf(m)) + Cardinality(Before(m)) <= n * faults + n

DuplicatesInv == \A m \in Messages : Accepted(m) => RowsDue(m)

\* The three ways a step can concern m: it adds no row and records nothing, ...
Passes(m) ==
  /\ RowsOf(m)' = RowsOf(m)
  /\ IsDuplicate(m)' <=> IsDuplicate(m)
  /\ ~IsDuplicate(m) => After(m) \subseteq After(m)' \/ faults' = faults + 1
  /\ IsDuplicate(m) => Before(m)' \subseteq Before(m)

\* ... it records m, ...
Records(m) ==
  /\ RowsOf(m)' = RowsOf(m)
  /\ ~IsDuplicate(m)
  /\ IsDuplicate(m)'
  /\ Before(m)' \subseteq Before(m)

\* ... or a request of m moves the order.
Applies(m) ==
  /\ \E i : RowsOf(m)' \subseteq RowsOf(m) \cup {i}
  /\ IsDuplicate(m)' <=> IsDuplicate(m)
  /\ faults' = faults
  /\ \E r \in Before(m) \ After(m) :
       Before(m)' \subseteq Before(m) \ {r} /\ After(m)' = After(m) \cup {r}

LEMMA FaultsGrow ==
  ASSUME Typed, [Next]_vars
  PROVE  faults \in Nat /\ faults' \in {faults, faults + 1}
<1>1. faults \in Nat
  BY StoreAssumption DEF Typed, TypeOK, StoreTypeOK
<1>2. \/ faults' = faults
      \/ faults' = faults + 1
  BY DEF Next, WebhookNext, RequestStep, TurnAway, Refuse, Raise, Receive,
     CheckDuplicate, LookUpOrder,
     ApplyUpdate, RecordEvent, InsertEvent, FailDb, Answer, Goto, Reply, AdminNext,
     PressNext,
     TaskStep, NextUpdate, NextSubscribers, NextNotify, AdminError, OrderNext,
     ConfirmClose, ConfirmOrder, ClientNext, Subscribe, Unsubscribe, Crash, Fault, vars
<1> QED
  BY <1>1, <1>2

\* An update with another key, or none at all, leaves m's rows alone.
LEMMA OtherRow ==
  ASSUME Typed, NEW m \in Messages, Accepted(m), NEW o \in OrderIds,
         NEW s \in Statuses, NEW source \in Stamps \cup {"admin"},
         UpdateOrderStatus(o, s, source), <<o, s, source>> # EventKey(m)
  PROVE  RowsOf(m)' = RowsOf(m)
<1> DEFINE p == m.order_id
           n == Len(history[p])
<1>1. p \in OrderIds
  BY AcceptedEvent
<1>2. CASE Untouched(p)
  BY <1>2 DEF Untouched, RowsOf, Wrote
<1>3. CASE o = p /\ Moved(p, s, source)
  <2>1. /\ n \in Nat
        /\ Len(history'[p]) = n + 1
        /\ \A i \in 1 .. n : history'[p][i] = history[p][i]
        /\ history'[p][n + 1] =
             [status_id |-> s, source |-> source, prev |-> orders[p].status_id]
    <3>1. StoreTypeOK
      BY DEF Typed, TypeOK
    <3> HIDE DEF p
    <3> QED
      BY <1>1, <1>3, <3>1, MovedRow
  <2>2. s # m.status_id \/ source # m.ts
    BY <1>3 DEF EventKey
  <2>3. history'[p][n + 1].status_id = s /\ history'[p][n + 1].source = source
    BY <2>1
  <2>4. RowsOf(m)' =
          {i \in 1 .. n + 1 : /\ history'[p][i].status_id = m.status_id
                             /\ history'[p][i].source = m.ts}
    BY <2>1 DEF RowsOf, Wrote
  <2>5. RowsOf(m) =
          {i \in 1 .. n : /\ history[p][i].status_id = m.status_id
                         /\ history[p][i].source = m.ts}
    BY DEF RowsOf, Wrote
  <2>6. \A i \in 1 .. n + 1 : i \in 1 .. n \/ i = n + 1
    BY <2>1
  <2>7. 1 .. n \subseteq 1 .. n + 1
    BY <2>1
  <2> HIDE DEF n, p
  <2> QED
    BY <2>1, <2>2, <2>3, <2>4, <2>5, <2>6, <2>7
<1> QED
  BY <1>1, <1>2, <1>3, UpdateEffect DEF Typed, TypeOK

\* The update of a request of m adds one row at most.
LEMMA OwnRow ==
  ASSUME Typed, NEW m \in Messages, Accepted(m),
         UpdateOrderStatus(m.order_id, m.status_id, m.ts)
  PROVE  RowsOf(m)' \subseteq RowsOf(m) \cup {Len(history[m.order_id]) + 1}
<1> DEFINE p == m.order_id
           n == Len(history[p])
<1>1. p \in OrderIds /\ m.status_id \in Statuses /\ m.ts \in Stamps
  BY AcceptedEvent
<1>2. CASE Untouched(p)
  BY <1>2 DEF Untouched, RowsOf, Wrote
<1>3. CASE Moved(p, m.status_id, m.ts)
  <2>1. /\ n \in Nat
        /\ Len(history'[p]) = n + 1
        /\ \A i \in 1 .. n : history'[p][i] = history[p][i]
    BY <1>1, <1>3, MovedRow DEF Typed, TypeOK
  <2> QED
    BY <2>1 DEF RowsOf, Wrote
<1> QED
  BY <1>1, <1>2, <1>3, UpdateEffect DEF Typed, TypeOK

\* A step of one request leaves the others where they are.
LEMMA OthersStay ==
  ASSUME NEW m \in Messages, NEW r \in Requests,
         \A q \in Requests : q # r => req'[q] = req[q]
  PROVE  Before(m)' \ {r} = Before(m) \ {r} /\ After(m)' \ {r} = After(m) \ {r}
  BY DEF Before, After, EventKey

\* Where a request is after a step of its own.
LEMMA MoveOfRequest ==
  ASSUME Typed, NEW r \in Requests, req[r].pc # "idle"
  PROVE  /\ \A step \in Steps :
              Goto(r, step) =>
                /\ req'[r].pc = step
                /\ req'[r].msg = req[r].msg
                /\ \A q \in Requests : q # r => req'[q] = req[q]
         /\ req' = [req EXCEPT ![r] = Idle] =>
              /\ req'[r].pc = "idle"
              /\ \A q \in Requests : q # r => req'[q] = req[q]
  BY RequestAtWork DEF Goto, Typed, TypeOK, ApiTypeOK, Idle

LEMMA RequestConcerns ==
  ASSUME Typed, NEW m \in Messages, Accepted(m), NEW r \in Requests, RequestStep(r)
  PROVE  Passes(m) \/ Records(m) \/ Applies(m)
<1> DEFINE n == req[r].msg
<1>0. /\ req[r].pc # "idle"
      /\ n \in Messages /\ Accepted(n)
      /\ n.order_id \in OrderIds /\ n.status_id \in Statuses /\ n.ts \in Stamps
  BY RequestAtWork DEF RequestStep, CheckDuplicate, LookUpOrder, ApplyUpdate,
     RecordEvent, InsertEvent
<1>1. CASE CheckDuplicate(r)
  <2>1. RowsOf(m)' = RowsOf(m) /\ (IsDuplicate(m)' <=> IsDuplicate(m))
    BY <1>1 DEF CheckDuplicate, storeVars, RowsOf, Wrote, IsDuplicate, EventKey
  <2>2. r \notin Before(m) /\ r \notin After(m) /\ r \notin After(m)'
    BY <1>0, <1>1, MoveOfRequest DEF CheckDuplicate, Answer, Before, After, Steps
  <2>3. \A q \in Requests : q # r => req'[q] = req[q]
    BY <1>0, <1>1, MoveOfRequest DEF CheckDuplicate, Answer, Steps
  <2>4. IsDuplicate(m) => r \notin Before(m)'
    <3>1. CASE IsDuplicate(n)
      BY <1>0, <1>1, <3>1, MoveOfRequest DEF CheckDuplicate, Answer, Before
    <3>2. CASE ~IsDuplicate(n)
      <4>1. req'[r].msg = n
        BY <1>0, <1>1, <3>2, MoveOfRequest DEF CheckDuplicate, Steps
      <4> QED
        BY <3>2, <4>1 DEF Before, IsDuplicate, EventKey
    <3> QED
      BY <3>1, <3>2
  <2> QED
    BY <2>1, <2>2, <2>3, <2>4, OthersStay DEF Passes
<1>2. CASE LookUpOrder(r)
  <2>1. RowsOf(m)' = RowsOf(m) /\ (IsDuplicate(m)' <=> IsDuplicate(m))
    BY <1>2 DEF LookUpOrder, storeVars, RowsOf, Wrote, IsDuplicate, EventKey
  <2>2. \A q \in Requests : q # r => req'[q] = req[q]
    BY <1>0, <1>2, MoveOfRequest DEF LookUpOrder, Answer, Steps
  <2>3. r \notin After(m) /\ (r \in Before(m)' => r \in Before(m))
    <3>1. CASE Goto(r, "update")
      BY <1>0, <1>2, <3>1, MoveOfRequest DEF LookUpOrder, Steps, Before, After, EventKey
    <3>2. CASE req' = [req EXCEPT ![r] = Idle]
      BY <1>0, <1>2, <3>2, MoveOfRequest DEF LookUpOrder, Before, After
    <3> QED
      BY <1>2, <3>1, <3>2 DEF LookUpOrder, Answer
  <2> QED
    BY <2>1, <2>2, <2>3, OthersStay DEF Passes
<1>3. CASE ApplyUpdate(r)
  <2>1. /\ UpdateOrderStatus(n.order_id, n.status_id, n.ts)
        /\ (IsDuplicate(m)' <=> IsDuplicate(m))
        /\ req[r].pc = "update"
    BY <1>3 DEF ApplyUpdate, UpdateOrderStatus, IsDuplicate, EventKey
  <2>2. \A q \in Requests : q # r => req'[q] = req[q]
    BY <1>0, <1>3, MoveOfRequest DEF ApplyUpdate, Answer, Steps
  <2>3. r \notin Before(m)' /\ r \notin After(m)
    BY <1>0, <1>3, MoveOfRequest DEF ApplyUpdate, Answer, Steps, Before, After
  <2>4. CASE EventKey(n) = EventKey(m) /\ Goto(r, "record")
    <3>1. r \in Before(m) /\ r \in After(m)'
      <4>1. req'[r].pc = "record" /\ req'[r].msg = n
        BY <1>0, <2>4, MoveOfRequest DEF Steps
      <4> QED
        BY <2>1, <2>4, <4>1 DEF Before, After, EventKey
    <3>2. Before(m)' \subseteq Before(m) \ {r} /\ After(m)' = After(m) \cup {r}
      BY <2>2, <2>3, <3>1, OthersStay
    <3>3. UpdateOrderStatus(m.order_id, m.status_id, m.ts)
      BY <2>1, <2>4 DEF EventKey
    <3>4. faults' = faults
      BY <2>4 DEF Goto
    <3> QED
      BY <2>1, <2>3, <3>1, <3>2, <3>3, <3>4, OwnRow DEF Applies
  <2>5. CASE EventKey(n) # EventKey(m)
    <3>1. RowsOf(m)' = RowsOf(m)
      BY <1>0, <2>1, <2>5, OtherRow DEF EventKey
    <3> QED
      BY <2>1, <2>2, <2>3, <3>1, OthersStay DEF Passes
  <2>6. CASE ~Goto(r, "record")
    <3>1. UNCHANGED history
      BY <1>3, <2>6 DEF ApplyUpdate, UpdateOrderStatus
    <3>2. RowsOf(m)' = RowsOf(m)
      BY <3>1 DEF RowsOf, Wrote
    <3> QED
      BY <2>1, <2>2, <2>3, <3>2, OthersStay DEF Passes
  <2> QED
    BY <2>4, <2>5, <2>6
<1>4. CASE RecordEvent(r)
  <2>1. RowsOf(m)' = RowsOf(m) /\ req[r].pc = "record"
    BY <1>4 DEF RecordEvent, InsertEvent, RowsOf, Wrote
  <2>2. \A q \in Requests : q # r => req'[q] = req[q]
    BY <1>0, <1>4, MoveOfRequest DEF RecordEvent, InsertEvent, Answer
  <2>3. r \notin Before(m) /\ r \notin Before(m)'
    BY <1>0, <1>4, MoveOfRequest DEF RecordEvent, InsertEvent, Answer, Before
  <2>4. Before(m)' \subseteq Before(m)
    BY <2>2, <2>3, OthersStay
  <2>5. CASE EventKey(n) # EventKey(m)
    <3>1. IsDuplicate(m)' <=> IsDuplicate(m)
      BY <1>4, <2>5 DEF RecordEvent, InsertEvent, IsDuplicate, EventKey
    <3>2. r \notin After(m)
      BY <2>5 DEF After
    <3> QED
      BY <2>1, <2>2, <2>4, <3>1, <3>2, OthersStay DEF Passes
  <2>6. CASE EventKey(n) = EventKey(m)
    <3>1. CASE IsDuplicate(n)
      BY <1>4, <2>1, <2>4, <2>6, <3>1 DEF RecordEvent, InsertEvent, IsDuplicate,
         EventKey, Passes
    <3>2. CASE ~IsDuplicate(n)
      BY <1>4, <2>1, <2>4, <2>6, <3>2 DEF RecordEvent, InsertEvent, IsDuplicate,
         EventKey, Records
    <3> QED
      BY <3>1, <3>2
  <2> QED
    BY <2>5, <2>6
<1> QED
  BY <1>1, <1>2, <1>3, <1>4 DEF RequestStep

\* Every other step leaves the rows of m and webhook_events alone.
LEMMA NextConcerns ==
  ASSUME Typed, [Next]_vars, NEW m \in Messages, Accepted(m)
  PROVE  Passes(m) \/ Records(m) \/ Applies(m)
<1>1. ASSUME UNCHANGED <<history, events, req>>
      PROVE  Passes(m)
  BY <1>1 DEF Passes, RowsOf, Wrote, IsDuplicate, EventKey, Before, After
<1>2. CASE WebhookNext
  <2>1. CASE \E n \in Messages : TurnAway(n)
    BY <1>1, <2>1 DEF TurnAway, Refuse, Raise, storeVars
  <2>2. ASSUME NEW r \in Requests, NEW n \in Messages, Receive(r, n)
        PROVE  Passes(m)
    <3>1. UNCHANGED <<history, events>> /\ req[r].pc = "idle"
      BY <2>2 DEF Receive, storeVars, Idle
    <3>2. req'[r].pc = "dedup" /\ \A q \in Requests : q # r => req'[q] = req[q]
      BY <2>2 DEF Receive, Typed, TypeOK, ApiTypeOK
    <3>3. r \notin Before(m)' /\ r \notin After(m)
      BY <3>1, <3>2 DEF Before, After
    <3>4. Before(m)' \subseteq Before(m) /\ After(m) \subseteq After(m)'
      BY <3>2, <3>3, OthersStay
    <3> QED
      BY <3>1, <3>4 DEF Passes, RowsOf, Wrote, IsDuplicate, EventKey
  <2>3. ASSUME NEW r \in Requests, FailDb(r)
        PROVE  Passes(m)
    <3>1. UNCHANGED <<history, events>> /\ faults' = faults + 1
      BY <2>3 DEF FailDb, storeVars, Fault
    <3>2. req' = [req EXCEPT ![r] = Idle]
      BY <2>3 DEF FailDb
    <3>3. Before(m)' \subseteq Before(m)
      BY <3>2 DEF Before, EventKey, Idle, Typed, TypeOK, ApiTypeOK
    <3> QED
      BY <3>1, <3>3 DEF Passes, RowsOf, Wrote, IsDuplicate, EventKey
  <2> QED
    BY <1>2, <2>1, <2>2, <2>3, RequestConcerns DEF WebhookNext
<1>3. CASE AdminNext
  <2>1. UNCHANGED <<events, req>>
    BY <1>3 DEF AdminNext, PressNext, TaskStep, NextUpdate, NextSubscribers,
       NextNotify, AdminError, UpdateOrderStatus, storeVars, apiVars
  <2>2. CASE UNCHANGED history
    BY <1>1, <2>1, <2>2
  <2>3. ASSUME NEW b \in AdminTasks, NextUpdate(b)
        PROVE  RowsOf(m)' = RowsOf(m)
    <3>1. tasks[b] \in TaskRow
      BY <2>3, TaskAtWork DEF NextUpdate, Typed
    <3>2. /\ tasks[b].order \in OrderIds
          /\ tasks[b].status \in Statuses
          /\ UpdateOrderStatus(tasks[b].order, tasks[b].status, "admin")
      BY <2>3, <3>1 DEF NextUpdate, TaskRow
    <3>3. <<tasks[b].order, tasks[b].status, "admin">> # EventKey(m)
      BY AcceptedEvent, StoreAssumption DEF EventKey
    <3> QED
      BY <3>2, <3>3, OtherRow
  <2>4. UNCHANGED history \/ \E b \in AdminTasks : NextUpdate(b)
    BY <1>3 DEF AdminNext, TaskStep, PressNext, NextSubscribers, NextNotify,
       AdminError, storeVars
  <2>5. RowsOf(m)' = RowsOf(m) => Passes(m)
    BY <2>1 DEF Passes, IsDuplicate, EventKey, Before, After
  <2> QED
    BY <2>2, <2>3, <2>4, <2>5
<1>4. CASE OrderNext \/ ClientNext \/ UNCHANGED vars
  BY <1>1, <1>4 DEF OrderNext, ConfirmClose, ConfirmOrder, CloseOrder, CreateOrder,
     ClientNext, Subscribe, Unsubscribe, SubscribeOrder, UnsubscribeOrder, apiVars, vars
<1>5. CASE Crash
  <2>1. UNCHANGED <<history, events>> /\ faults' = faults + 1
    BY <1>5 DEF Crash, storeVars, Fault
  <2>2. Before(m)' = {}
    BY <1>5 DEF Crash, Before, Idle
  <2> QED
    BY <2>1, <2>2 DEF Passes, RowsOf, Wrote, IsDuplicate, EventKey
<1> QED
  BY <1>2, <1>3, <1>4, <1>5 DEF Next

\* The requests of one event, counted; the rows of one event, counted.
LEMMA RequestsCounted ==
  ASSUME NEW A \in SUBSET Requests
  PROVE  /\ IsFiniteSet(A)
         /\ Cardinality(A) \in Nat
         /\ Cardinality(A) <= Cardinality(Requests)
         /\ Cardinality(Requests) \in Nat
<1>1. IsFiniteSet(A) /\ Cardinality(A) <= Cardinality(Requests)
  BY RequestAssumption, FS_Subset
<1> QED
  BY <1>1, RequestAssumption, FS_CardinalityType

LEMMA BothCounted ==
  ASSUME NEW A \in SUBSET Requests, NEW B \in SUBSET Requests, A \cap B = {}
  PROVE  Cardinality(A) + Cardinality(B) <= Cardinality(Requests)
<1>1. Cardinality(A \cup B) = Cardinality(A) + Cardinality(B) - Cardinality(A \cap B)
  BY RequestsCounted, FS_Union
<1>2. Cardinality(A \cap B) = 0
  BY FS_EmptySet
<1>3. Cardinality(A \cup B) <= Cardinality(Requests)
  BY RequestsCounted
<1> QED
  BY <1>1, <1>2, <1>3, RequestsCounted

LEMMA RowsCounted ==
  ASSUME Typed, NEW m \in Messages, Accepted(m)
  PROVE  IsFiniteSet(RowsOf(m)) /\ Cardinality(RowsOf(m)) \in Nat
<1>1. Len(history[m.order_id]) \in Nat
  BY AcceptedEvent DEF Typed, TypeOK, StoreTypeOK
<1>2. IsFiniteSet(1 .. Len(history[m.order_id]))
  BY <1>1, FS_Interval
<1>3. RowsOf(m) \in SUBSET (1 .. Len(history[m.order_id]))
  BY DEF RowsOf
<1>4. IsFiniteSet(RowsOf(m))
  BY <1>2, <1>3, FS_Subset
<1> QED
  BY <1>4, FS_CardinalityType

\* The bound's product, when the faults grow by one or not at all.
LEMMA FaultProduct ==
  ASSUME NEW n \in Nat, NEW f \in Nat
  PROVE  n * f \in Nat /\ n * (f + 1) = n * f + n /\ n * (1 + f) = n * f + n
  OBVIOUS

LEMMA RowsDueStep ==
  ASSUME Typed, [Next]_vars, NEW m \in Messages, Accepted(m), RowsDue(m)
  PROVE  RowsDue(m)'
<1> DEFINE n == Cardinality(Requests)
           R == Cardinality(RowsOf(m))
           R2 == Cardinality(RowsOf(m)')
           B == Cardinality(Before(m))
           B2 == Cardinality(Before(m)')
           A == Cardinality(After(m))
           A2 == Cardinality(After(m)')
           P == n * faults
           P2 == n * faults'
<1>1. /\ Before(m) \in SUBSET Requests /\ Before(m)' \in SUBSET Requests
      /\ After(m) \in SUBSET Requests /\ After(m)' \in SUBSET Requests
      /\ Before(m) \cap After(m) = {}
  BY DEF Before, After
<1>2. /\ n \in Nat /\ B \in Nat /\ B2 \in Nat /\ A \in Nat /\ A2 \in Nat
      /\ A <= n /\ A2 <= n /\ B2 <= n
      /\ A + B <= n
  BY <1>1, RequestsCounted, BothCounted
<1>3. /\ faults \in Nat
      /\ faults' \in {faults, faults + 1}
      /\ P \in Nat
      /\ P2 \in Nat
      /\ faults' = faults + 1 => P2 = P + n
      /\ P <= P2
  <2>1. faults \in Nat /\ faults' \in {faults, faults + 1}
    BY FaultsGrow
  <2>2. P \in Nat /\ n * (faults + 1) = P + n
    BY <1>2, <2>1, FaultProduct
  <2>3. CASE faults' = faults
    BY <2>1, <2>2, <2>3
  <2>4. CASE faults' = faults + 1
    <3>1. P2 = P + n
      BY <2>2, <2>4
    <3> HIDE DEF n, P, P2
    <3> QED
      BY <1>2, <2>1, <2>2, <2>4, <3>1
  <2> QED
    BY <2>1, <2>3, <2>4
<1>4. R \in Nat
  BY RowsCounted
<1>5. /\ ~IsDuplicate(m) => R <= P + A
      /\ IsDuplicate(m) => R + B <= P + n
  BY DEF RowsDue
<1>6. Before(m)' \subseteq Before(m) => B2 <= B
  BY <1>1, RequestsCounted, FS_Subset
<1>7. CASE Passes(m)
  <2>1. R2 = R
    BY <1>7 DEF Passes
  <2>2. CASE ~IsDuplicate(m)
    <3>1. A <= A2 \/ faults' = faults + 1
      BY <1>1, <1>7, <2>2, RequestsCounted, FS_Subset DEF Passes
    <3>2. ~IsDuplicate(m)'
      BY <1>7, <2>2 DEF Passes
    <3> HIDE DEF n, R, R2, B, B2, A, A2, P, P2
    <3>3. R2 <= P2 + A2
      BY <1>2, <1>3, <1>4, <1>5, <2>1, <2>2, <3>1
    <3> QED
      BY <3>2, <3>3 DEF RowsDue, n, P2, R2, A2
  <2>3. CASE IsDuplicate(m)
    <3>1. B2 <= B /\ IsDuplicate(m)'
      BY <1>6, <1>7, <2>3 DEF Passes
    <3> HIDE DEF n, R, R2, B, B2, A, A2, P, P2
    <3>2. R2 + B2 <= P2 + n
      BY <1>2, <1>3, <1>4, <1>5, <2>1, <2>3, <3>1
    <3> QED
      BY <3>1, <3>2 DEF RowsDue, n, P2, R2, B2
  <2> QED
    BY <2>2, <2>3
<1>8. CASE Records(m)
  <2>1. R2 = R /\ ~IsDuplicate(m) /\ IsDuplicate(m)' /\ B2 <= B
    BY <1>6, <1>8 DEF Records
  <2> HIDE DEF n, R, R2, B, B2, A, A2, P, P2
  <2>2. R2 + B2 <= P2 + n
    BY <1>2, <1>3, <1>4, <1>5, <2>1
  <2> QED
    BY <2>1, <2>2 DEF RowsDue, n, P2, R2, B2
<1>9. CASE Applies(m)
  <2>1. PICK r \in Before(m) \ After(m) :
          Before(m)' \subseteq Before(m) \ {r} /\ After(m)' = After(m) \cup {r}
    BY <1>9 DEF Applies
  <2>2. PICK i : RowsOf(m)' \subseteq RowsOf(m) \cup {i}
    BY <1>9 DEF Applies
  <2>3. R2 <= R + 1 /\ R2 \in Nat
    <3>1. /\ IsFiniteSet(RowsOf(m) \cup {i})
          /\ Cardinality(RowsOf(m) \cup {i}) <= R + 1
          /\ Cardinality(RowsOf(m) \cup {i}) \in Nat
      <4>1. IsFiniteSet(RowsOf(m))
        BY RowsCounted
      <4>2. /\ IsFiniteSet(RowsOf(m) \cup {i})
            /\ Cardinality(RowsOf(m) \cup {i})
                 = IF i \in RowsOf(m) THEN R ELSE R + 1
        BY <4>1, FS_AddElement
      <4> HIDE DEF R
      <4> QED
        BY <1>4, <4>2
    <3>2. IsFiniteSet(RowsOf(m)') /\ R2 <= Cardinality(RowsOf(m) \cup {i})
      BY <2>2, <3>1, FS_Subset
    <3>3. R2 \in Nat
      BY <3>2, FS_CardinalityType
    <3> HIDE DEF R, R2
    <3> QED
      BY <1>4, <3>1, <3>2, <3>3
  <2>4. A2 = A + 1
    BY <1>1, <2>1, RequestsCounted, FS_AddElement
  <2>5. B2 <= B - 1
    <3>1. /\ IsFiniteSet(Before(m) \ {r})
          /\ Cardinality(Before(m) \ {r}) = B - 1
      BY <1>1, <2>1, RequestsCounted, FS_RemoveElement
    <3> QED
      BY <2>1, <3>1, FS_Subset
  <2>6. faults' = faults /\ (IsDuplicate(m)' <=> IsDuplicate(m))
    BY <1>9 DEF Applies
  <2> HIDE DEF n, R, R2, B, B2, A, A2, P, P2
  <2>7. /\ ~IsDuplicate(m) => R2 <= P2 + A2
        /\ IsDuplicate(m) => R2 + B2 <= P2 + n
    BY <1>2, <1>3, <1>4, <1>5, <2>3, <2>4, <2>5, <2>6
  <2> QED
    BY <2>6, <2>7 DEF RowsDue, n, P2, R2, B2, A2
<1> QED
  BY <1>7, <1>8, <1>9, NextConcerns

\* No interleaving of redeliveries, failed calls and crashes changes an order
\* more often for one event (webhook_api.py:55-72).
THEOREM DuplicatesAreBounded == Spec => []DuplicatesBounded
<1>1. Init => DuplicatesInv
  <2> SUFFICES ASSUME Init, NEW m \in Messages, Accepted(m) PROVE RowsDue(m)
    BY DEF DuplicatesInv
  <2>1. RowsOf(m) = {}
    <3>1. history[m.order_id] = << >>
      BY AcceptedEvent DEF Init, StoreInit
    <3> QED
      BY <3>1 DEF RowsOf, Wrote
  <2>2. ~IsDuplicate(m) /\ faults = 0
    BY DEF Init, StoreInit, IsDuplicate
  <2>3. After(m) \in SUBSET Requests
    BY DEF After
  <2>4. Cardinality(After(m)) \in Nat /\ Cardinality(Requests) \in Nat
    BY <2>3, RequestsCounted
  <2>5. Cardinality(RowsOf(m)) = 0 /\ Cardinality(Requests) * faults = 0
    BY <2>1, <2>2, <2>4, FS_EmptySet
  <2> QED
    BY <2>2, <2>4, <2>5 DEF RowsDue
<1>2. Typed /\ DuplicatesInv /\ [Next]_vars => DuplicatesInv'
  BY RowsDueStep DEF DuplicatesInv, Accepted, Authorized, Checked, WellFormed,
     Storable
<1>3. Typed /\ DuplicatesInv => DuplicatesBounded
  <2> SUFFICES ASSUME Typed, DuplicatesInv, NEW m \in Messages, Accepted(m)
               PROVE  Cardinality(RowsOf(m)) <= Cardinality(Requests) * (1 + faults)
    BY DEF DuplicatesBounded
  <2>1. Before(m) \in SUBSET Requests /\ After(m) \in SUBSET Requests
    BY DEF Before, After
  <2>2. faults \in Nat
    BY StoreAssumption DEF Typed, TypeOK, StoreTypeOK
  <2>3. RowsDue(m)
    BY DEF DuplicatesInv
  <2> QED
    BY <2>1, <2>2, <2>3, RequestsCounted, RowsCounted, FaultProduct DEF RowsDue
<1> QED
  BY <1>1, <1>2, <1>3, TypeCorrect, PTL DEF Spec

=============================================================================
