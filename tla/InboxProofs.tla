----------------------------- MODULE InboxProofs -----------------------------
(***************************************************************************)
(* What the webhook promises to the sender of an event: its requests, under*)
(* any interleaving with the rest of the bot, implement Inbox, and what it *)
(* is told when a request fails.                                           *)
(***************************************************************************)
EXTENDS WebhookProofs

-----------------------------------------------------------------------------
(* The refinement mapping, operator by operator *)

LEMMA SentEvent ==
  ASSUME NEW m \in SentMessages
  PROVE  /\ m \in Messages /\ Accepted(m)
         /\ EventKey(m) \in SentEvents
  BY DEF SentMessages, SentEvents

LEMMA AppliedByRows ==
  ASSUME NEW m
  PROVE  Applied(m) <=> RowsOf(m) # {}
  BY DEF Applied, RowsOf

LEMMA AppliedKept ==
  ASSUME \A m \in SentMessages : Applied(m)' <=> Applied(m)
  PROVE  AppliedEvents' = AppliedEvents
  BY DEF AppliedEvents, SentMessages, EventKey, Accepted, Authorized, Checked,
     WellFormed, Storable

\* An answer that acknowledges nothing, or is lost, and one that does.
LEMMA ReplyAcknowledges ==
  ASSUME Typed, NEW n \in Messages, NEW answer \in Replies,
         replies' = [replies EXCEPT ![n] = @ \cup {answer}] \/ UNCHANGED replies
  PROVE  /\ answer \notin {"ok", "duplicate"} => AckedEvents' = AckedEvents
         /\ Accepted(n) =>
              AckedEvents' \in {AckedEvents, AckedEvents \cup {EventKey(n)}}
<1> USE DEF AckedEvents, SentMessages
<1>1. CASE UNCHANGED replies
  BY <1>1 DEF Accepted, Authorized, Checked, WellFormed, Storable, EventKey
<1>2. CASE replies' = [replies EXCEPT ![n] = @ \cup {answer}]
  <2>0. replies \in [Messages -> SUBSET Replies]
    BY DEF Typed, TypeOK, ApiTypeOK
  <2>1. \A m \in Messages :
          replies'[m] = IF m = n THEN replies[m] \cup {answer} ELSE replies[m]
    BY <1>2, <2>0
  <2>2. ASSUME answer \notin {"ok", "duplicate"}
        PROVE  AckedEvents' = AckedEvents
    <3>1. \A m \in Messages :
            replies'[m] \cap {"ok", "duplicate"} = replies[m] \cap {"ok", "duplicate"}
      BY <2>1, <2>2
    <3> QED
      BY <3>1 DEF Accepted, Authorized, Checked, WellFormed, Storable, EventKey
  <2>3. ASSUME answer \in {"ok", "duplicate"}, Accepted(n)
        PROVE  AckedEvents' = AckedEvents \cup {EventKey(n)}
    <3>1. \A m \in Messages :
            replies'[m] \cap {"ok", "duplicate"} # {}
              <=> m = n \/ replies[m] \cap {"ok", "duplicate"} # {}
      BY <2>1, <2>3
    <3> QED
      BY <2>3, <3>1 DEF Accepted, Authorized, Checked, WellFormed, Storable, EventKey
  <2> QED
    BY <2>2, <2>3
<1> QED
  BY <1>1, <1>2

-----------------------------------------------------------------------------
(* The steps that matter to the sender *)

LEMMA ApplyStep ==
  ASSUME Typed, [Next]_vars, NEW r \in Requests, ApplyUpdate(r)
  PROVE  [Promise!Next]_(Promise!vars)
<1> DEFINE n == req[r].msg
<1>1. n \in Messages /\ Accepted(n) /\ n.order_id \in OrderIds
      /\ n.status_id \in Statuses /\ n.ts \in Stamps
  BY RequestAtWork DEF ApplyUpdate
<1>2. n \in SentMessages /\ EventKey(n) \in SentEvents
  BY <1>1 DEF SentMessages, SentEvents
<1>3. UNCHANGED events
  BY DEF ApplyUpdate, UpdateOrderStatus
<1>4. AckedEvents' = AckedEvents
  <2>1. UNCHANGED replies \/ Reply(n, "conflict")
    BY DEF ApplyUpdate, Goto, Answer
  <2>2. UNCHANGED replies => AckedEvents' = AckedEvents
    BY DEF AckedEvents, SentMessages, Accepted, Authorized, Checked, WellFormed,
       Storable, EventKey
  <2> QED
    BY <1>1, <2>1, <2>2, ReplyAcknowledges DEF Reply, Replies
<1>5. \A m \in SentMessages : Applied(m) => Applied(m)'
  BY AppliedStays, SentEvent
<1>6. \A m \in SentMessages : EventKey(m) # EventKey(n) => (Applied(m)' <=> Applied(m))
  <2> SUFFICES ASSUME NEW m \in SentMessages, EventKey(m) # EventKey(n)
               PROVE  Applied(m)' <=> Applied(m)
    OBVIOUS
  <2>1. /\ UpdateOrderStatus(n.order_id, n.status_id, n.ts)
        /\ <<n.order_id, n.status_id, n.ts>> # EventKey(m)
    BY DEF ApplyUpdate, EventKey
  <2>2. RowsOf(m)' = RowsOf(m)
    BY <1>1, <2>1, OtherRow, SentEvent
  <2> QED
    BY <2>2 DEF Applied, RowsOf
<1>7. AppliedEvents \subseteq AppliedEvents'
      /\ AppliedEvents' \subseteq AppliedEvents \cup {EventKey(n)}
  BY <1>5, <1>6 DEF AppliedEvents, SentMessages, EventKey, Accepted, Authorized,
     Checked, WellFormed, Storable
<1>8. CASE AppliedEvents' = AppliedEvents
  BY <1>3, <1>4, <1>8 DEF Promise!vars
<1>9. CASE AppliedEvents' # AppliedEvents
  <2>1. /\ EventKey(n) \notin AppliedEvents
        /\ AppliedEvents' = AppliedEvents \cup {EventKey(n)}
    BY <1>7, <1>9
  <2>2. Promise!Apply(EventKey(n))
    BY <1>3, <1>4, <2>1 DEF Promise!Apply
  <2> QED
    BY <1>2, <2>2 DEF Promise!Next
<1> QED
  BY <1>8, <1>9

LEMMA RecordStep ==
  ASSUME Typed, WebhookInv, NEW r \in Requests, RecordEvent(r)
  PROVE  [Promise!Next]_(Promise!vars)
<1> DEFINE n == req[r].msg
<1>1. n \in Messages /\ Accepted(n) /\ n \in SentMessages
      /\ EventKey(n) \in SentEvents
  BY RequestAtWork DEF RecordEvent, InsertEvent, SentMessages, SentEvents
<1>2. AppliedEvents' = AppliedEvents
  BY AppliedKept DEF RecordEvent, InsertEvent, Applied, Wrote
<1>3. CASE IsDuplicate(n)
  <2>1. UNCHANGED events /\ Reply(n, "error")
    BY <1>3 DEF RecordEvent, InsertEvent, Answer
  <2>2. AckedEvents' = AckedEvents
    BY <1>1, <2>1, ReplyAcknowledges DEF Reply, Replies
  <2> QED
    BY <1>2, <2>1, <2>2 DEF Promise!vars
<1>4. CASE ~IsDuplicate(n)
  <2>1. /\ EventKey(n) \notin events
        /\ events' = events \cup {EventKey(n)}
        /\ Reply(n, "ok")
    BY <1>4 DEF RecordEvent, InsertEvent, Answer, IsDuplicate
  <2>2. AckedEvents' \in {AckedEvents, AckedEvents \cup {EventKey(n)}}
    BY <1>1, <2>1, ReplyAcknowledges DEF Reply, Replies
  <2>3. EventKey(n) \in AppliedEvents
    BY <1>1 DEF AppliedEvents, WebhookInv, PastUpdateApplied, RecordEvent, InsertEvent
  <2>4. Promise!Record(EventKey(n))
    BY <1>2, <2>1, <2>2, <2>3 DEF Promise!Record
  <2> QED
    BY <1>1, <2>4 DEF Promise!Next
<1> QED
  BY <1>3, <1>4

LEMMA CheckStep ==
  ASSUME Typed, NEW r \in Requests, CheckDuplicate(r)
  PROVE  [Promise!Next]_(Promise!vars)
<1> DEFINE n == req[r].msg
<1>1. n \in Messages /\ Accepted(n) /\ EventKey(n) \in SentEvents
  BY RequestAtWork DEF CheckDuplicate, SentMessages, SentEvents
<1>2. UNCHANGED events /\ AppliedEvents' = AppliedEvents
  BY AppliedKept DEF CheckDuplicate, storeVars, Applied, Wrote
<1>3. CASE IsDuplicate(n)
  <2>1. Reply(n, "duplicate") /\ EventKey(n) \in events
    BY <1>3 DEF CheckDuplicate, Answer, IsDuplicate
  <2>2. AckedEvents' \in {AckedEvents, AckedEvents \cup {EventKey(n)}}
    BY <1>1, <2>1, ReplyAcknowledges DEF Reply, Replies
  <2>3. CASE AckedEvents' = AckedEvents
    BY <1>2, <2>3 DEF Promise!vars
  <2>4. CASE AckedEvents' = AckedEvents \cup {EventKey(n)}
    <3>1. Promise!Acknowledge(EventKey(n))
      BY <1>2, <2>1, <2>4 DEF Promise!Acknowledge
    <3> QED
      BY <1>1, <3>1 DEF Promise!Next
  <2> QED
    BY <2>2, <2>3, <2>4
<1>4. CASE ~IsDuplicate(n)
  <2>1. UNCHANGED replies
    BY <1>4 DEF CheckDuplicate, Goto
  <2>2. AckedEvents' = AckedEvents
    BY <2>1 DEF AckedEvents, SentMessages, Accepted, Authorized, Checked,
       WellFormed, Storable, EventKey
  <2> QED
    BY <1>2, <2>2 DEF Promise!vars
<1> QED
  BY <1>3, <1>4

-----------------------------------------------------------------------------
(* Every other step says nothing to the sender *)

\* A callback writes rows of its own source, never one of an event.
LEMMA AdminAppliesNothing ==
  ASSUME Typed, AdminNext
  PROVE  AppliedEvents' = AppliedEvents
<1>1. CASE UNCHANGED history
  BY <1>1, AppliedKept DEF Applied, Wrote
<1>2. ASSUME NEW a \in AdminTasks, NextUpdate(a)
      PROVE  AppliedEvents' = AppliedEvents
  <2>1. /\ tasks[a].order \in OrderIds
        /\ tasks[a].status \in Statuses
        /\ UpdateOrderStatus(tasks[a].order, tasks[a].status, "admin")
    <3>1. tasks[a] \in TaskRow
      BY <1>2, TaskAtWork DEF NextUpdate, Typed
    <3> QED
      BY <1>2, <3>1 DEF NextUpdate, TaskRow
  <2>2. ASSUME NEW m \in SentMessages
        PROVE  Applied(m)' <=> Applied(m)
    <3>1. m \in Messages /\ Accepted(m)
      BY SentEvent
    <3>2. <<tasks[a].order, tasks[a].status, "admin">> # EventKey(m)
      BY <3>1, AcceptedEvent, StoreAssumption DEF EventKey
    <3>3. RowsOf(m)' = RowsOf(m)
      BY <2>1, <3>1, <3>2, OtherRow
    <3> QED
      BY <3>3 DEF Applied, RowsOf
  <2> QED
    BY <2>2, AppliedKept
<1>3. UNCHANGED history \/ \E a \in AdminTasks : NextUpdate(a)
  BY DEF AdminNext, TaskStep, PressNext, NextSubscribers, NextNotify, AdminError,
     storeVars
<1> QED
  BY <1>1, <1>2, <1>3

\* A refusal, a "not found" and an error acknowledge nothing.
LEMMA RequestSaysNothing ==
  ASSUME Typed, WebhookNext,
         \A r \in Requests : ~ApplyUpdate(r) /\ ~RecordEvent(r) /\ ~CheckDuplicate(r)
  PROVE  UNCHANGED <<history, events>> /\ AckedEvents' = AckedEvents
<1>0. UNCHANGED replies => AckedEvents' = AckedEvents
  BY DEF AckedEvents, SentMessages, Accepted, Authorized, Checked, WellFormed,
     Storable, EventKey
<1>1. ASSUME NEW m \in Messages, TurnAway(m)
      PROVE  UNCHANGED <<history, events>> /\ AckedEvents' = AckedEvents
  BY <1>1, ReplyAcknowledges DEF TurnAway, Refuse, Raise, Reply, Replies, storeVars
<1>2. ASSUME NEW m \in Messages, NEW r \in Requests, Receive(r, m)
      PROVE  UNCHANGED <<history, events>> /\ AckedEvents' = AckedEvents
  BY <1>0, <1>2 DEF Receive, storeVars
<1>3. ASSUME NEW r \in Requests, LookUpOrder(r)
      PROVE  UNCHANGED <<history, events>> /\ AckedEvents' = AckedEvents
  <2>1. req[r].msg \in Messages
    BY <1>3, RequestAtWork DEF LookUpOrder
  <2>2. UNCHANGED replies \/ Reply(req[r].msg, "not found")
    BY <1>3 DEF LookUpOrder, Answer, Goto
  <2> QED
    BY <1>0, <1>3, <2>1, <2>2, ReplyAcknowledges DEF LookUpOrder, Reply, Replies, storeVars
<1>4. ASSUME NEW r \in Requests, FailDb(r)
      PROVE  UNCHANGED <<history, events>> /\ AckedEvents' = AckedEvents
  <2>1. req[r].msg \in Messages
    BY <1>4, RequestAtWork DEF FailDb, Idle, Typed, TypeOK, ApiTypeOK
  <2>2. replies' = [replies EXCEPT ![req[r].msg] = @ \cup {"error"}]
    BY <1>4 DEF FailDb
  <2> QED
    BY <1>4, <2>1, <2>2, ReplyAcknowledges DEF FailDb, Replies, storeVars
<1> QED
  BY <1>1, <1>2, <1>3, <1>4 DEF WebhookNext, RequestStep

LEMMA NextInbox ==
  ASSUME Typed, WebhookInv, [Next]_vars
  PROVE  [Promise!Next]_(Promise!vars)
<1>1. CASE \E r \in Requests : ApplyUpdate(r) \/ RecordEvent(r) \/ CheckDuplicate(r)
  BY <1>1, ApplyStep, RecordStep, CheckStep
<1>2. CASE ~\E r \in Requests : ApplyUpdate(r) \/ RecordEvent(r) \/ CheckDuplicate(r)
  <2>1. UNCHANGED history => AppliedEvents' = AppliedEvents
    BY AppliedKept DEF Applied, Wrote
  <2>2. UNCHANGED replies => AckedEvents' = AckedEvents
    BY DEF AckedEvents, SentMessages, Accepted, Authorized, Checked, WellFormed,
       Storable, EventKey
  <2>3. CASE WebhookNext
    BY <1>2, <2>1, <2>3, RequestSaysNothing DEF Promise!vars
  <2>4. CASE AdminNext
    <3>1. UNCHANGED <<events, replies>>
      BY <2>4 DEF AdminNext, PressNext, TaskStep, NextUpdate, NextSubscribers,
         NextNotify, AdminError, UpdateOrderStatus, storeVars, apiVars
    <3> QED
      BY <2>2, <2>4, <3>1, AdminAppliesNothing DEF Promise!vars
  <2>5. CASE OrderNext \/ ClientNext \/ Crash \/ UNCHANGED vars
    <3>1. UNCHANGED <<history, events, replies>>
      BY <2>5 DEF OrderNext, ConfirmClose, ConfirmOrder, CloseOrder, CreateOrder,
         ClientNext, Subscribe, Unsubscribe, SubscribeOrder, UnsubscribeOrder, Crash,
         storeVars, apiVars, vars
    <3> QED
      BY <2>1, <2>2, <3>1 DEF Promise!vars
  <2> QED
    BY <2>3, <2>4, <2>5 DEF Next
<1> QED
  BY <1>1, <1>2

LEMMA InitInbox == Init => Promise!Init
<1> SUFFICES ASSUME Init PROVE Promise!Init
  OBVIOUS
<1>1. \A m \in SentMessages : ~Applied(m)
  <2>1. \A m \in SentMessages : history[m.order_id] = << >>
    BY AcceptedEvent, SentEvent DEF Init, StoreInit
  <2> QED
    BY <2>1 DEF Applied
<1> QED
  BY <1>1 DEF Promise!Init, AppliedEvents, AckedEvents, SentMessages, Init, StoreInit,
     ApiInit

\* The requests of the webhook, overlapping, failing and dying as they may,
\* keep Inbox's promise: applied before recorded, acknowledged with the
\* record or after it, and nothing undone (webhook_api.py:55-74).
THEOREM ImplementsTheInbox == Spec => ImplementsInbox
<1>1. Init => Promise!Init /\ WebhookInv
  BY InitInbox, InitWebhook
<1>2. Typed /\ WebhookInv /\ [Next]_vars => WebhookInv'
  BY PastUpdateStep, RecordedStep, AckedStep DEF WebhookInv
<1>3. Typed /\ WebhookInv /\ [Next]_vars => [Promise!Next]_(Promise!vars)
  BY NextInbox
<1> QED
  BY <1>1, <1>2, <1>3, TypeCorrect, PTL DEF Spec, ImplementsInbox, Promise!Spec

-----------------------------------------------------------------------------
(* What a 500 stands for *)

\* Without a fault, only the UNIQUE of webhook_events makes an error of an
\* event that does not raise by itself.
LEMMA NewError ==
  ASSUME Typed, [Next]_vars, NEW m \in Messages, faults' = 0, ~Raises(m),
         "error" \notin replies[m], "error" \in replies'[m]
  PROVE  \E r \in Requests :
           RecordEvent(r) /\ req[r].msg = m /\ IsDuplicate(m)
<1>0. replies \in [Messages -> SUBSET Replies] /\ faults \in Nat
  BY StoreAssumption DEF Typed, TypeOK, StoreTypeOK, ApiTypeOK
<1>1. WebhookNext
  BY DEF Next, AdminNext, OrderNext, ClientNext, Subscribe, Unsubscribe, Crash,
     apiVars, vars
<1>2. ~Fault
  BY <1>0 DEF Fault
<1>3. ~(\E n \in Messages : TurnAway(n)) /\ ~(\E r \in Requests : FailDb(r))
  <2>1. ASSUME NEW n \in Messages, Refuse(n) PROVE FALSE
    BY <1>0, <1>2, <2>1 DEF Refuse, Reply
  <2>2. ASSUME NEW n \in Messages, Raise(n) PROVE FALSE
    <3>1. n # m
      BY <2>2 DEF Raise
    <3> QED
      BY <1>0, <1>2, <2>2, <3>1 DEF Raise, Reply
  <2>3. ~(\E r \in Requests : FailDb(r))
    BY <1>2 DEF FailDb
  <2> QED
    BY <2>1, <2>2, <2>3 DEF TurnAway
<1>4. ~(\E r \in Requests, n \in Messages : Receive(r, n))
  BY DEF Receive
<1>5. PICK r \in Requests : RequestStep(r)
  BY <1>1, <1>3, <1>4 DEF WebhookNext
<1>6. \A step : ~Goto(r, step)
  BY DEF Goto
<1>7. \A answer \in Replies : Answer(r, answer) => answer = "error" /\ req[r].msg = m
  BY <1>0 DEF Answer, Reply
<1>8. ~Answer(r, "not found") /\ ~Answer(r, "duplicate") /\ ~Answer(r, "ok")
      /\ ~Answer(r, "conflict")
  BY <1>7 DEF Replies
<1>9. RecordEvent(r)
  BY <1>5, <1>6, <1>8 DEF RequestStep, CheckDuplicate, LookUpOrder, ApplyUpdate
<1>10. Answer(r, "error") /\ IsDuplicate(req[r].msg)
  BY <1>8, <1>9 DEF RecordEvent, InsertEvent
<1> QED
  BY <1>7, <1>9, <1>10 DEF Replies

\* webhook_events has no DELETE.
LEMMA EventsGrow ==
  ASSUME [Next]_vars
  PROVE  events \subseteq events'
<1>1. CASE events' = events
  BY <1>1
<1>2. CASE events' # events
  BY <1>2, UpdateEvents DEF RecordEvent, InsertEvent
<1> QED
  BY <1>1, <1>2

LEMMA ErrorStep ==
  ASSUME Typed, ErrorMeansFaultOrRecorded, [Next]_vars
  PROVE  ErrorMeansFaultOrRecorded'
<1> SUFFICES ASSUME NEW m \in Messages, "error" \in replies'[m], ~(faults' > 0),
                    ~Raises(m)
             PROVE  IsDuplicate(m)'
  BY DEF ErrorMeansFaultOrRecorded, Raises, Checked, Authorized, WellFormed, Storable
<1>1. faults' = 0 /\ ~(faults > 0)
  BY FaultsGrow
<1>2. IsDuplicate(m)
  BY <1>1, NewError DEF ErrorMeansFaultOrRecorded
<1> QED
  BY <1>2, EventsGrow DEF IsDuplicate, EventKey

\* A 500 without a fault is either a delivery that lost the race to record its
\* event, which is recorded then, so that sending it again is harmless
\* (webhook_api.py:55, :72); or one of an event that raises each time it comes.
THEOREM ErrorsAreExplained == Spec => []ErrorMeansFaultOrRecorded
<1>1. Init => ErrorMeansFaultOrRecorded
  BY DEF Init, ApiInit, ErrorMeansFaultOrRecorded
<1>2. Typed /\ ErrorMeansFaultOrRecorded /\ [Next]_vars => ErrorMeansFaultOrRecorded'
  BY ErrorStep
<1> QED
  BY <1>1, <1>2, TypeCorrect, PTL DEF Spec

-----------------------------------------------------------------------------
(* What it takes to apply an event twice *)

\* No two requests of one event are at work.
OneDeliveryAtATime ==
  \A q, r \in Requests :
    /\ req[q] # Idle
    /\ req[r] # Idle
    /\ EventKey(req[q].msg) = EventKey(req[r].msg)
    => q = r

Faultless == faults = 0

\* The one row of m is due to a request that has yet to record it; once m is
\* recorded, no request is left that would write another.
OnceInv ==
  \A m \in Messages :
    Accepted(m) =>
      /\ \E i : RowsOf(m) \subseteq {i}
      /\ ~IsDuplicate(m) /\ RowsOf(m) # {} => After(m) # {}
      /\ IsDuplicate(m) => Before(m) = {}

LEMMA OnceStep ==
  ASSUME Typed, OnceInv, OneDeliveryAtATime, Faultless, Faultless', [Next]_vars
  PROVE  OnceInv'
<1> SUFFICES ASSUME NEW m \in Messages, Accepted(m)
             PROVE  /\ \E i : RowsOf(m)' \subseteq {i}
                    /\ ~IsDuplicate(m)' /\ RowsOf(m)' # {} => After(m)' # {}
                    /\ IsDuplicate(m)' => Before(m)' = {}
  BY DEF OnceInv, Accepted, Authorized, Checked, WellFormed, Storable
<1>1. /\ \E i : RowsOf(m) \subseteq {i}
      /\ ~IsDuplicate(m) /\ RowsOf(m) # {} => After(m) # {}
      /\ IsDuplicate(m) => Before(m) = {}
  BY DEF OnceInv
<1>2. ~(Before(m) # {} /\ After(m) # {})
  BY DEF Before, After, OneDeliveryAtATime, Idle
<1>3. CASE Passes(m)
  BY <1>1, <1>3 DEF Passes, Faultless
<1>4. CASE Records(m)
  <2>1. EventKey(m) \in events' /\ EventKey(m) \notin events
    BY <1>4 DEF Records, IsDuplicate, EventKey
  <2>2. PICK r \in Requests : RecordEvent(r)
    BY <2>1, UpdateEvents
  <2>3. r \in After(m)
    BY <2>1, <2>2 DEF RecordEvent, InsertEvent, After
  <2> QED
    BY <1>1, <1>2, <1>4, <2>3 DEF Records
<1>5. CASE Applies(m)
  <2>1. PICK r \in Before(m) \ After(m) : After(m)' = After(m) \cup {r}
    BY <1>5 DEF Applies
  <2>2. RowsOf(m) = {} /\ ~IsDuplicate(m)
    BY <1>1, <1>2, <2>1
  <2> QED
    BY <1>5, <2>1, <2>2 DEF Applies
<1> QED
  BY <1>3, <1>4, <1>5, NextConcerns

\* Deliveries of an event that neither overlap nor fail apply it once, as
\* tests/test_webhook_api.py:81 has it, however many requests are at work on
\* other events.  The run duplicate_race overlaps two; a fault between the
\* update and the record is the only other way (webhook_api.py:62-72).
THEOREM OneAtATimeAppliesOnce ==
  Spec /\ []OneDeliveryAtATime /\ []Faultless => []AppliedAtMostOnce
<1>1. Init => OnceInv
  <2> SUFFICES ASSUME Init, NEW m \in Messages, Accepted(m)
               PROVE  RowsOf(m) = {} /\ ~IsDuplicate(m)
    BY DEF OnceInv
  <2>1. history[m.order_id] = << >> /\ events = {}
    BY AcceptedEvent DEF Init, StoreInit
  <2> QED
    BY <2>1 DEF RowsOf, IsDuplicate
<1>2. Typed /\ OnceInv /\ OneDeliveryAtATime /\ Faultless /\ Faultless'
        /\ [Next]_vars => OnceInv'
  BY OnceStep
<1>3. OnceInv => AppliedAtMostOnce
  <2> SUFFICES ASSUME NEW m \in Messages, NEW i, RowsOf(m) \subseteq {i}
               PROVE  Cardinality(RowsOf(m)) <= 1
    BY DEF OnceInv, AppliedAtMostOnce
  <2>1. CASE RowsOf(m) = {}
    <3>1. Cardinality(RowsOf(m)) = 0
      BY <2>1, FS_EmptySet
    <3> QED
      BY <3>1
  <2>2. CASE RowsOf(m) = {i}
    <3>1. Cardinality(RowsOf(m)) = 1
      BY <2>2, FS_Singleton
    <3> QED
      BY <3>1
  <2> QED
    BY <2>1, <2>2
<1> QED
  BY <1>1, <1>2, <1>3, TypeCorrect, PTL DEF Spec

=============================================================================
