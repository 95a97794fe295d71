------------------------------ MODULE Delivery ------------------------------
(***************************************************************************)
(* The bot as one process: the webhook's requests, the admins' callbacks   *)
(* and the clients' subscriptions interleave over the tables, and the      *)
(* process may crash between any two database calls and start again.       *)
(***************************************************************************)
EXTENDS WebhookApi, AdminPanel

vars == <<orders, history, subs, events, faults,
          req, replies, statusUpdates, tasks, notified>>

TypeOK == StoreTypeOK /\ ApiTypeOK /\ AdminTypeOK

Init == StoreInit /\ ApiInit /\ AdminInit

-----------------------------------------------------------------------------
(* Clients: the keyboard of an order's card names an order of the table *)

Subscribe(o, u) ==
  /\ Exists(o)
  /\ SubscribeOrder(o, u)
  /\ UNCHANGED <<faults, apiVars, adminVars>>

Unsubscribe(o, u) ==
  /\ Exists(o)
  /\ UnsubscribeOrder(o, u)
  /\ UNCHANGED <<faults, apiVars, adminVars>>

-----------------------------------------------------------------------------
(* Crash and restart: the tables survive, coroutines and metrics do not. *)
(* The sender of a request that vanishes gets no answer; the update of a *)
(* callback was acknowledged when it arrived and does not come again.    *)

Crash ==
  /\ Fault
  /\ req' = [r \in Requests |-> Idle]
  /\ tasks' = [a \in AdminTasks |-> IdleTask]
  /\ statusUpdates' = 0
  /\ UNCHANGED <<storeVars, replies, notified>>

-----------------------------------------------------------------------------

WebhookNext ==
  /\ \/ \E m \in Messages : TurnAway(m) \/ \E r \in Requests : Receive(r, m)
     \/ \E r \in Requests : RequestStep(r) \/ FailDb(r)
  /\ UNCHANGED adminVars

AdminNext ==
  /\ \E a \in AdminTasks :
       \/ \E o \in OrderIds : PressNext(a, o)
       \/ TaskStep(a)
       \/ AdminError(a)
  /\ UNCHANGED apiVars

OrderNext ==
  /\ \E o \in OrderIds :
       ConfirmClose(o) \/ \E s \in Statuses : ConfirmOrder(o, s)
  /\ UNCHANGED apiVars

ClientNext ==
  \E o \in OrderIds, u \in Users : Subscribe(o, u) \/ Unsubscribe(o, u)

Next == WebhookNext \/ AdminNext \/ OrderNext \/ ClientNext \/ Crash

Spec == Init /\ [][Next]_vars

\* An attempt of the sender at an event that is not settled.  One at an event
\* that raises ends as the one before it: nothing is assumed of those.
Redeliver(m) ==
  /\ ~Settled(m)
  /\ Refuse(m) \/ \E r \in Requests : Receive(r, m)
  /\ UNCHANGED adminVars

(***************************************************************************)
(* The event loop runs every coroutine that can run, and a send either     *)
(* arrives or raises; the sender tries an event again until it gets an     *)
(* answer other than an error.  Nothing is assumed of admins and clients.  *)
(***************************************************************************)
Fairness ==
  /\ \A r \in Requests : WF_vars(RequestStep(r) /\ UNCHANGED adminVars)
  /\ \A a \in AdminTasks : WF_vars(TaskStep(a) /\ UNCHANGED apiVars)
  /\ \A m \in Messages : SF_vars(Redeliver(m))

LiveSpec == Spec /\ Fairness

-----------------------------------------------------------------------------
(* Safety *)

\* The event m wrote row i of its order's history.
Wrote(m, i) ==
  /\ history[m.order_id][i].status_id = m.status_id
  /\ history[m.order_id][i].source = m.ts

RowsOf(m) == {i \in 1 .. Len(history[m.order_id]) : Wrote(m, i)}

Applied(m) == \E i \in 1 .. Len(history[m.order_id]) : Wrote(m, i)

(***************************************************************************)
(* A row of webhook_events makes every later delivery of the event a no-op *)
(* (webhook_api.py:55), so it must never exist before the change it stands *)
(* for: an event that is recorded and not applied is lost for good.        *)
(***************************************************************************)
RecordedMeansApplied ==
  \A m \in Messages : Accepted(m) /\ IsDuplicate(m) => Applied(m)

(***************************************************************************)
(* The sender stops at "ok" and at "duplicate_ignored" (webhook_api.py:56, *)
(* :74): after either, the change is in the order's history, through any   *)
(* interleaving of deliveries, crash or failed call.                       *)
(***************************************************************************)
AckMeansApplied ==
  \A m \in Messages : replies[m] \cap {"ok", "duplicate"} # {} => Applied(m)

(***************************************************************************)
(* A delivery that meets another of its event may fail at UNIQUE, which is *)
(* answered 500 (webhook_api.py:72): the event is recorded by then, and    *)
(* sending it again is answered "duplicate_ignored" and changes nothing.   *)
(* Without a fault of the environment the only other events answered 500   *)
(* are those that can never be delivered: an order_id that is infinite     *)
(* (:42), or values that SQLite cannot hold (:55).                         *)
(***************************************************************************)
ErrorMeansFaultOrRecorded ==
  \A m \in Messages :
    "error" \in replies[m] => faults > 0 \/ IsDuplicate(m) \/ Raises(m)

(***************************************************************************)
(* 409 (webhook_api.py:69) is told to the sender as a refusal for ever: it *)
(* is so because a closed order stays closed.                              *)
(***************************************************************************)
ConflictMeansClosed ==
  \A m \in Messages :
    "conflict" \in replies[m] =>
      Exists(m.order_id) /\ orders[m.order_id].is_active = 0

(***************************************************************************)
(* How often one event can change an order (webhook_api.py:55-72): once    *)
(* per request that passed the duplicate check before the event was        *)
(* recorded, and again for requests that died between the two.             *)
(***************************************************************************)
DuplicatesBounded ==
  \A m \in Messages :
    Accepted(m) =>
      Cardinality(RowsOf(m)) <= Cardinality(Requests) * (1 + faults)

\* The metric counts events, so it never exceeds the rows of webhook_events
\* (webhook_api.py:72-73): the insert raises for an event that is there, and
\* nothing is counted then.
MetricNeverOverstates == statusUpdates <= Cardinality(events)

\* The statuses o has held before its i-th change.
HeldBefore(o, i) == {history[o][j].prev : j \in 1 .. i}

(***************************************************************************)
(* An admin's "next" reads the status, then writes its successor           *)
(* (admin/handlers.py:175-184).  The status read may be stale by then;     *)
(* still, the status written follows one the order was in.                 *)
(***************************************************************************)
AdminMovesFollowAnEdge ==
  \A o \in OrderIds : \A i \in 1 .. Len(history[o]) :
    history[o][i].source = "admin" =>
      \E s \in HeldBefore(o, i) :
        <<s, history[o][i].status_id>> \in Transitions

Changed(o, s) == \E i \in 1 .. Len(history[o]) : history[o][i].status_id = s

(***************************************************************************)
(* A subscriber is told a status (admin/handlers.py:185-191) only after    *)
(* the order was moved to it, or when the order was closed before the      *)
(* update: the update comes first, and its failure ends the callback.      *)
(***************************************************************************)
ToldAfterTheChange ==
  \A u \in Users, o \in OrderIds, s \in Statuses :
    <<u, o, s>> \in notified =>
      Changed(o, s) \/ (Exists(o) /\ orders[o].is_active = 0)

(***************************************************************************)
(* README.md:35: a customer subscribes to one order and receives its       *)
(* status changes.  What a subscriber is told is a change that happened.   *)
(***************************************************************************)
ToldOnlyChanges ==
  \A u \in Users, o \in OrderIds, s \in Statuses :
    <<u, o, s>> \in notified => Changed(o, s)

(***************************************************************************)
(* tests/test_webhook_api.py:81, test_webhook_idempotent_on_same_timestamp:*)
(* an event delivered twice changes the order once.                        *)
(***************************************************************************)
AppliedAtMostOnce ==
  \A m \in Messages : Accepted(m) => Cardinality(RowsOf(m)) <= 1

-----------------------------------------------------------------------------
(* Refinement *)

Phase(o) ==
  IF ~Exists(o) THEN "absent"
  ELSE IF orders[o].is_active = 1 THEN "open" ELSE "closed"

Status(o) == IF Exists(o) THEN orders[o].status_id ELSE "none"

Trail(o) == [i \in 1 .. Len(history[o]) |-> history[o][i].status_id]

Ledger == INSTANCE OrderLedger WITH
  Orders <- OrderIds,
  phase  <- [o \in OrderIds |-> Phase(o)],
  status <- [o \in OrderIds |-> Status(o)],
  trail  <- [o \in OrderIds |-> Trail(o)]

(***************************************************************************)
(* The tables under all their writers implement the ledger: no interleaved *)
(* request, callback or crash moves a closed order, reopens one, or        *)
(* changes a status without its history row.                               *)
(***************************************************************************)
ImplementsLedger == Ledger!Spec

\* The external system's events, by the columns under UNIQUE.
SentMessages == {m \in Messages : Accepted(m)}

SentEvents == {EventKey(m) : m \in SentMessages}

AppliedEvents == {EventKey(m) : m \in {n \in SentMessages : Applied(n)}}

AckedEvents ==
  {EventKey(m) : m \in {n \in SentMessages :
                          replies[n] \cap {"ok", "duplicate"} # {}}}

Promise == INSTANCE Inbox WITH
  Events   <- SentEvents,
  applied  <- AppliedEvents,
  recorded <- events,
  acked    <- AckedEvents

(***************************************************************************)
(* The webhook keeps its promise to the sender (webhook_api.py:55-74): an  *)
(* event is applied before it is recorded, neither is ever undone, and     *)
(* "ok" or "duplicate_ignored" comes with the record or after it, however  *)
(* its deliveries overlap, fail or die.                                    *)
(***************************************************************************)
ImplementsInbox == Promise!Spec

-----------------------------------------------------------------------------
(* Liveness *)

(***************************************************************************)
(* README.md:36: an event of the external system comes to an answer that   *)
(* ends its redelivery, whatever fails on the way - every event but those  *)
(* that raise by themselves (webhook_api.py:42, :55), which are answered   *)
(* 500 however often they are sent.  In particular an event that arrives   *)
(* beside one of those, or whose retries overlap it, is not held up by it. *)
(***************************************************************************)
EveryEventSettles == \A m \in {n \in Messages : ~Raises(n)} : <>Settled(m)

\* u subscribes to o, which a callback or a request has just moved to s.
AdminMoved(u, o, s) ==
  /\ u \in subs[o]
  /\ \E a \in AdminTasks :
       /\ tasks[a].pc = "subscribers"
       /\ tasks[a].order = o
       /\ tasks[a].status = s

WebhookMoved(u, o, s) ==
  /\ u \in subs[o]
  /\ \E r \in Requests :
       /\ req[r].pc = "record"
       /\ req[r].msg.order_id = o
       /\ req[r].msg.status_id = s

\* A failed send or a crash loses the message, and nothing sends it again.
Told(u, o, s) == <<u, o, s>> \in notified \/ u \notin subs[o] \/ faults > 0

\* A subscriber of an order is told each status an admin moves it to
\* (admin/handlers.py:185-193), unless the user leaves first.
AdminMovesAreTold ==
  \A u \in Users, o \in OrderIds, s \in Statuses :
    AdminMoved(u, o, s) ~> Told(u, o, s)

\* README.md:35: a subscriber receives the status changes of the order,
\* those of the external system included.
ChangesAreTold ==
  \A u \in Users, o \in OrderIds, s \in Statuses :
    AdminMoved(u, o, s) \/ WebhookMoved(u, o, s) ~> Told(u, o, s)

=============================================================================
