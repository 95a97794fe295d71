----------------------------- MODULE WebhookApi -----------------------------
(***************************************************************************)
(* POST /webhook/status (src/delivery/webhook_api.py).  Each request is a  *)
(* coroutine of the bot's event loop: between two awaits on the database   *)
(* it runs alone, at each of them any other coroutine may run.  The steps  *)
(* of one request are therefore its database calls:                        *)
(*                                                                         *)
(*   dedup -> lookup -> update -> record                                   *)
(*                                                                         *)
(* The external system delivers an event at least once: it may send it     *)
(* again at any time, while an earlier delivery is still running too.      *)
(***************************************************************************)
EXTENDS OrderStore, FiniteSets

CONSTANTS
  Requests,       \* requests the server can be working on at once
  Messages,       \* events it sends: [secret, order_id, status_id, ts]
  NoMessage,      \* "no event"
  Malformed,      \* an order_id that int() refuses with one of the caught errors
  Infinite,       \* an order_id that int() refuses with OverflowError
  Unstorable,     \* a value that SQLite's driver refuses: an order_id beyond 64
                  \* bits, a source_timestamp that is not valid Unicode
  WebhookSecret   \* config.webhook_secret, "" when it is not set

\* A status name that get_statuses does not return is a status_id outside
\* Statuses; the ts "" is a source_timestamp that is missing or empty.
ASSUME MessageAssumption ==
  /\ \A m \in Messages :
       /\ m.order_id \in OrderIds \cup {Malformed, Infinite, Unstorable}
       /\ m.ts \in Stamps \cup {"", Unstorable}
  /\ NoMessage \notin Messages
  /\ {Malformed, Infinite, Unstorable} \cap OrderIds = {}
  /\ {"", Unstorable} \cap Stamps = {}

ASSUME RequestAssumption == IsFiniteSet(Requests)

VARIABLES
  req,            \* r -> what the coroutine does next, and the event it handles
  replies,        \* m -> answers its sender has received so far
  statusUpdates   \* metrics.status_updates of this process

apiVars == <<req, replies, statusUpdates>>

Idle == [pc |-> "idle", msg |-> NoMessage]

Steps == {"dedup", "lookup", "update", "record"}

\* 200 in its two forms, 400 or 401, 404, 409 and 500.
Replies == {"ok", "duplicate", "refused", "not found", "conflict", "error"}

ApiTypeOK ==
  /\ req \in [Requests -> [pc : Steps, msg : Messages] \cup {Idle}]
  /\ replies \in [Messages -> SUBSET Replies]
  /\ statusUpdates \in Nat

ApiInit ==
  /\ req = [r \in Requests |-> Idle]
  /\ replies = [m \in Messages |-> {}]
  /\ statusUpdates = 0

-----------------------------------------------------------------------------
(* Guards *)

Authorized(m) == WebhookSecret # "" /\ m.secret = WebhookSecret

WellFormed(m) == m.order_id \notin {Malformed, Infinite} /\ m.ts # ""

\* An event that the handler asks the database about.
Checked(m) == Authorized(m) /\ WellFormed(m) /\ m.status_id \in Statuses

Storable(m) == m.order_id # Unstorable /\ m.ts # Unstorable

Accepted(m) == Checked(m) /\ Storable(m)

\* An event that raises whenever it is delivered: in int(), which the except
\* clause does not catch, or when _is_duplicate binds its values.
Raises(m) ==
  \/ Authorized(m) /\ m.order_id = Infinite
  \/ Checked(m) /\ ~Storable(m)

\* The columns of webhook_events under UNIQUE.
EventKey(m) == <<m.order_id, m.status_id, m.ts>>

\* Mutant: the query asks for the order alone.
DuplicateOfOrder(m) ==
  \E s \in Statuses, t \in Stamps : <<m.order_id, s, t>> \in events

\* _is_duplicate
IsDuplicate(m) == EventKey(m) \in events

-----------------------------------------------------------------------------
(* Steps of a request *)

\* The sender receives the answer, or the connection has failed by then.
Reply(m, answer) ==
  \/ replies' = [replies EXCEPT ![m] = @ \cup {answer}] /\ UNCHANGED faults
  \/ Fault /\ UNCHANGED replies

Answer(r, answer) ==
  /\ req' = [req EXCEPT ![r] = Idle]
  /\ Reply(req[r].msg, answer)

Goto(r, step) ==
  /\ req' = [req EXCEPT ![r].pc = step]
  /\ UNCHANGED <<replies, faults>>

\* The secret, the payload and the status name read no table that changes,
\* so a request that is refused for one of them comes and goes in one step.
Refuse(m) ==
  /\ ~Accepted(m)
  /\ ~Raises(m)
  /\ Reply(m, "refused")
  /\ UNCHANGED <<storeVars, req, statusUpdates>>

\* Nothing is written by then: aiohttp answers 500, each time.
Raise(m) ==
  /\ Raises(m)
  /\ Reply(m, "error")
  /\ UNCHANGED <<storeVars, req, statusUpdates>>

\* A delivery that is over before it is at work on the tables.
TurnAway(m) == Refuse(m) \/ Raise(m)

Receive(r, m) ==
  /\ req[r] = Idle
  /\ Accepted(m)
  /\ req' = [req EXCEPT ![r] = [pc |-> "dedup", msg |-> m]]
  /\ UNCHANGED <<storeVars, faults, replies, statusUpdates>>

\* Mutant: _is_duplicate is not asked.
SkipsCheck(r) ==
  /\ req[r].pc = "dedup"
  /\ Goto(r, "lookup")
  /\ UNCHANGED <<storeVars, statusUpdates>>

CheckDuplicate(r) ==
  /\ req[r].pc = "dedup"
  /\ IF IsDuplicate(req[r].msg) THEN Answer(r, "duplicate")
                                ELSE Goto(r, "lookup")
  /\ UNCHANGED <<storeVars, statusUpdates>>

\* Mutant: a missing order is used as if it were there, and that raises.
RaisesOnMissing(r) ==
  /\ req[r].pc = "lookup"
  /\ IF Exists(req[r].msg.order_id) THEN Goto(r, "update")
                                    ELSE Answer(r, "error")
  /\ UNCHANGED <<storeVars, statusUpdates>>

\* Mutant: the order is not looked up, update_order_status says it all.
SkipsLookUp(r) ==
  /\ req[r].pc = "lookup"
  /\ Goto(r, "update")
  /\ UNCHANGED <<storeVars, statusUpdates>>

LookUpOrder(r) ==
  /\ req[r].pc = "lookup"
  /\ IF Exists(req[r].msg.order_id) THEN Goto(r, "update")
                                    ELSE Answer(r, "not found")
  /\ UNCHANGED <<storeVars, statusUpdates>>

\* Mutant: the result of update_order_status is not looked at.
RecordsWhateverUpdateSays(r) ==
  LET m == req[r].msg
  IN  /\ req[r].pc = "update"
      /\ UpdateOrderStatus(m.order_id, m.status_id, m.ts)
      /\ Goto(r, "record")
      /\ UNCHANGED statusUpdates

\* 409 "invalid transition" when no open order has this id.
ApplyUpdate(r) ==
  LET m == req[r].msg
  IN  /\ req[r].pc = "update"
      /\ UpdateOrderStatus(m.order_id, m.status_id, m.ts)
      /\ IF Matches(m.order_id) THEN Goto(r, "record")
                                ELSE Answer(r, "conflict")
      /\ UNCHANGED statusUpdates

\* Mutant: INSERT OR IGNORE, so that a second insert counts as an update.
InsertsOrIgnores(r) ==
  /\ req[r].pc = "record"
  /\ events' = events \cup {EventKey(req[r].msg)}
  /\ statusUpdates' = statusUpdates + 1
  /\ Answer(r, "ok")
  /\ UNCHANGED <<orders, history, subs>>

\* _record_event, when UNIQUE lets the key in.
InsertEvent(m) ==
  /\ ~IsDuplicate(m)
  /\ events' = events \cup {EventKey(m)}

\* The insert, the metric and the answer: nothing is awaited after the insert.
\* A second insert of the same key breaks the UNIQUE constraint: the exception
\* leaves the handler and aiohttp answers 500.
RecordEvent(r) ==
  /\ req[r].pc = "record"
  /\ \/ /\ InsertEvent(req[r].msg)
        /\ statusUpdates' = statusUpdates + 1
        /\ Answer(r, "ok")
     \/ /\ IsDuplicate(req[r].msg)
        /\ UNCHANGED <<events, statusUpdates>>
        /\ Answer(r, "error")
  /\ UNCHANGED <<orders, history, subs>>

\* A database call raises (a locked database, a full disk): 500, and the
\* transactions committed by the earlier steps stay.
FailDb(r) ==
  /\ req[r] # Idle
  /\ Fault
  /\ req' = [req EXCEPT ![r] = Idle]
  /\ replies' = [replies EXCEPT ![req[r].msg] = @ \cup {"error"}]
  /\ UNCHANGED <<storeVars, statusUpdates>>

\* What the event loop owes a request it has accepted.
RequestStep(r) ==
  CheckDuplicate(r) \/ LookUpOrder(r) \/ ApplyUpdate(r) \/ RecordEvent(r)

\* An answer after which the sender has no reason to send the event again.
Settled(m) == replies[m] \ {"error"} # {}

=============================================================================
