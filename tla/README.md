# A TLA+ model of botkit-delivery

botkit-delivery is a Telegram bot that tracks delivery orders. Admins create
orders and move them along a chain of statuses, clients look an order up and
subscribe to it, and an external system pushes status changes to a webhook.
Everything runs in one asyncio process over one SQLite file. The modules here
model what that process does to its tables and to its chats, how it starts,
dies and stops, and what its middlewares let through; TLC checks them on
small instances and TLAPS proves the safety properties for every instance.
Paths below are relative to the repository's `src/`, lines as in
`delivery/webhook_api.py:55`.

## Inventory

| Component | State it keeps | Operations | What makes it hard | What makes it correct |
|---|---|---|---|---|
| Order store (`core/migrations.py`, `delivery/service.py`, `core/database.py`) | tables orders, order_status_history, subscriptions, webhook_events, statuses, status_transitions | one transaction for each function of `service.py` | several writers, each reading in one transaction and writing in a later one | history, version and status agree; a closed order never moves |
| Status webhook (`delivery/webhook_api.py`) | none but its coroutines; a metric | authenticate, parse, check duplicate, look up, update, record | events delivered more than once, overlapping deliveries, lost answers, a crash between update and record | an acknowledged event was applied; applied once; every event gets a final answer |
| Admin callbacks (`admin/handlers.py:145-246`) | none but its coroutines | list, next, close, statistics | keyboards that outlive their order, two taps at once, sends that fail | moves follow the graph; subscribers are told what happened and nothing else |
| Client router (`delivery/handlers.py`) | subscriptions (in the store) | start, check, subscribe, unsubscribe | a subscription that changes while messages are sent | a subscriber is told each change |
| Dialogs (`core/fsm.py`, both routers) | FSM state and data of a chat, in memory | open, enter, choose, confirm, cancel | the state is read when an update arrives, the handler may run much later or twice | what is created is what the card showed; one order for each dialog |
| Retry middleware (`core/errors.py:36-66`) | a counter on the stack | run the handler up to three times | a handler repeated after the chat has moved on | repeating is harmless |
| Throttling (`core/throttling.py`) | local cache, Redis keys | admit or drop a message | Redis down or slow, two messages at once, restart | at most one message in the interval |
| Admin gate (`botkit_core`, used at `admin/handlers.py:27-53`) | failed attempts, authorised users | authorize, is_throttled | attempts counted again by retries, forgotten by restarts | five wrong guesses close the window |
| Process lifecycle (`bot.py`) | servers, webhook registration, shutdown event | start by webhook or polling, stop | a step of the start fails; a signal while polling | it stops when told to and leaves nothing registered |
| Migration (`core/migrations.py:76-102`) | the schema and the seeded statuses | create, seed | a CREATE is permanent at once, the seeds commit later; a crash between any two statements | whoever serves finds every table, and each seed once |
| Metrics, health, settings, configuration, logging, tracing, Sentry, payments, texts | counters, a key/value table | output, or read once | | |
| Checks of CI (`scripts/`, `.github/validate_compose.py`) | none | one pass over files of the repository | | |

The components interact in four ways: the webhook, the admin callbacks and the
client router write the same tables, each database call being an `await` where
any other coroutine may run; the dialogs of a chat share its FSM state and end
in a row of orders; the middlewares decide when, and how often, a message's
handler runs; and whatever is kept in memory (dialogs, gate, local cache,
requests and callbacks at work) dies with the process, while the tables, Redis
and the webhook registered at Telegram outlive it.

## Modules

* `OrderStore` - the tables as variables, each statement of `service.py` as an
  operator on them. One operator is one transaction. `orders` holds status,
  `is_active` and `version`; `history` the rows of order_status_history in
  insertion order, `prev` being a history variable; `subs` the active
  subscriptions; `events` the rows of webhook_events; `faults` counts what the
  environment has broken.
* `WebhookApi` - extends `OrderStore` with the requests at work. `req[r].pc` is
  the next database call of a request: `dedup` (`webhook_api.py:55`), `lookup`
  (58), `update` (62), `record` (72). `replies` is what the sender has received:
  an answer may be lost (`Reply`), a call may raise (`FailDb`). A delivery that
  never gets to work on the tables is one step (`TurnAway`): refused, or, for
  values that `int()` or SQLite's driver raises on outside the handler's
  `except` (`Raises`: an infinite number, an id beyond 64 bits, a timestamp that
  is not valid Unicode), answered 500 each time.
* `AdminPanel` - extends `OrderStore` with the callbacks at work. `next_status`
  is read, update, subscribers, one send for each user (`handlers.py:175-193`);
  closing and creating an order are single transactions.
* `Delivery` - both of these over one store, with the clients' subscriptions and
  `Crash`. All properties of the composed system, the fairness and the
  refinement mapping are here.
* `OrderLedger` - the abstract specification: an order is placed once, moves
  only while it is open, each move at the end of its trail, and is closed for
  good. `Delivery` implements it under the mapping `Phase`, `Status`, `Trail`.
* `Inbox` - the abstract specification of the webhook as its sender sees it: an
  event is applied, then recorded, then acknowledged, in this order, and none of
  it is taken back. How often it is applied is left open. `Delivery` implements
  it under the mapping `AppliedEvents`, `SentEvents`, `AckedEvents`.
* `Dialog` - one chat of an admin named in `ADMIN_IDS`: FSM state and data, the
  handlers at work, the cards sent and the rows inserted. A message's handler is
  picked by the state at arrival (`Route`, in the order the routers register)
  and runs whenever the throttle lets it; between two awaits a handler is one
  step, because MemoryStorage never suspends. `AppState` prepares a RedisStorage
  but builds `Dispatcher()` without it (`bot_factory.py:21-22`), so a restart
  forgets the dialog.
* `Desk` - the abstract specification of those dialogs: the bot asks about an
  order first and places only what it has asked about, with a chosen status and
  a number of its own. `Dialog` implements it under the mapping `Asked`, `Placed`.
* `Cards` - extends `Delivery` with clients who read the card of an order
  (`delivery/handlers.py:33-64`): the order in one session (`ReadOrder`), its
  history in the next (`ShowCard`), with every writer in between.
* `Lifecycle` - the process from `asyncio.run(main())` to its end. `phase` is the
  call `main` awaits next: `schema seed`, then `listen drop register wait
  unregister cleanup` with a webhook or `drop metrics delivery poll stop` with
  polling. Beside it stand the database file (`made`, `rows`: sqlite3 opens a
  transaction in front of an INSERT only, so each CREATE is permanent by
  itself), the servers that listen, and Telegram's `registered`. A call may
  fail (`CallFails`; what it asked of Telegram may have been done), the process
  may be killed, a signal may come: `SetsShutdown` by the handlers of
  `bot.py:109-116`, until `start_polling` replaces them by aiogram's own, whose
  `EndsPolling` does not set the event. Each start may find another mode
  configured.
* `Throttle` - `ThrottlingMiddleware` for the messages of one user. A message is
  a task that asks Redis (`get`), tells Redis (`set`) and runs its handler
  (`run`); `clock` is `time.time()`. Redis may fail, or answer when the key has
  expired. `last` and `tight` are history variables: the latest time a message
  was let through, and whether the promise stands: what the throttle does not
  withstand suspends it, the next message stored undisturbed restores it.
* `Gate` - extends `Throttle` with the handlers behind it, `cmd_admin` and
  `check_password` (`admin/handlers.py:33-53`), each run again by
  `RetryMiddleware` when its answer fails on the network. `AdminGate` is in
  botkit_core and external (`IsThrottled`, `Authorize`, `WindowMoves`);
  `TryPassword` is what lines 41-51 make of it. A handler's route is fixed when its message arrives, as the filters
  come before the middlewares.
* `Bot` - `Lifecycle` and `Gate` in one process: messages arrive while Telegram
  can deliver them, and what is in memory dies with the process. Also the path
  at which the delivery webhook answers in each mode.
* `MCDelivery`, `MCDialog`, `MCBot`, `MCCards` - instances for TLC.
* `DeliveryProofs`, `WebhookProofs`, `InboxProofs`, `LedgerProofs`,
  `AdminProofs`, `DialogProofs`, `CardProofs`, `BotProofs` - the proofs.

Operators marked "Mutant" are plausible bugs of the definition they stand
before; nothing uses them. Each property of a passing run is violated when one of
them takes its definition's place.

## Runs

| Run | Instance | Checks |
|---|---|---|
| `webhook` | 1 order, 2 requests, 2 events with different statuses, 1 reader of a card, 1 fault | `RecordedMeansApplied`, `AckMeansApplied`, `ConflictMeansClosed`, `ErrorMeansFaultOrRecorded`, `DuplicatesBounded`, `MetricNeverOverstates`, `CardTellsStatus`, `ImplementsInbox` |
| `together` | 1 order, 1 user, 1 request, 2 callbacks, 1 event, 1 fault | `TypeOK`, `HistoryTellsStatus`, `AdminMovesFollowAnEdge`, `ToldAfterTheChange`, `ImplementsLedger` |
| `live` | 1 order, 1 user, 2 statuses, 1 request, 1 callback, 4 events (a good one, one with an unknown status, two that raise), 1 fault, `LiveSpec` | `ErrorMeansFaultOrRecorded`, `EveryEventSettles`, `AdminMovesAreTold` |
| `dialog` | 2 updates at work, 2 texts, 1 status, 1 card, 1 fault | `TypeOK`, `CreatedWithStatus`, `CreatedFromACard`, `OneOrderPerCard`, `ImplementsDesk` |
| `bot` | 2 tables, 2 messages at work, 3 for each process, interval 2, 3 times, 2 runs of a handler, limit 2, 1 fault, `LiveSpec` | `TypeOK`, `ServesSeeded`, `RegisteredMeansServed`, `PollsUnregistered`, `AttemptsBounded`, `DroppedAfterAnother`, `OneInAnInterval`, `LeavesNoWebhook`, `StopsClean`, `Recovers` |

Seven runs end in a violation, each of something the repository says of itself:

| Run | Said | Done |
|---|---|---|
| `webhook_skips_graph` | README.md:37, changes are validated against the graph | the webhook writes any known status; `is_valid_transition` has no caller. tests/test_webhook_api.py:89 says it again, "same status update returns 409"; a 409 is given for closed orders only |
| `double_tap` | the same | the second of two overlapping taps writes the status the first has just written |
| `duplicate_race` | tests/test_webhook_api.py:81, an event sent twice is applied once | two overlapping deliveries both pass the duplicate check |
| `told_closed` | README.md:35, a subscriber receives the order's status changes | "next" on a closed order changes nothing and is announced |
| `webhook_silent` | the same | a change that came through the webhook is never announced |
| `dialog_title` | delivery/texts.py:95, the card shows what exactly will be created | a title that comes late is stored while the chat is confirming |
| `webhook_path` | bot.py:32 and README.md:36, the delivery webhook is at /webhook/status | in webhook mode the prefix of `add_subapp` (bot.py:34) stands in front of a route that has it already: /webhook/webhook/status |

What passes is the other half of the picture. Duplicates are possible, but an
event is never acknowledged or recorded without having been applied, and the
number of times it is applied is bounded by the requests at work and the faults.
A 500 has one of three causes: a fault has occurred, or the event is recorded,
so that sending it again ends as a duplicate, or the event is one of those that
raise by themselves (`webhook_api.py:42`, `:55`), and then no retry ever ends.
An admin's write may be stale, but it always follows a status the order was in.
Whatever writes, the history tells the order's status and a closed order does
not move. An order created by a dialog always has a chosen status, and its
number and client stood on a card; only the title can slip. A client's card may
show a history newer than its status, never an older one.

Of the process, `ServesSeeded` and `Recovers` say that no death during a start
spoils the next one, although the migration is not the one transaction it looks
like. `StopsClean` holds in polling mode only where the shutdown event is set
and the polling is over as well: `asyncio.wait` (bot.py:81) waits for both. The
event can be set only by a signal that comes before `start_polling` replaces the
handlers, so a process that is first told to stop while it polls ends its
polling and then waits for ever, answering `/health`: `bot.cfg` switches the
deadlock check off for this state. No part of the repository says what should
happen there. `LeavesNoWebhook` is the half of `StopsClean` that needs no
fairness, and says more: whatever has failed before, only the failing step
itself can leave a webhook.

`OneInAnInterval` shows what it takes for the throttle to keep its interval.
A failing or late Redis, an empty local cache after a restart and two messages
at once each let a message through too early; the comment at throttling.py:38
announces the local cache as a fallback, but the `except` falls through to the
handler. The property excuses that message (`tight` is false) and asks for
the rest: from the next message that is stored alone, whatever the caches held
before, the interval is kept again. `DroppedAfterAnother`, nobody is dropped
wrongly, has no such condition.

`AttemptsBounded` says how far the retries can fill the gate's window with one
wrong password: `MaxRetries` attempts for each, and never past the limit.

### Bounds

* One order: no statement touches two orders, and nothing compares two. Two
  requests and two callbacks are the smallest numbers that overlap, and each
  hazard listed is between two of them.
* Three statuses in a chain (`core/migrations.py:85-102` seeds four): enough for
  a move, a move after it and a pair that is no edge. `webhook` and `live` have
  two; in `webhook` the two events report one each, so a late event undoes a
  later one. An event that raises comes and goes in one step and touches no
  table: `live` has two of them, `webhook` none.
* `MaxFaults` bounds lost answers, failed calls, failed sends and crashes
  together. One is enough to separate any two transactions of a handler; the
  theorems hold for any number.
* `MaxCards = 1` bounds the different cards of a behaviour, not how often one is
  sent: a second dialog may go as far as its choice of a status and confirm the
  same card again.
* `MaxRetries = 3` is the code's; with one fault a handler runs twice at most.
* `bot.cfg`: two tables have a state between them, and more of them add only
  states of the same kind; `SeedRows = 7` is the code's (four statuses, three
  transitions). One fault stops a start at every step and leaves a second start
  to meet what is left; the signals, restarts and changes of mode are not
  bounded. Two messages at work meet at every await of the throttle. Three
  times (2, 3 and 4) with an interval of 2 hold a message within the interval
  and one after it. Two runs of a handler and a limit of two let one wrong
  password fill the window alone, and two side by side; the code's three and
  five are covered by the theorems. `MaxMessages = 3` is counted for each
  process.
* Symmetry is declared on requests, callbacks, updates and texts, in runs
  without temporal properties of single ones: nothing in the modules orders
  them.

### Fairness

`LiveSpec` assumes that the event loop goes on with every request it has
accepted and every callback it has started (weak fairness of `RequestStep` and
`TaskStep`: asyncio runs every task that is ready, and a database call or a send
returns or raises), and that the external system sends an event again until it
gets an answer that is not a 500 (strong fairness of `Redeliver`, because the
server may be busy with other requests in between; it is an assumption on the
sender, and `EveryEventSettles` is worth no more than it). Nothing is assumed of
admins, clients or of orders ever being created: an event for a missing order
settles with 404. Events that raise by themselves are excepted: the code answers
them 500 for ever, and no retry of theirs is assumed (a 500 more changes no
state, so fairness would only oblige the environment to lose an answer). `AdminMovesAreTold` is about behaviours without a fault; a
send that fails is passed over and nothing sends it again.

`Bot!LiveSpec` assumes that the event loop goes on with `main` (weak fairness of
`ProcessStep`: a call it awaits returns or raises; `ShutdownSeen` and
`BothTasksDone` wait for what they are guarded by) and that a process that ended
by itself is started again (weak fairness of `Start` while it was not told to
stop: `restart: always` in `deploy/compose.yml`). Nothing is assumed of signals,
users or Telegram, nor that the polling ever ends.

## Proofs

All theorems hold for every value of the constants that satisfies the named
assumptions (`StoreAssumption`, `NoOrderAssumption`, `MessageAssumption`,
`RequestAssumption`, `DialogAssumption`, `LifecycleAssumption`,
`ThrottleAssumption`, `GateAssumption`). These say that transitions are pairs of
statuses, that the special values (no order, no event, and the values that
`int()` or SQLite refuse) are none of the ordinary ones, that the
requests and the messages at work are finitely many, that an interval, a limit
and a number of tries are positive, and that the bounds are numbers.

* `DeliveryProofs!TypeCorrect` proves `Typed`: `TypeOK` alone is not inductive,
  because `update_order_status` is typed only for a request whose event was
  accepted; `Typed` adds that every request at work was. `HistoryTells` follows,
  from `NextOrder`: a step leaves an order alone, places it, moves it with one
  row of history, or closes it. The other modules cite this lemma instead of
  going through the actions again.
* `LedgerProofs!ImplementsTheLedger` maps each of these four cases to a step of
  `OrderLedger` or to a stutter. The `Move` case needs `is_active = 1` in the
  WHERE clause of `service.py:112`, the `Place` case the empty history of a row
  that does not exist, which is a part of `HistoryTellsStatus`.
* `WebhookProofs`: `RecordedMeansApplied` is not inductive; the invariant adds
  that a request in front of `record` has been applied. `AckMeansApplied` rests
  on it, as `duplicate_ignored` is said on the word of webhook_events alone.
  `ConflictIsFinal` needs that a request beyond `lookup` has found its order and
  that rows are never deleted. `MetricIsBounded` counts: the metric and the
  events grow together, and a restart takes the metric back to zero.
* `AdminProofs!AdminMovesFollow`: the invariant adds that a callback in front of
  its update holds a successor of a status the order has held; statuses once
  held stay held (`HeldGrows`), however many writes come in between.
* `DialogProofs`: `ConfirmInv` says that whenever the chat is confirming its
  number, client and status stood on a card, and that a tap at work keeps such
  data. It holds because every handler that stores a number or a client moves
  the chat out of confirming in the same step; `enter_title` does not, which is
  why it says nothing of titles. `OneCardOneOrder`
  joins it to `NumbersDiffer`, which UNIQUE gives: choosing for each order a
  card with its number is then injective, and the pigeonhole principle bounds
  the orders by the cards.

* `WebhookProofs!DuplicatesAreBounded`: `RowsDue` accounts for every row that an
  event has put into the history. Before it is recorded each row belongs to a
  request that still stands in front of `record`, or to one that a fault ended
  there, and a fault ends at most all requests; afterwards only requests that
  passed the check in time can add one. Rows plus such requests never exceed
  the product of requests and faults, plus the requests once more.
* `AdminProofs!ToldAfter`: the invariant adds that a callback past its update has
  moved the order or found it closed, which stays true (`ClosedStays`).
* `CardProofs!CardsTell`: a reader's step is no step of `Delivery`, so `NextOrder`
  applies; histories only grow (`HistoryGrows`), and at the read the last row
  agrees with the status (`HistoryTellsStatus`, order by order).
* `BotProofs`, the process: `LifeInv` ties the database file (`Migrated`), the
  servers (`Listening`) and the registration (`Registered`) to the phase, and
  `Quiet` says that no message is at work before the tables are seeded. `Seeded`,
  `WebhookServed` and `PollingAlone` are its consequences: none of the three is
  inductive, as each depends on how far `main` has come.
* `BotProofs`, the throttle: `NotAhead` (what Redis has was let through) gives
  `NobodyLockedOut` with no condition; `InStep` (while `tight`, both caches hold
  the time of the last message let through, one of them perhaps about to) gives
  `ThrottlePromise`; a message stored undisturbed (`Undisturbed`) establishes it
  from any state, which is why the promise comes back.
* `BotProofs`, the gate: `GateBounded` counts the pairs of a wrong password at
  work and a run it has left (`RunsLeft`). Attempts and such pairs together are
  at most `MaxRetries` for each guess: a run that counts an attempt takes one
  pair away, a retry only uses one up.

* `InboxProofs!ImplementsTheInbox`: rows of the history, rows of webhook_events
  and answers only grow, which gives the order of the three steps from
  `RecordedMeansApplied` and from what each answer was said on. An event that is
  answered in the step that records it is the case `Record` leaves open.
* `InboxProofs!ErrorsAreExplained`: without a fault a request that may still
  answer 500 is one whose insert breaks UNIQUE, and then the event is there; a
  delivery that raises is never at work, and is the third cause by its values.
* `DialogProofs!ImplementsTheDesk`: `ConfirmInv` holds the card when a tap
  inserts, `Taken` gives the number that is free, and rows and cards are only
  added (`PlacedGrows`, `OtherStepsAsk`).
* `BotProofs!NoneLeftBehind`: `Registered` says that nothing is registered when
  `main` is in front of its last call, in either mode.
* `CardProofs!ReadersChangeNothing` carries every theorem about `Delivery!Spec`
  over to `CardSpec`, the specification of the run `webhook`.

Four violations have a theorem that bounds them. Each run above shows one way in
which the property fails; the theorem says, for every value of the constants,
that nothing else leads there, or what would have to be kept away:

| Violated | Theorem | Holds as long as |
|---|---|---|
| `AppliedAtMostOnce` | `InboxProofs!OneAtATimeAppliesOnce` | no two deliveries of one event are at work at once, and nothing fails |
| `OnlyAllowedTransitions` | `AdminProofs!NoThirdWayOffTheGraph` | no request writes a status, and no two "next" of one order overlap |
| `ToldOnlyChanges` | `AdminProofs!OnlyClosedOrdersMislead` | no callback writes to an order that is closed |
| `CreatedAsShown` | `DialogProofs!OnlyLateTitlesSlip` | no `enter_title` starts while the chat is confirming |

`DialogProofs!CalmChatsCreateAsShown` derives the last of these conditions from
one that an operator can understand: updates come one at a time and nothing
fails. Both are needed: with two faults and one update at a time, TLC finds an
`enter_title` that is repeated after a tap on an old "cancel", and its failing
read of the statuses leaves another title behind the card. The conditions are
properties of behaviours, not of the code, and states that satisfy them are the
ordinary ones: each was checked by TLC as a constraint before it was proved.

Only model-checked: the liveness properties (`EveryEventSettles`,
`AdminMovesAreTold`, `StopsClean`, `Recovers`), which are out of the prover's
reach. Every other property of a passing run is a theorem.

## Not modelled

* The clock of the database. `changed_at` has a resolution of one second, so
  `get_order_history` may show rows of one second in any order; `history` is in
  the order of insertion. In `Dialog` the throttle drops or admits a message
  freely: its own conditions are in `Throttle`.
* The inside of `AdminGate`: only what its callers rely on. In `Dialog` and
  `AdminPanel` all admins are those of the configuration, so a guard on
  `is_admin` is true of the taps that are modelled.
* The sleeps of `RetryMiddleware` and of the error handler: any time may pass
  between two steps of a task.
* What a user sent while the process was down: `drop_pending_updates` discards
  it, and no property is about it.
* Two processes at once: `deploy/compose.yml` names its one container, and the
  port is taken.
* Callback data and payloads that no keyboard and no sender produces; the
  callback parser turns them away.
* `close_order`, `close_no`, the lists and the statistics change no state.
* The order of messages in a user's chat.
* The scripts that CI runs over the repository (`scripts/check-coverage.py`,
  `scripts/check-repo-contract.py`, `.github/validate_compose.py`): they read
  files, report and exit, and share nothing with the bot.
* The database being replaced by PostgreSQL: the code connects to SQLite.

## Plan

1. Done: store, webhook, admin panel, their composition, the ledger, the dialog;
   the throttle, the gate, the lifecycle with the migration and their
   composition; the cards; the inbox and the desk as abstract specifications; a
   theorem for every safety property that a passing run checks, and for four of
   the violated ones what it takes to violate them.
2. Next: extend `AdminPanel` by the order in which a user receives messages,
   `Dialog` by the card a tap stands under; promote `is_admin` from a constant to the gate's state in the dialog.
3. An abstract window for the throttle, implemented by `Throttle` while `tight`
   holds; the safety half of `AdminMovesAreTold`: a callback that ends without a
   fault has told everybody it had read.
