----------------------------- MODULE Lifecycle -----------------------------
(***************************************************************************)
(* The life of the process (src/bot.py): migrate, start by Telegram        *)
(* webhook or by polling, wait, stop - and dying at any of these steps.    *)
(* The phase names the call that main() awaits next.                       *)
(*                                                                         *)
(*   webhook: schema seed listen drop register wait unregister cleanup     *)
(*   polling: schema seed drop metrics delivery poll stop                  *)
(*                                                                         *)
(* The compose files run one container, which is restarted when its        *)
(* process ends by itself and stays down when it was told to stop.         *)
(***************************************************************************)
EXTENDS Naturals, Sequences

CONSTANTS
  Modes,       \* what WEBHOOK_URL may select: "webhook", "polling"
  Tables,      \* statements of SCHEMA
  SeedRows,    \* rows that migrate inserts into the empty tables
  MaxFaults    \* bound: kills and failing calls in one behaviour

ASSUME LifecycleAssumption ==
  /\ Modes \subseteq {"webhook", "polling"}
  /\ Tables \in Nat
  /\ SeedRows \in Nat \ {0}
  /\ MaxFaults \in Nat

VARIABLES
  phase,       \* the call main() awaits, "down" when there is no process
  mode,        \* config.webhook_url is set, or it is not
  executed,    \* statements of SCHEMA this process has executed
  made,        \* tables and indexes there are in the database file
  rows,        \* rows of statuses and status_transitions
  servers,     \* HTTP servers of the process that accept connections
  registered,  \* Telegram has a webhook for the bot's token
  mine,        \* this process has registered it
  shutdown,    \* shutdown_event is set; down: it was stopped on purpose
  polling,     \* the task of start_polling: "off", "on" or "over"
  faults       \* kills and failing calls so far

fileVars == <<made, rows>>
processVars == <<mode, executed, servers, mine, polling>>
lifeVars == <<phase, processVars, fileVars, registered, shutdown, faults>>

StartPhases == {"schema", "seed", "listen", "drop", "register",
                "metrics", "delivery"}
ServingPhases == {"wait", "poll"}
StopPhases == {"unregister", "cleanup", "stop"}
Phases == {"down"} \cup StartPhases \cup ServingPhases \cup StopPhases

LifeTypeOK ==
  /\ phase \in Phases
  /\ mode \in {"webhook", "polling"}
  /\ executed \in 0..Tables
  /\ made \in 0..Tables
  /\ rows \in {0, SeedRows}
  /\ servers \subseteq {"site", "metrics"}
  /\ registered \in BOOLEAN
  /\ mine \in BOOLEAN
  /\ shutdown \in BOOLEAN
  /\ polling \in {"off", "on", "over"}
  /\ faults \in 0..MaxFaults

\* The first start finds an empty volume, and a token that some earlier
\* deployment may have left registered.
LifeInit ==
  /\ phase = "down"
  /\ mode \in Modes
  /\ executed = 0
  /\ made = 0
  /\ rows = 0
  /\ servers = {}
  /\ registered \in BOOLEAN
  /\ mine = FALSE
  /\ shutdown = FALSE
  /\ polling = "off"
  /\ faults = 0

-----------------------------------------------------------------------------
(* Start *)

\* asyncio.run(main()): everything the last process kept in memory is new.
\* WEBHOOK_URL may have been edited while the process was down.
Start ==
  /\ phase = "down"
  /\ phase' = "schema"
  /\ mode' \in Modes
  /\ shutdown' = FALSE
  /\ UNCHANGED <<fileVars, executed, servers, mine, polling, registered, faults>>

\* Main awaits its next call; what the last one did is in the other conjuncts.
Goto(from, to) ==
  /\ phase = from
  /\ phase' = to
  /\ UNCHANGED <<mode, shutdown, faults>>

\* The process ends, by an exception or a return: the sockets close.
Exit ==
  /\ phase' = "down"
  /\ servers' = {}
  /\ mine' = FALSE
  /\ polling' = "off"
  /\ executed' = 0
  /\ UNCHANGED mode

\* Mutant: CREATE TABLE without IF NOT EXISTS.
CreatesBlindly ==
  /\ phase = "schema"
  /\ executed < Tables
  /\ \/ /\ executed = made
        /\ executed' = executed + 1
        /\ made' = made + 1
        /\ UNCHANGED <<phase, mode, servers, mine, polling>>
     \/ /\ executed < made
        /\ Exit
        /\ UNCHANGED made
  /\ UNCHANGED <<rows, registered, shutdown, faults>>

(***************************************************************************)
(* One statement of SCHEMA.  sqlite3 opens a transaction in front of an    *)
(* INSERT, not in front of a CREATE, so each table is there for good as    *)
(* soon as its statement returns, although migrate() is one                *)
(* db.transaction().  IF NOT EXISTS passes over what is there.             *)
(***************************************************************************)
CreateTable ==
  /\ phase = "schema"
  /\ executed < Tables
  /\ executed' = executed + 1
  /\ made' = IF executed = made THEN made + 1 ELSE made
  /\ UNCHANGED <<phase, mode, servers, mine, polling,
                 rows, registered, shutdown, faults>>

SchemaDone ==
  /\ executed = Tables
  /\ Goto("schema", "seed")
  /\ UNCHANGED <<executed, servers, mine, polling, fileVars, registered>>

\* Where the two ways to run part.
FirstStep == IF mode = "webhook" THEN "listen" ELSE "drop"

\* Mutant: every start seeds.
SeedsWithoutCounting ==
  /\ rows' = rows + SeedRows
  /\ Goto("seed", FirstStep)
  /\ UNCHANGED <<executed, made, servers, mine, polling, registered>>

\* SELECT COUNT(*), and the inserts in one transaction if it says 0.
Seed ==
  /\ rows' = IF rows = 0 THEN SeedRows ELSE rows
  /\ Goto("seed", FirstStep)
  /\ UNCHANGED <<executed, made, servers, mine, polling, registered>>

-----------------------------------------------------------------------------
(* _run_webhook *)

Listen ==
  /\ servers' = servers \cup {"site"}
  /\ Goto("listen", "drop")
  /\ UNCHANGED <<executed, mine, polling, fileVars, registered>>

AfterDrop == IF mode = "webhook" THEN "register" ELSE "metrics"

\* Mutant: _run_polling does not delete the webhook.
DropsForWebhookOnly ==
  /\ registered' = (registered /\ mode = "polling")
  /\ Goto("drop", AfterDrop)
  /\ UNCHANGED <<executed, servers, mine, polling, fileVars>>

\* delete_webhook(drop_pending_updates=True), the same call in both modes.
DropWebhook ==
  /\ registered' = FALSE
  /\ Goto("drop", AfterDrop)
  /\ UNCHANGED <<executed, servers, mine, polling, fileVars>>

SetWebhook ==
  /\ registered' = TRUE
  /\ mine' = TRUE
  /\ Goto("register", "wait")
  /\ UNCHANGED <<executed, servers, polling, fileVars>>

ShutdownSeen ==
  /\ shutdown
  /\ Goto("wait", "unregister")
  /\ UNCHANGED <<executed, servers, mine, polling, fileVars, registered>>

\* Mutant: the server is cleaned up first.
CleansUpFirst ==
  /\ servers' = {}
  /\ Goto("unregister", "cleanup")
  /\ UNCHANGED <<executed, mine, polling, fileVars, registered>>

\* Mutant: the finally block only cleans up.
KeepsWebhook ==
  /\ Goto("unregister", "cleanup")
  /\ UNCHANGED <<executed, servers, mine, polling, fileVars, registered>>

DeleteWebhook ==
  /\ registered' = FALSE
  /\ mine' = FALSE
  /\ Goto("unregister", "cleanup")
  /\ UNCHANGED <<executed, servers, polling, fileVars>>

\* runner.cleanup(), and main() returns.
Cleanup ==
  /\ phase = "cleanup"
  /\ Exit
  /\ UNCHANGED <<fileVars, registered, shutdown, faults>>

-----------------------------------------------------------------------------
(* _run_polling *)

StartMetrics ==
  /\ servers' = servers \cup {"metrics"}
  /\ Goto("metrics", "delivery")
  /\ UNCHANGED <<executed, mine, polling, fileVars, registered>>

\* The delivery site, then both tasks of asyncio.wait.
StartPolling ==
  /\ servers' = servers \cup {"site"}
  /\ polling' = "on"
  /\ Goto("delivery", "poll")
  /\ UNCHANGED <<executed, mine, fileVars, registered>>

\* The task of start_polling ends with an exception; nothing reads it.
PollingFails ==
  /\ phase = "poll"
  /\ polling = "on"
  /\ faults < MaxFaults
  /\ faults' = faults + 1
  /\ polling' = "over"
  /\ UNCHANGED <<phase, mode, executed, servers, mine, fileVars,
                 registered, shutdown>>

\* asyncio.wait without return_when waits for both of its tasks.
BothTasksDone ==
  /\ shutdown
  /\ polling = "over"
  /\ Goto("poll", "stop")
  /\ UNCHANGED <<executed, servers, mine, polling, fileVars, registered>>

\* stop_polling() raises when nothing polls, and then the servers are not
\* cleaned up; either way the process ends and they are gone.
StopPolling ==
  /\ phase = "stop"
  /\ Exit
  /\ UNCHANGED <<fileVars, registered, shutdown, faults>>

-----------------------------------------------------------------------------
(* The environment *)

\* SIGTERM or SIGINT, once main() has installed its handlers and as long as
\* start_polling has not replaced them, which it does for good.
SetsShutdown ==
  /\ phase \notin {"down", "schema", "seed"}
  /\ polling = "off"
  /\ shutdown' = TRUE
  /\ UNCHANGED <<phase, processVars, fileVars, registered, faults>>

\* The handlers of start_polling: the signal ends the polling, and
\* shutdown_event does not hear of it.
EndsPolling ==
  /\ phase = "poll"
  /\ polling = "on"
  /\ polling' = "over"
  /\ UNCHANGED <<phase, mode, executed, servers, mine, fileVars,
                 registered, shutdown, faults>>

\* The process dies where it stands: out of memory and restarted, or killed
\* because it did not stop in time, or before it had a handler for the signal.
Kill ==
  /\ phase # "down"
  /\ faults < MaxFaults
  /\ faults' = faults + 1
  /\ Exit
  /\ shutdown' \in {shutdown, TRUE}
  /\ UNCHANGED <<fileVars, registered>>

\* A call of the start or the stop raises: a locked file, a port in use,
\* Telegram out of reach.  What it asked of Telegram may have been done.
CallFails ==
  /\ phase \in (StartPhases \cup StopPhases)
  /\ faults < MaxFaults
  /\ faults' = faults + 1
  /\ Exit
  /\ registered' \in
       {registered} \cup (CASE phase \in {"drop", "unregister"} -> {FALSE}
                            [] phase = "register" -> {TRUE}
                            [] OTHER -> {})
  /\ UNCHANGED <<fileVars, shutdown>>

-----------------------------------------------------------------------------

\* The steps of main() that leave it running, and those that end it.
MainGoesOn ==
  \/ CreateTable \/ SchemaDone \/ Seed
  \/ Listen \/ DropWebhook \/ SetWebhook \/ ShutdownSeen \/ DeleteWebhook
  \/ StartMetrics \/ StartPolling \/ BothTasksDone

MainEnds == Cleanup \/ StopPolling

LifeGoesOn == Start \/ MainGoesOn \/ SetsShutdown \/ EndsPolling \/ PollingFails

LifeEnds == MainEnds \/ Kill \/ CallFails

=============================================================================
