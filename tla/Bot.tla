--------------------------------- MODULE Bot ---------------------------------
(***************************************************************************)
(* The process of Lifecycle with its front door, Throttle and Gate:        *)
(* messages reach it while Telegram can deliver them, and what the front   *)
(* door keeps in memory dies with the process.                             *)
(***************************************************************************)
EXTENDS Lifecycle, Gate

vars == <<lifeVars, throttleVars, gateVars>>

TypeOK == LifeTypeOK /\ ThrottleTypeOK /\ GateTypeOK

Init == LifeInit /\ ThrottleInit /\ GateInit

\* Telegram delivers to the webhook it has, or to a process that polls.
Reachable ==
  \/ registered /\ "site" \in servers /\ mode = "webhook"
  \/ phase = "poll" /\ polling = "on"

Texts == {"/admin", "right", "wrong"}

Receive ==
  /\ Reachable
  /\ \E s \in Slots, text \in Texts : Send(s, text)
  /\ UNCHANGED lifeVars

Work(s) ==
  /\ \/ ThrottleStep(s) /\ UNCHANGED gateVars
     \/ HandlerStep(s)
  /\ UNCHANGED lifeVars

Time ==
  /\ \/ Tick /\ UNCHANGED gateVars
     \/ WindowMoves
  /\ UNCHANGED lifeVars

Untouched == UNCHANGED <<throttleVars, gateVars>>

Live == LifeGoesOn /\ Untouched

Die == LifeEnds /\ ForgetMessages /\ ForgetGate

Next == Receive \/ (\E s \in Slots : Work(s)) \/ Time \/ Live \/ Die

Spec == Init /\ [][Next]_vars

\* A step of main(), whether the process goes on after it or not.
ProcessStep ==
  \/ MainGoesOn /\ Untouched
  \/ MainEnds /\ ForgetMessages /\ ForgetGate

(***************************************************************************)
(* The event loop goes on with main() whenever it can, and the compose     *)
(* file's restart policy starts a process that ended by itself again.      *)
(* Nothing is assumed of Telegram, of users or of signals.                 *)
(***************************************************************************)
LiveSpec == Spec /\ WF_vars(ProcessStep) /\ WF_vars(Start /\ Untouched /\ ~shutdown)

-----------------------------------------------------------------------------
(* Properties *)

(***************************************************************************)
(* Whatever accepts requests or handles a message finds every table and    *)
(* the statuses once and whole (migrations.py:76-102), however often a     *)
(* start died between two statements: seeding is decided by a count, not   *)
(* by what this process has created.                                       *)
(***************************************************************************)
ServesSeeded ==
  servers # {} \/ (\E s \in Slots : msgs[s] # Idle) =>
    made = Tables /\ rows = SeedRows

(***************************************************************************)
(* A webhook that this process has registered leads to a server that       *)
(* accepts connections (bot.py:40-60): it listens before it registers, and *)
(* goes on listening until the webhook is deleted.                         *)
(***************************************************************************)
RegisteredMeansServed == mine => registered /\ "site" \in servers

(***************************************************************************)
(* Telegram refuses getUpdates while the token has a webhook.  A process   *)
(* that polls has none left (bot.py:65), not even one that a killed        *)
(* process in webhook mode could not delete.                               *)
(***************************************************************************)
PollsUnregistered == phase = "poll" => ~registered

(***************************************************************************)
(* A process that ends by itself leaves no webhook that would send updates *)
(* to nobody (bot.py:57-61, :81-89), whatever an earlier one has left and  *)
(* failed at: only a step that is itself a failure or a kill does.         *)
(***************************************************************************)
LeavesNoWebhook ==
  [][phase # "down" /\ phase' = "down" /\ registered' => faults' > faults]_vars

(***************************************************************************)
(* A process whose shutdown event is set ends (bot.py:57-61), and leaves   *)
(* no webhook behind unless something failed.  In polling mode the end of  *)
(* the polling is needed too, as asyncio.wait waits for both (bot.py:81):  *)
(* only a signal that came before start_polling replaced the handlers of   *)
(* main() has set the event, so the property says nothing of a process     *)
(* that is first told to stop while it polls.  That one has to be killed.  *)
(***************************************************************************)
StopsClean ==
  phase # "down" /\ shutdown /\ (mode = "polling" => polling = "over") ~>
    phase = "down" /\ (registered => faults > 0)

(***************************************************************************)
(* A process that died and was not told to stop serves again: no step of   *)
(* migrate (migrations.py:76-102) or of the start stumbles over what an    *)
(* earlier start left.                                                     *)
(***************************************************************************)
Recovers == phase = "down" /\ ~shutdown ~> phase \in ServingPhases \/ shutdown

-----------------------------------------------------------------------------
(* The route of the delivery webhook *)

\* create_webhook_app of delivery/webhook_api.py.
DeliveryRoute == <<"webhook", "status">>

\* add_subapp puts its prefix in front of the routes of the application.
Mounted(prefix, path) == prefix \o path

\* Where the process answers the external system.
StatusPaths ==
  (IF phase = "wait" THEN {Mounted(<<"webhook">>, DeliveryRoute)} ELSE {})
    \cup (IF phase = "poll" THEN {DeliveryRoute} ELSE {})

(***************************************************************************)
(* bot.py:32: "Mount delivery webhook at /webhook/status", and README.md:36 *)
(* the external system posts to /webhook/status.                           *)
(***************************************************************************)
StatusEndpointServed ==
  phase \in ServingPhases => <<"webhook", "status">> \in StatusPaths

=============================================================================
