------------------------------ MODULE BotProofs ------------------------------
(***************************************************************************)
(* What holds of Bot for every number of messages, retries, attempts and   *)
(* faults, for every interval and for both ways to run.                    *)
(***************************************************************************)
EXTENDS Bot, FiniteSetTheorems, TLAPS

-----------------------------------------------------------------------------
(* Types *)

\* The types of the flags, and of everything else.
LifeFlags == registered \in BOOLEAN /\ mine \in BOOLEAN /\ shutdown \in BOOLEAN

LifeRest ==
  /\ phase \in Phases
  /\ mode \in {"webhook", "polling"}
  /\ executed \in 0..Tables
  /\ made \in 0..Tables
  /\ rows \in {0, SeedRows}
  /\ servers \subseteq {"site", "metrics"}
  /\ polling \in {"off", "on", "over"}
  /\ faults \in 0..MaxFaults

GateFlags == waiting \in BOOLEAN /\ admin \in BOOLEAN

GateRest == attempts \in Nat /\ received \in 0..MaxMessages /\ guesses \in 0..received

LEMMA Split ==
  /\ LifeTypeOK <=> LifeFlags /\ LifeRest
  /\ GateTypeOK <=> GateFlags /\ GateRest
  BY Zenon DEF LifeTypeOK, LifeFlags, LifeRest, GateTypeOK, GateFlags, GateRest

LEMMA InitBotTyped == Init => TypeOK
<1> SUFFICES ASSUME Init PROVE TypeOK
  OBVIOUS
<1>1. LifeTypeOK
  <2>1. LifeFlags
    BY Zenon DEF Init, LifeInit, LifeFlags
  <2>2. LifeRest
    BY LifecycleAssumption DEF Init, LifeInit, LifeRest, Phases
  <2> QED
    BY <2>1, <2>2, Split
<1>2. ThrottleTypeOK
  BY ThrottleAssumption DEF Init, ThrottleInit, ThrottleTypeOK, Times
<1>3. GateTypeOK
  <2>1. GateFlags
    BY Zenon DEF Init, GateInit, GateFlags
  <2>2. GateRest
    BY GateAssumption DEF Init, GateInit, GateRest
  <2> QED
    BY <2>1, <2>2, Split
<1> QED
  BY <1>1, <1>2, <1>3 DEF TypeOK

LEMMA ExitTyped ==
  ASSUME LifeRest, Exit
  PROVE  /\ phase' \in Phases
         /\ mode' \in {"webhook", "polling"}
         /\ executed' \in 0..Tables
         /\ servers' \subseteq {"site", "metrics"}
         /\ polling' \in {"off", "on", "over"}
  BY LifecycleAssumption DEF LifeRest, Exit, Phases

LEMMA GoesOnTyped ==
  ASSUME LifeTypeOK, LifeGoesOn
  PROVE  LifeTypeOK'
<1> USE LifecycleAssumption
<1>0. LifeFlags /\ LifeRest
  BY Split
<1>1. LifeFlags'
  BY <1>0, Zenon DEF LifeFlags, LifeGoesOn, MainGoesOn, Start, CreateTable,
     SchemaDone, Seed, Listen, DropWebhook, SetWebhook, ShutdownSeen, DeleteWebhook,
     StartMetrics, StartPolling, BothTasksDone, SetsShutdown, EndsPolling,
     PollingFails, Goto, fileVars, processVars
<1>2. LifeRest'
  <2> USE <1>0 DEF LifeRest, fileVars, processVars
  <2>1. CASE Start
    BY <2>1 DEF Start, Phases, StartPhases
  <2>2. CASE CreateTable \/ SchemaDone
    <3>1. executed' \in 0..Tables /\ made' \in 0..Tables
      BY <2>2 DEF CreateTable, SchemaDone, Goto
    <3>2. phase' \in Phases
      BY <2>2 DEF CreateTable, SchemaDone, Goto, Phases, StartPhases
    <3>3. UNCHANGED <<mode, rows, servers, polling, faults>>
      BY <2>2 DEF CreateTable, SchemaDone, Goto
    <3> QED
      BY <3>1, <3>2, <3>3
  <2>3. CASE Seed \/ Listen \/ DropWebhook \/ SetWebhook
    BY <2>3 DEF Seed, FirstStep, Listen, DropWebhook, AfterDrop, SetWebhook, Goto,
       Phases, StartPhases, ServingPhases
  <2>4. CASE ShutdownSeen \/ DeleteWebhook \/ StartMetrics \/ StartPolling \/ BothTasksDone
    BY <2>4 DEF ShutdownSeen, DeleteWebhook, StartMetrics, StartPolling, BothTasksDone,
       Goto, Phases, StartPhases, ServingPhases, StopPhases
  <2>5. CASE SetsShutdown \/ EndsPolling \/ PollingFails
    <3>1. UNCHANGED <<phase, mode, executed, made, rows, servers>>
      BY <2>5, Zenon DEF SetsShutdown, EndsPolling, PollingFails
    <3>2. polling' \in {polling, "over"}
      BY <2>5, Zenon DEF SetsShutdown, EndsPolling, PollingFails
    <3>3. faults' = faults \/ (faults < MaxFaults /\ faults' = faults + 1)
      BY <2>5, Zenon DEF SetsShutdown, EndsPolling, PollingFails, lifeVars
    <3> QED
      BY <3>1, <3>2, <3>3
  <2> QED
    BY <2>1, <2>2, <2>3, <2>4, <2>5 DEF LifeGoesOn, MainGoesOn
<1> QED
  BY <1>1, <1>2, Zenon DEF LifeTypeOK, LifeFlags, LifeRest

LEMMA EndsTyped ==
  ASSUME LifeTypeOK, LifeEnds
  PROVE  LifeTypeOK' /\ Exit
<1>0. LifeFlags /\ LifeRest
  BY Split
<1>1. Exit
  BY DEF LifeEnds, MainEnds, Cleanup, StopPolling, Kill, CallFails
<1>2. LifeFlags'
  <2>1. mine' \in BOOLEAN
    BY <1>1, Zenon DEF Exit
  <2>2. shutdown' \in BOOLEAN
    BY <1>0, Zenon DEF LifeFlags, LifeEnds, MainEnds, Cleanup, StopPolling, Kill,
       CallFails
  <2>3. registered' \in BOOLEAN
    <3>1. CASE CallFails
      <4>1. registered' \in {registered} \cup
              (CASE phase \in {"drop", "unregister"} -> {FALSE}
                 [] phase = "register" -> {TRUE}
                 [] OTHER -> {})
        BY <3>1 DEF CallFails
      <4>2. (CASE phase \in {"drop", "unregister"} -> {FALSE}
               [] phase = "register" -> {TRUE}
               [] OTHER -> {}) \subseteq BOOLEAN
        OBVIOUS
      <4> QED
        BY <1>0, <4>1, <4>2, Zenon DEF LifeFlags
    <3>2. CASE MainEnds \/ Kill
      BY <1>0, <3>2, Zenon DEF LifeFlags, MainEnds, Cleanup, StopPolling, Kill, fileVars
    <3> QED
      BY <3>1, <3>2 DEF LifeEnds
  <2> QED
    BY <2>1, <2>2, <2>3 DEF LifeFlags
<1>3. LifeRest'
  <2>1. made' = made /\ rows' = rows
    BY DEF LifeEnds, MainEnds, Cleanup, StopPolling, Kill, CallFails, fileVars
  <2>2. faults' \in 0..MaxFaults
    <3>1. faults' = faults \/ (faults < MaxFaults /\ faults' = faults + 1)
      BY Zenon DEF LifeEnds, MainEnds, Cleanup, StopPolling, Kill, CallFails
    <3> QED
      BY <1>0, <3>1, LifecycleAssumption DEF LifeRest
  <2> QED
    BY <1>0, <1>1, <2>1, <2>2, ExitTyped DEF LifeRest
<1> QED
  BY <1>1, <1>2, <1>3, Zenon DEF LifeTypeOK, LifeFlags, LifeRest

LEMMA MessageTyped ==
  ASSUME ThrottleTypeOK, NEW s \in Slots, msgs[s].pc # "idle"
  PROVE  msgs[s] \in Message
  BY DEF ThrottleTypeOK, Idle

LEMMA ArriveTyped ==
  ASSUME ThrottleTypeOK, NEW s \in Slots, NEW h \in Handlers, Arrive(s, h)
  PROVE  ThrottleTypeOK'
<1> USE ThrottleAssumption DEF ThrottleTypeOK
<1>1. clock \in Times
  BY DEF Times
<1>2. \A pc \in {"get", "set"} :
        [pc |-> pc, at |-> clock, handler |-> h, tries |-> 0] \in Message
  BY DEF Message
<1>3. msgs' \in [Slots -> Message \cup {Idle}]
  BY <1>2 DEF Arrive, LetThrough
<1>4. local' \in Times /\ last' \in Times
  BY <1>1 DEF Arrive, LetThrough
<1>5. tight' \in BOOLEAN /\ UNCHANGED <<clock, redis>>
  BY DEF Arrive
<1> QED
  BY <1>3, <1>4, <1>5

LEMMA ThrottleStepTyped ==
  ASSUME ThrottleTypeOK, NEW s \in Slots, ThrottleStep(s)
  PROVE  ThrottleTypeOK'
<1> USE ThrottleAssumption DEF ThrottleTypeOK
<1>1. msgs[s] \in Message
  BY MessageTyped DEF ThrottleStep, Drop, Confirm, GetFails, Store, SetFails
<1>2. /\ msgs[s].at \in Times
      /\ msgs[s].handler \in Handlers
      /\ [pc |-> "set", at |-> msgs[s].at, handler |-> msgs[s].handler,
          tries |-> 0] \in Message
      /\ [pc |-> "run", at |-> Interval, handler |-> msgs[s].handler,
          tries |-> 0] \in Message
  BY <1>1 DEF Message, Times
<1>3. CASE Drop(s)
  BY <1>3 DEF Drop
<1>4. CASE Confirm(s) \/ GetFails(s)
  BY <1>2, <1>4 DEF Confirm, GetFails, LetThrough
<1>5. CASE Store(s) \/ SetFails(s)
  <2>1. tight' \in BOOLEAN
    <3>1. tight' = FALSE \/ tight' = Undisturbed(s)
      BY <1>5, Zenon DEF Store, SetFails
    <3> QED
      BY <3>1 DEF Undisturbed
  <2>2. /\ msgs' \in [Slots -> Message \cup {Idle}]
        /\ redis' \in Times
        /\ UNCHANGED <<clock, local, last>>
    BY <1>2, <1>5 DEF Store, SetFails, Handle
  <2> QED
    BY <2>1, <2>2
<1> QED
  BY <1>3, <1>4, <1>5 DEF ThrottleStep

LEMMA RunTyped ==
  ASSUME ThrottleTypeOK, NEW s \in Slots, RunHandler(s)
  PROVE  ThrottleTypeOK' /\ msgs[s] \in Message
<1> USE ThrottleAssumption DEF ThrottleTypeOK
<1>1. msgs[s] \in Message
  BY MessageTyped DEF RunHandler
<1>2. msgs' \in [Slots -> Message \cup {Idle}]
  <2>1. CASE msgs' = [msgs EXCEPT ![s] = Idle]
    BY <2>1
  <2>2. CASE /\ msgs[s].tries + 1 < MaxRetries
             /\ msgs' = [msgs EXCEPT ![s].tries = @ + 1]
    <3>1. msgs[s].tries + 1 \in 0 .. MaxRetries - 1
      BY <1>1, <2>2 DEF Message
    <3>2. \A n \in 0 .. MaxRetries - 1 : [msgs[s] EXCEPT !.tries = n] \in Message
      BY <1>1 DEF Message
    <3> QED
      BY <2>2, <3>1, <3>2
  <2> QED
    BY <2>1, <2>2 DEF RunHandler, AnswerOrRetry
<1> QED
  BY <1>1, <1>2 DEF RunHandler

LEMMA ForgetTyped ==
  ASSUME ThrottleTypeOK, ForgetMessages, ForgetGate
  PROVE  ThrottleTypeOK' /\ GateTypeOK'
<1>1. ThrottleTypeOK'
  BY DEF ThrottleTypeOK, ForgetMessages, Times
<1>2. GateFlags'
  BY Zenon DEF GateFlags, ForgetGate
<1>3. GateRest'
  BY GateAssumption DEF GateRest, ForgetGate
<1> QED
  BY <1>1, <1>2, <1>3, Zenon DEF GateTypeOK, GateFlags, GateRest

LEMMA RouteTyped ==
  ASSUME NEW text \in Texts
  PROVE  Route(text) \in Handlers
  BY GateAssumption DEF Texts, Route

LEMMA HandlerTyped ==
  ASSUME GateTypeOK, NEW s \in Slots, HandlerStep(s)
  PROVE  GateTypeOK'
<1>0. GateFlags /\ GateRest
  BY Split
<1>1. GateFlags'
  BY <1>0, Zenon DEF GateFlags, HandlerStep, AskPassword, CheckPassword, OtherHandler,
     TryPassword, Authorize
<1>2. UNCHANGED <<guesses, received>>
  BY DEF HandlerStep, AskPassword, CheckPassword, OtherHandler, RunHandler
<1>3. attempts' \in {attempts, attempts + 1, 0}
  BY Zenon DEF HandlerStep, AskPassword, CheckPassword, OtherHandler,
     TryPassword, Authorize
<1>4. GateRest'
  BY <1>0, <1>2, <1>3 DEF GateRest
<1> QED
  BY <1>1, <1>4, Zenon DEF GateTypeOK, GateFlags, GateRest

LEMMA NextTypedBot == TypeOK /\ [Next]_vars => TypeOK'
<1> SUFFICES ASSUME TypeOK, [Next]_vars PROVE TypeOK'
  OBVIOUS
<1> USE DEF TypeOK
<1>a. UNCHANGED lifeVars => LifeTypeOK'
  BY DEF LifeTypeOK, lifeVars, fileVars, processVars
<1>b. UNCHANGED gateVars => GateTypeOK'
  BY DEF GateTypeOK, gateVars
<1>c. UNCHANGED throttleVars => ThrottleTypeOK'
  BY DEF ThrottleTypeOK, throttleVars
<1>1. CASE Receive
  <2>1. PICK s \in Slots, text \in Texts : Send(s, text)
    BY <1>1 DEF Receive
  <2>2. ThrottleTypeOK'
    BY <2>1, RouteTyped, ArriveTyped DEF Send
  <2>3. GateTypeOK'
    BY <2>1, GateAssumption DEF Send, GateTypeOK
  <2> QED
    BY <1>1, <1>a, <2>2, <2>3 DEF Receive
<1>2. ASSUME NEW s \in Slots, Work(s) PROVE TypeOK'
  <2>1. CASE ThrottleStep(s) /\ UNCHANGED gateVars
    BY <1>2, <1>a, <1>b, <2>1, ThrottleStepTyped DEF Work
  <2>2. CASE HandlerStep(s)
    <3>1. ThrottleTypeOK'
      BY <2>2, RunTyped DEF HandlerStep, AskPassword, CheckPassword, OtherHandler
    <3>2. GateTypeOK'
      BY <2>2, HandlerTyped DEF HandlerStep
    <3> QED
      BY <1>2, <1>a, <3>1, <3>2 DEF Work
  <2> QED
    BY <1>2, <2>1, <2>2 DEF Work
<1>3. CASE Time
  <2>1. CASE Tick /\ UNCHANGED gateVars
    <3>1. ThrottleTypeOK'
      BY <2>1, ThrottleAssumption DEF Tick, ThrottleTypeOK, Times
    <3> QED
      BY <1>3, <1>a, <1>b, <2>1, <3>1 DEF Time
  <2>2. CASE WindowMoves
    <3>1. GateTypeOK'
      BY <2>2 DEF WindowMoves, GateTypeOK
    <3> QED
      BY <1>3, <1>a, <1>c, <2>2, <3>1 DEF Time, WindowMoves
  <2> QED
    BY <1>3, <2>1, <2>2 DEF Time
<1>4. CASE Live
  BY <1>4, <1>b, <1>c, GoesOnTyped DEF Live, Untouched
<1>5. CASE Die
  BY <1>5, EndsTyped, ForgetTyped DEF Die
<1>6. CASE UNCHANGED vars
  BY <1>6, <1>a, <1>b, <1>c DEF vars
<1> QED
  BY <1>1, <1>2, <1>3, <1>4, <1>5, <1>6 DEF Next

\* The type invariant of the process and its front door.
THEOREM BotTyped == Spec => []TypeOK
<1>1. Init => TypeOK
  BY InitBotTyped
<1>2. TypeOK /\ [Next]_vars => TypeOK'
  BY NextTypedBot
<1> QED
  BY <1>1, <1>2, PTL DEF Spec

-----------------------------------------------------------------------------
(* The life of the process *)

\* How far main() has come says what there is in the database file, ...
Migrated ==
  /\ phase \notin {"down", "schema"} => executed = Tables
  /\ executed <= made
  /\ phase \notin {"down", "schema", "seed"} => made = Tables /\ rows = SeedRows

\* ... which servers listen, ...
Listening ==
  /\ phase \in {"down", "schema", "seed", "listen"} => servers = {}
  /\ phase \in {"register", "wait", "unregister"} => "site" \in servers
  /\ phase = "drop" /\ mode = "webhook" => "site" \in servers

\* ... and what Telegram has registered.
Registered ==
  /\ mine => phase \in {"wait", "unregister"} /\ registered
  /\ phase \in {"metrics", "delivery", "poll", "cleanup", "stop"} => ~registered

LifeInv == Migrated /\ Listening /\ Registered

LEMMA MigratedGoesOn ==
  ASSUME LifeTypeOK, LifeInv, LifeGoesOn
  PROVE  Migrated'
<1>0. LifeRest /\ Migrated
  BY Zenon DEF LifeTypeOK, LifeRest, LifeInv
<1> USE <1>0, LifecycleAssumption DEF LifeRest, Migrated, fileVars, processVars
<1>1. CASE Start
  BY <1>1 DEF Start
<1>2. CASE CreateTable
  BY <1>2 DEF CreateTable
<1>3. CASE SchemaDone
  BY <1>3 DEF SchemaDone, Goto
<1>4. CASE Seed
  BY <1>4 DEF Seed, Goto
<1>5. CASE Listen \/ DropWebhook \/ SetWebhook \/ ShutdownSeen \/ DeleteWebhook
           \/ StartMetrics \/ StartPolling \/ BothTasksDone
  BY <1>5 DEF Listen, DropWebhook, AfterDrop, SetWebhook, ShutdownSeen,
     DeleteWebhook, StartMetrics, StartPolling, BothTasksDone, Goto
<1>6. CASE SetsShutdown \/ EndsPolling \/ PollingFails
  <2>1. UNCHANGED <<phase, executed, made, rows>>
    BY <1>6, Zenon DEF SetsShutdown, EndsPolling, PollingFails, fileVars, processVars
  <2> QED
    BY <2>1
<1> QED
  BY <1>1, <1>2, <1>3, <1>4, <1>5, <1>6 DEF LifeGoesOn, MainGoesOn

LEMMA ListeningGoesOn ==
  ASSUME LifeTypeOK, LifeInv, LifeGoesOn
  PROVE  Listening'
<1>0. LifeRest /\ Listening
  BY Zenon DEF LifeTypeOK, LifeRest, LifeInv
<1> USE <1>0 DEF LifeRest, Listening, fileVars, processVars
<1>1. CASE Start
  BY <1>1 DEF Start
<1>2. CASE CreateTable \/ SchemaDone \/ Seed
  BY <1>2 DEF CreateTable, SchemaDone, Seed, FirstStep, Goto
<1>3. CASE Listen \/ DropWebhook \/ SetWebhook
  BY <1>3 DEF Listen, DropWebhook, AfterDrop, SetWebhook, Goto
<1>4. CASE ShutdownSeen \/ DeleteWebhook \/ StartMetrics \/ StartPolling \/ BothTasksDone
  BY <1>4 DEF ShutdownSeen, DeleteWebhook, StartMetrics, StartPolling,
     BothTasksDone, Goto
<1>5. CASE SetsShutdown \/ EndsPolling \/ PollingFails
  <2>1. UNCHANGED <<phase, mode, servers>>
    BY <1>5, Zenon DEF SetsShutdown, EndsPolling, PollingFails, processVars
  <2> QED
    BY <2>1
<1> QED
  BY <1>1, <1>2, <1>3, <1>4, <1>5 DEF LifeGoesOn, MainGoesOn

LEMMA RegisteredGoesOn ==
  ASSUME LifeTypeOK, LifeInv, LifeGoesOn
  PROVE  Registered'
<1>0. LifeFlags /\ Registered
  BY Zenon DEF LifeTypeOK, LifeFlags, LifeInv
<1> USE <1>0 DEF LifeFlags, Registered, fileVars, processVars
<1>1. CASE Start \/ CreateTable \/ SchemaDone \/ Seed \/ Listen
  BY <1>1 DEF Start, CreateTable, SchemaDone, Seed, FirstStep, Listen, Goto
<1>2. CASE DropWebhook
  BY <1>2 DEF DropWebhook, AfterDrop, Goto
<1>3. CASE SetWebhook
  BY <1>3 DEF SetWebhook, Goto
<1>4. CASE ShutdownSeen \/ DeleteWebhook
  BY <1>4 DEF ShutdownSeen, DeleteWebhook, Goto
<1>5. CASE StartMetrics \/ StartPolling \/ BothTasksDone
  BY <1>5 DEF StartMetrics, StartPolling, BothTasksDone, Goto
<1>6. CASE SetsShutdown \/ EndsPolling \/ PollingFails
  <2>1. UNCHANGED <<phase, mine, registered>>
    BY <1>6, Zenon DEF SetsShutdown, EndsPolling, PollingFails, processVars
  <2> QED
    BY <2>1
<1> QED
  BY <1>1, <1>2, <1>3, <1>4, <1>5, <1>6 DEF LifeGoesOn, MainGoesOn

\* Dying leaves the file and Telegram as they were, or almost.
LEMMA LifeInvEnds ==
  ASSUME LifeTypeOK, LifeInv, LifeEnds
  PROVE  LifeInv' /\ phase' = "down"
<1>1. Exit
  BY EndsTyped
<1>2. made \in Nat
  BY LifecycleAssumption DEF LifeTypeOK
<1>3. made' = made
  BY DEF LifeEnds, MainEnds, Cleanup, StopPolling, Kill, CallFails, fileVars
<1>4. Migrated'
  BY <1>1, <1>2, <1>3 DEF Exit, Migrated
<1>5. Listening'
  BY <1>1 DEF Exit, Listening
<1>6. Registered'
  BY <1>1, Zenon DEF Exit, Registered
<1> QED
  BY <1>1, <1>4, <1>5, <1>6 DEF LifeInv, Exit

\* Messages are at work only in a process that has seeded its tables.
Quiet ==
  phase \in {"down", "schema", "seed"} => \A s \in Slots : msgs[s] = Idle

LifeBotInv == LifeInv /\ Quiet

LEMMA InitLifeInv == Init => LifeBotInv
<1> SUFFICES ASSUME Init PROVE LifeBotInv
  OBVIOUS
<1>1. Migrated /\ Listening /\ Quiet
  BY LifecycleAssumption
     DEF Init, LifeInit, ThrottleInit, Migrated, Listening, Quiet
<1>2. Registered
  BY Zenon DEF Init, LifeInit, Registered
<1> QED
  BY <1>1, <1>2 DEF LifeBotInv, LifeInv

LEMMA WorkedOn ==
  ASSUME ThrottleTypeOK, NEW s \in Slots, Work(s)
  PROVE  msgs[s] # Idle
  BY DEF Work, ThrottleStep, Drop, Confirm, GetFails, Store, SetFails, HandlerStep,
     AskPassword, CheckPassword, OtherHandler, RunHandler, Idle

LEMMA NextLifeInv == TypeOK /\ LifeBotInv /\ [Next]_vars => LifeBotInv'
<1> SUFFICES ASSUME TypeOK, LifeBotInv, [Next]_vars PROVE LifeBotInv'
  OBVIOUS
<1>0. LifeTypeOK /\ ThrottleTypeOK /\ LifeInv /\ Quiet
  BY DEF TypeOK, LifeBotInv
<1>a. UNCHANGED lifeVars => LifeInv'
  BY <1>0 DEF lifeVars, fileVars, processVars, LifeInv, Migrated, Listening, Registered
<1>1. CASE Receive
  <2>1. phase \notin {"down", "schema", "seed"}
    BY <1>0, <1>1 DEF Receive, Reachable, LifeInv, Listening
  <2> QED
    BY <1>1, <1>a, <2>1 DEF Receive, lifeVars, Quiet, LifeBotInv
<1>2. ASSUME NEW s \in Slots, Work(s) PROVE LifeBotInv'
  <2>1. phase \notin {"down", "schema", "seed"}
    BY <1>0, <1>2, WorkedOn DEF Quiet
  <2> QED
    BY <1>2, <1>a, <2>1 DEF Work, lifeVars, Quiet, LifeBotInv
<1>3. CASE Time \/ UNCHANGED vars
  <2>1. msgs' = msgs /\ UNCHANGED lifeVars
    BY <1>3 DEF Time, Tick, WindowMoves, throttleVars, vars
  <2> QED
    BY <1>0, <1>a, <2>1 DEF lifeVars, Quiet, LifeBotInv
<1>4. CASE Live
  <2>1. LifeInv'
    BY <1>0, <1>4, MigratedGoesOn, ListeningGoesOn, RegisteredGoesOn DEF Live, LifeInv
  <2>2. phase' \in {"down", "schema", "seed"} => phase \in {"down", "schema", "seed"}
    BY <1>4, Zenon
       DEF Live, LifeGoesOn, MainGoesOn, Start, CreateTable, SchemaDone, Seed,
           FirstStep, Listen, DropWebhook, AfterDrop, SetWebhook, ShutdownSeen,
           DeleteWebhook, StartMetrics, StartPolling, BothTasksDone, SetsShutdown,
           EndsPolling, PollingFails, Goto
  <2>3. msgs' = msgs
    BY <1>4 DEF Live, Untouched, throttleVars
  <2> QED
    BY <1>0, <2>1, <2>2, <2>3 DEF Quiet, LifeBotInv
<1>5. CASE Die
  <2>1. LifeInv'
    BY <1>0, <1>5, LifeInvEnds DEF Die
  <2>2. Quiet'
    BY <1>5 DEF Die, ForgetMessages, Quiet
  <2> QED
    BY <2>1, <2>2 DEF LifeBotInv
<1> QED
  BY <1>1, <1>2, <1>3, <1>4, <1>5 DEF Next

LEMMA LifeInvHolds == Spec => [](TypeOK /\ LifeBotInv)
<1>1. Init => TypeOK /\ LifeBotInv
  BY InitBotTyped, InitLifeInv
<1>2. TypeOK /\ LifeBotInv /\ [Next]_vars => (TypeOK /\ LifeBotInv)'
  BY NextTypedBot, NextLifeInv
<1> QED
  BY <1>1, <1>2, PTL DEF Spec

\* Nothing accepts requests or handles a message before the tables are seeded.
THEOREM Seeded == Spec => []ServesSeeded
<1>1. TypeOK /\ LifeBotInv => ServesSeeded
  BY DEF LifeBotInv, LifeInv, Migrated, Listening, Quiet, ServesSeeded
<1> QED
  BY <1>1, LifeInvHolds, PTL

\* A webhook registered by this process leads to a listening server.
THEOREM WebhookServed == Spec => []RegisteredMeansServed
<1>1. TypeOK /\ LifeBotInv => RegisteredMeansServed
  BY Zenon DEF LifeBotInv, LifeInv, Listening, Registered, RegisteredMeansServed
<1> QED
  BY <1>1, LifeInvHolds, PTL

\* No process polls while its token has a webhook.
THEOREM PollingAlone == Spec => []PollsUnregistered
<1>1. TypeOK /\ LifeBotInv => PollsUnregistered
  BY Zenon DEF LifeBotInv, LifeInv, Registered, PollsUnregistered
<1> QED
  BY <1>1, LifeInvHolds, PTL

\* A process that ends without a failure has come through the steps that
\* delete its webhook, or has never set one.
LEMMA EndsUnregistered ==
  ASSUME LifeTypeOK, LifeInv, LifeEnds, registered'
  PROVE  faults' > faults
<1>1. CASE MainEnds
  <2>1. phase \in {"cleanup", "stop"} /\ registered' = registered
    BY <1>1, Zenon DEF MainEnds, Cleanup, StopPolling
  <2>2. ~registered
    BY <2>1, Zenon DEF LifeInv, Registered
  <2> QED
    BY <2>1, <2>2, Zenon
<1>2. CASE Kill \/ CallFails
  <2>1. faults' = faults + 1
    BY <1>2, Zenon DEF Kill, CallFails
  <2>2. faults \in Nat
    BY LifecycleAssumption DEF LifeTypeOK
  <2> QED
    BY <2>1, <2>2
<1> QED
  BY <1>1, <1>2 DEF LifeEnds

\* Only Die leads to "down".
LEMMA OnlyDeathEnds ==
  ASSUME [Next]_vars, phase # "down", phase' = "down"
  PROVE  LifeEnds
<1>1. CASE Live
  <2>1. LifeGoesOn
    BY <1>1 DEF Live
  <2> QED
    BY <2>1, Zenon
       DEF LifeGoesOn, MainGoesOn, Start, CreateTable, SchemaDone, Seed, FirstStep,
           Listen, DropWebhook, AfterDrop, SetWebhook, ShutdownSeen, DeleteWebhook,
           StartMetrics, StartPolling, BothTasksDone, SetsShutdown, EndsPolling,
           PollingFails, Goto
<1>2. CASE UNCHANGED lifeVars
  BY <1>2 DEF lifeVars
<1> QED
  BY <1>1, <1>2 DEF Next, Receive, Work, Time, Die, vars

\* A process that ends by itself leaves no webhook behind.
THEOREM NoneLeftBehind == Spec => LeavesNoWebhook
<1>1. (TypeOK /\ LifeBotInv) /\ [Next]_vars =>
        [phase # "down" /\ phase' = "down" /\ registered' => faults' > faults]_vars
  BY OnlyDeathEnds, EndsUnregistered DEF TypeOK, LifeBotInv
<1> QED
  BY <1>1, LifeInvHolds, PTL DEF Spec, LeavesNoWebhook

-----------------------------------------------------------------------------
(* The throttle *)

\* What Redis has, or is about to have, came from a message let through.
NotAhead ==
  /\ redis # 0 => last # 0 /\ redis <= last
  /\ \A s \in Slots : msgs[s].pc = "set" => last # 0 /\ msgs[s].at <= last

\* As long as Redis is in time and messages come one by one, both caches say
\* when the last message was let through; and again after one that was stored
\* undisturbed.
InStep ==
  tight =>
    /\ local = last
    /\ \A r, s \in Slots : AtRedis(r) /\ AtRedis(s) => r = s
    /\ \A s \in Slots : msgs[s].pc = "set" => msgs[s].at = last
    /\ (\A s \in Slots : msgs[s].pc # "set") => redis = last

ThrottleInv == NotAhead /\ InStep

\* A slot that is not idle holds a message with a time.
LEMMA AtTyped ==
  ASSUME ThrottleTypeOK, NEW s \in Slots, msgs[s].pc # "idle"
  PROVE  msgs[s].at \in Interval..MaxTime /\ msgs[s].at \in Nat
  BY MessageTyped, ThrottleAssumption DEF Message

LEMMA TimesAreNat ==
  ASSUME ThrottleTypeOK
  PROVE  clock \in Nat /\ local \in Nat /\ redis \in Nat /\ last \in Nat /\ Interval \in Nat
  BY ThrottleAssumption DEF ThrottleTypeOK, Times

\* A message let through: `last' is its time or a later one.
LEMMA LetThroughNotAhead ==
  ASSUME ThrottleTypeOK, NotAhead, NEW s \in Slots, NEW h, NEW at \in Interval..MaxTime,
         LetThrough(s, at, h), redis' = redis
  PROVE  NotAhead'
<1>1. at \in Nat /\ at # 0 /\ last \in Nat /\ redis \in Nat
  BY TimesAreNat, ThrottleAssumption
<1>2. last' # 0 /\ at <= last' /\ last <= last' /\ last' \in Nat
  BY <1>1 DEF LetThrough
<1>3. ASSUME NEW r \in Slots, msgs'[r].pc = "set" PROVE msgs'[r].at <= last'
  <2>1. CASE r = s
    BY <1>2, <2>1 DEF LetThrough, ThrottleTypeOK
  <2>2. CASE r # s
    <3>1. msgs'[r] = msgs[r]
      BY <2>2 DEF LetThrough, ThrottleTypeOK
    <3>2. msgs[r].at <= last /\ msgs[r].at \in Nat
      BY <1>3, <3>1, AtTyped DEF NotAhead
    <3> QED
      BY <1>1, <1>2, <3>1, <3>2
  <2> QED
    BY <2>1, <2>2
<1> QED
  BY <1>1, <1>2, <1>3 DEF NotAhead

\* ... and when the message is an interval after `last', it is `last' now.
LEMMA LetThroughInStep ==
  ASSUME ThrottleTypeOK, NEW s \in Slots, NEW h, NEW at \in Interval..MaxTime,
         LetThrough(s, at, h), ~TooSoon(at, last),
         \A r \in Slots : r # s => ~AtRedis(r)
  PROVE  InStep'
<1>1. at \in Nat /\ at # 0 /\ last \in Nat /\ Interval \in Nat \ {0}
  BY TimesAreNat, ThrottleAssumption
<1>2. last' = at /\ local' = at
  BY <1>1 DEF LetThrough, TooSoon
<1>3. /\ msgs'[s].pc = "set"
      /\ msgs'[s].at = at
      /\ \A r \in Slots : r # s => msgs'[r] = msgs[r]
  BY DEF LetThrough, ThrottleTypeOK
<1>4. \A r \in Slots : r # s => msgs'[r].pc \notin {"get", "set"}
  BY <1>3 DEF AtRedis
<1> QED
  BY <1>2, <1>3, <1>4 DEF InStep, AtRedis

\* A slot that leaves Redis, or whose handler goes on.
LEMMA MessageMoves ==
  ASSUME ThrottleTypeOK, NotAhead, NEW s \in Slots, UNCHANGED last,
         redis' = redis \/ (redis' = msgs[s].at /\ msgs[s].pc = "set"),
         \A r \in Slots : r # s => msgs'[r] = msgs[r],
         msgs'[s].pc # "set"
  PROVE  NotAhead'
  BY DEF NotAhead

LEMMA InitThrottleInv == Init => ThrottleInv
  BY DEF Init, ThrottleInit, Idle, ThrottleInv, NotAhead, InStep, AtRedis

LEMMA ArriveInv ==
  ASSUME ThrottleTypeOK, ThrottleInv, NEW s \in Slots, NEW h, Arrive(s, h)
  PROVE  ThrottleInv'
<1>1. clock \in Interval..MaxTime
  BY DEF ThrottleTypeOK
<1>2. /\ NotAhead
      /\ InStep
      /\ redis' = redis
      /\ tight' <=> tight /\ \A r \in Slots : ~AtRedis(r)
  BY DEF ThrottleInv, Arrive
<1>3. CASE TooSoon(clock, local) /\ UNCHANGED <<local, last>>
           /\ msgs' = [msgs EXCEPT ![s] = [pc |-> "get", at |-> clock,
                                           handler |-> h, tries |-> 0]]
  <2>1. msgs'[s].pc = "get" /\ \A r \in Slots : r # s => msgs'[r] = msgs[r]
    BY <1>3 DEF ThrottleTypeOK
  <2>2. NotAhead'
    BY <1>2, <1>3, <2>1, MessageMoves
  <2>3. InStep'
    BY <1>2, <1>3, <2>1 DEF InStep, AtRedis
  <2> QED
    BY <2>2, <2>3 DEF ThrottleInv
<1>4. CASE ~TooSoon(clock, local) /\ LetThrough(s, clock, h)
  <2>1. NotAhead'
    BY <1>1, <1>2, <1>4, LetThroughNotAhead
  <2>2. ASSUME tight' PROVE InStep'
    BY <1>1, <1>2, <1>4, <2>2, LetThroughInStep DEF InStep
  <2>3. ~tight' => InStep'
    BY DEF InStep
  <2> QED
    BY <2>1, <2>2, <2>3 DEF ThrottleInv
<1> QED
  BY <1>3, <1>4 DEF Arrive

LEMMA ThrottleStepInv ==
  ASSUME ThrottleTypeOK, ThrottleInv, NEW s \in Slots, ThrottleStep(s)
  PROVE  ThrottleInv'
<1>0. NotAhead /\ InStep
  BY DEF ThrottleInv
<1>1. msgs[s].at \in Interval..MaxTime /\ AtRedis(s)
  BY AtTyped DEF ThrottleStep, Drop, Confirm, GetFails, Store, SetFails, AtRedis
<1>2. CASE Drop(s)
  <2>1. /\ msgs'[s].pc = "idle"
        /\ msgs[s].pc = "get"
        /\ \A r \in Slots : r # s => msgs'[r] = msgs[r]
        /\ UNCHANGED <<local, redis, last, tight>>
    BY <1>2 DEF Drop, ThrottleTypeOK, Idle
  <2> QED
    BY <1>0, <2>1, MessageMoves DEF InStep, AtRedis, ThrottleInv
<1>3. CASE Confirm(s)
  <2>1. /\ msgs[s].pc = "get"
        /\ redis = 0 \/ ~TooSoon(msgs[s].at, redis)
        /\ LetThrough(s, msgs[s].at, msgs[s].handler)
        /\ UNCHANGED <<redis, tight>>
    BY <1>3 DEF Confirm
  <2>2. NotAhead'
    BY <1>0, <1>1, <2>1, LetThroughNotAhead
  <2>3. ASSUME tight' PROVE InStep'
    <3>1. \A r \in Slots : r # s => ~AtRedis(r)
      BY <1>0, <1>1, <2>1, <2>3 DEF InStep
    <3>2. redis = last
      BY <1>0, <2>1, <2>3, <3>1 DEF InStep, AtRedis
    <3>3. ~TooSoon(msgs[s].at, last)
      BY <1>1, <2>1, <3>2, ThrottleAssumption, TimesAreNat DEF TooSoon
    <3> QED
      BY <1>1, <2>1, <3>1, <3>3, LetThroughInStep
  <2>4. ~tight' => InStep'
    BY DEF InStep
  <2> QED
    BY <2>2, <2>3, <2>4 DEF ThrottleInv
<1>4. CASE GetFails(s)
  <2>1. NotAhead'
    BY <1>0, <1>1, <1>4, LetThroughNotAhead DEF GetFails
  <2> QED
    BY <1>4, <2>1 DEF GetFails, InStep, ThrottleInv
<1>5. CASE Store(s) \/ SetFails(s)
  <2>1. /\ msgs'[s].pc = "run"
        /\ msgs[s].pc = "set"
        /\ \A r \in Slots : r # s => msgs'[r] = msgs[r]
        /\ UNCHANGED <<local, last>>
    BY <1>5 DEF Store, SetFails, Handle, ThrottleTypeOK
  <2>2. NotAhead'
    BY <1>0, <1>5, <2>1, MessageMoves DEF Store, SetFails
  <2>3. InStep'
    <3>1. CASE SetFails(s)
      BY <3>1 DEF SetFails, InStep
    <3>2. CASE Store(s)
      <4>1. redis' = msgs[s].at /\ (tight' <=> Undisturbed(s))
        BY <3>2 DEF Store
      <4> QED
        BY <2>1, <4>1 DEF Undisturbed, InStep, AtRedis
    <3> QED
      BY <1>5, <3>1, <3>2
  <2> QED
    BY <2>2, <2>3 DEF ThrottleInv
<1> QED
  BY <1>2, <1>3, <1>4, <1>5 DEF ThrottleStep

\* Retries and answers of handlers do not touch the throttle.
LEMMA RunInv ==
  ASSUME ThrottleTypeOK, ThrottleInv, NEW s \in Slots, RunHandler(s)
  PROVE  /\ ThrottleInv'
         /\ msgs[s].pc = "run"
         /\ msgs'[s].pc \in {"run", "idle"}
         /\ \A r \in Slots : r # s => msgs'[r] = msgs[r]
<1>1. /\ msgs[s].pc = "run"
      /\ msgs'[s].pc \in {"run", "idle"}
      /\ \A r \in Slots : r # s => msgs'[r] = msgs[r]
  <2>1. msgs[s].pc = "run" /\ msgs[s] \in Message
    BY RunTyped DEF RunHandler
  <2>2. CASE msgs' = [msgs EXCEPT ![s] = Idle]
    BY <2>1, <2>2 DEF ThrottleTypeOK, Idle
  <2>3. CASE msgs' = [msgs EXCEPT ![s].tries = @ + 1]
    BY <2>1, <2>3 DEF ThrottleTypeOK, Message
  <2> QED
    BY <2>1, <2>2, <2>3 DEF RunHandler, AnswerOrRetry
<1>2. UNCHANGED <<local, redis, last, tight>>
  BY DEF RunHandler
<1>3. NotAhead'
  BY <1>1, <1>2, MessageMoves DEF ThrottleInv
<1>4. InStep'
  BY <1>1, <1>2 DEF ThrottleInv, InStep, AtRedis
<1> QED
  BY <1>1, <1>3, <1>4 DEF ThrottleInv

LEMMA NextThrottleInv == TypeOK /\ ThrottleInv /\ [Next]_vars => ThrottleInv'
<1> SUFFICES ASSUME TypeOK, ThrottleInv, [Next]_vars PROVE ThrottleInv'
  OBVIOUS
<1>0. ThrottleTypeOK
  BY DEF TypeOK
<1>a. UNCHANGED <<local, redis, msgs, last, tight>> => ThrottleInv'
  BY DEF ThrottleInv, NotAhead, InStep, AtRedis
<1>1. CASE Receive
  BY <1>0, <1>1, ArriveInv DEF Receive, Send
<1>2. ASSUME NEW s \in Slots, Work(s) PROVE ThrottleInv'
  BY <1>0, <1>2, ThrottleStepInv, RunInv
     DEF Work, HandlerStep, AskPassword, CheckPassword, OtherHandler
<1>3. CASE Time \/ Live \/ UNCHANGED vars
  BY <1>3, <1>a DEF Time, Tick, WindowMoves, Live, Untouched, throttleVars, vars
<1>4. CASE Die
  BY <1>4 DEF Die, ForgetMessages, ThrottleInv, NotAhead, InStep, Idle
<1> QED
  BY <1>1, <1>2, <1>3, <1>4 DEF Next

LEMMA ThrottleInvHolds == Spec => [](TypeOK /\ ThrottleInv)
<1>1. Init => TypeOK /\ ThrottleInv
  BY InitBotTyped, InitThrottleInv
<1>2. TypeOK /\ ThrottleInv /\ [Next]_vars => (TypeOK /\ ThrottleInv)'
  BY NextTypedBot, NextThrottleInv
<1> QED
  BY <1>1, <1>2, PTL DEF Spec

\* Messages are dropped and let through by the throttle's own steps only.
LEMMA WhoDropsOrAdmits ==
  ASSUME TypeOK, [Next]_vars, NEW s \in Slots, Dropped(s) \/ Admitted(s)
  PROVE  \/ \E h : Arrive(s, h) /\ ~TooSoon(clock, local) /\ msgs'[s].at = clock
         \/ /\ Drop(s)
         \/ /\ Confirm(s) \/ GetFails(s)
            /\ msgs'[s].at = msgs[s].at
<1>0. ThrottleTypeOK
  BY DEF TypeOK
<1>1. CASE Receive
  <2>1. PICK r \in Slots, h \in {Route(text) : text \in Texts} : Arrive(r, h)
    BY <1>1 DEF Receive, Send
  <2>2. r = s
    BY <1>0, <2>1 DEF Arrive, LetThrough, ThrottleTypeOK, Dropped, Admitted, Idle
  <2>3. ~TooSoon(clock, local) /\ msgs'[s].at = clock
    BY <1>0, <2>1, <2>2 DEF Arrive, LetThrough, ThrottleTypeOK, Dropped, Admitted, Idle
  <2> QED
    BY <2>1, <2>2, <2>3
<1>2. ASSUME NEW r \in Slots, ThrottleStep(r)
      PROVE  Drop(s) \/ ((Confirm(s) \/ GetFails(s)) /\ msgs'[s].at = msgs[s].at)
  <2>1. CASE Drop(r)
    <3>1. /\ msgs[r].pc = "get"
          /\ msgs'[r].pc = "idle"
          /\ \A t \in Slots : t # r => msgs'[t] = msgs[t]
      BY <1>0, <2>1 DEF Drop, ThrottleTypeOK, Idle
    <3>2. r = s
      BY <3>1 DEF Dropped, Admitted, Idle
    <3> QED
      BY <2>1, <3>2
  <2>2. CASE Confirm(r) \/ GetFails(r)
    BY <1>0, <2>2 DEF Confirm, GetFails, LetThrough, ThrottleTypeOK, Dropped,
       Admitted, Idle
  <2>3. CASE Store(r) \/ SetFails(r)
    BY <1>0, <2>3 DEF Store, SetFails, Handle, ThrottleTypeOK, Dropped, Admitted, Idle
  <2> QED
    BY <1>2, <2>1, <2>2, <2>3 DEF ThrottleStep
<1>3. ASSUME NEW r \in Slots, HandlerStep(r) PROVE FALSE
  <2>1. RunHandler(r)
    BY <1>3 DEF HandlerStep, AskPassword, CheckPassword, OtherHandler
  <2>2. /\ msgs[r].pc = "run"
        /\ msgs'[r].pc \in {"run", "idle"}
        /\ \A t \in Slots : t # r => msgs'[t] = msgs[t]
    <3>1. msgs[r].pc = "run" /\ msgs[r] \in Message
      BY <1>0, <2>1, RunTyped DEF RunHandler
    <3>2. CASE msgs' = [msgs EXCEPT ![r] = Idle]
      BY <1>0, <3>1, <3>2 DEF ThrottleTypeOK, Idle
    <3>3. CASE msgs' = [msgs EXCEPT ![r].tries = @ + 1]
      BY <1>0, <3>1, <3>3 DEF ThrottleTypeOK, Message
    <3> QED
      BY <2>1, <3>1, <3>2, <3>3 DEF RunHandler, AnswerOrRetry
  <2> QED
    BY <2>2 DEF Dropped, Admitted, Idle
<1>4. ASSUME Time \/ Live \/ UNCHANGED vars PROVE FALSE
  <2>1. msgs' = msgs
    BY <1>4 DEF Time, Tick, WindowMoves, Live, Untouched, throttleVars, vars
  <2> QED
    BY <2>1 DEF Dropped, Admitted, Idle
<1>5. ASSUME Die PROVE FALSE
  BY <1>5 DEF Die, ForgetMessages, Dropped, Admitted, Idle
<1> QED
  BY <1>1, <1>2, <1>3, <1>4, <1>5 DEF Next, Work

\* Whoever is dropped has had a message let through within the interval.
THEOREM NobodyLockedOut == Spec => DroppedAfterAnother
<1>1. ASSUME TypeOK /\ ThrottleInv, [Next]_vars
      PROVE  [\A s \in Slots :
                Dropped(s) => last # 0 /\ TooSoon(msgs[s].at, last)]_throttleVars
  <2> SUFFICES ASSUME NEW s \in Slots, Dropped(s)
               PROVE  last # 0 /\ TooSoon(msgs[s].at, last)
    OBVIOUS
  <2>1. ThrottleTypeOK /\ NotAhead
    BY <1>1 DEF TypeOK, ThrottleInv
  <2>2. Drop(s)
    <3>1. msgs[s].pc = "get" /\ msgs'[s].pc = "idle"
      BY DEF Dropped, Idle
    <3>2. ASSUME NEW h PROVE ~Arrive(s, h)
      BY <3>1 DEF Arrive, Idle
    <3>3. ~Confirm(s) /\ ~GetFails(s)
      BY <2>1, <3>1 DEF Confirm, GetFails, LetThrough, ThrottleTypeOK
    <3> QED
      BY <1>1, <3>2, <3>3, WhoDropsOrAdmits
  <2>3. msgs[s].at \in Nat
    BY <2>1, <2>2, AtTyped DEF Drop
  <2> QED
    BY <2>1, <2>2, <2>3, TimesAreNat DEF Drop, TooSoon, NotAhead
<1> QED
  BY <1>1, ThrottleInvHolds, PTL DEF Spec, DroppedAfterAnother

\* The throttle's promise, under the conditions that `tight' remembers.
THEOREM ThrottlePromise == Spec => OneInAnInterval
<1>1. ASSUME TypeOK /\ ThrottleInv, [Next]_vars
      PROVE  [\A s \in Slots :
                Admitted(s) /\ tight' => ~TooSoon(msgs'[s].at, last)]_throttleVars
  <2> SUFFICES ASSUME NEW s \in Slots, Admitted(s), tight'
               PROVE  ~TooSoon(msgs'[s].at, last)
    OBVIOUS
  <2>1. ThrottleTypeOK /\ InStep
    BY <1>1 DEF TypeOK, ThrottleInv
  <2>2. CASE \E h : Arrive(s, h) /\ ~TooSoon(clock, local) /\ msgs'[s].at = clock
    BY <2>1, <2>2 DEF Arrive, InStep
  <2>3. CASE Confirm(s) /\ msgs'[s].at = msgs[s].at
    <3>1. /\ tight
          /\ msgs[s].pc = "get"
          /\ redis = 0 \/ ~TooSoon(msgs[s].at, redis)
      BY <2>3 DEF Confirm
    <3>2. redis = last
      BY <2>1, <3>1 DEF InStep, AtRedis
    <3>3. msgs[s].at \in Interval..MaxTime
      BY <2>1, <3>1, AtTyped
    <3> QED
      BY <2>1, <2>3, <3>1, <3>2, <3>3, ThrottleAssumption, TimesAreNat DEF TooSoon
  <2>4. ~Drop(s)
    <3>1. msgs'[s].pc # "idle"
      BY DEF Admitted
    <3>2. Drop(s) => msgs' = [msgs EXCEPT ![s] = Idle]
      BY Zenon DEF Drop
    <3> QED
      BY <2>1, <3>1, <3>2 DEF Idle, ThrottleTypeOK
  <2>5. ~GetFails(s)
    BY Zenon DEF GetFails
  <2> QED
    BY <1>1, <2>2, <2>3, <2>4, <2>5, WhoDropsOrAdmits
<1> QED
  BY <1>1, ThrottleInvHolds, PTL DEF Spec, OneInAnInterval

-----------------------------------------------------------------------------
(* The gate *)

\* The runs that the wrong passwords at work have left: a message whose handler
\* has failed k times may still start its runs k + 1 to MaxRetries.
RunsLeft ==
  {t \in Slots \X (1..MaxRetries) :
     msgs[t[1]].handler = "wrong" /\ msgs[t[1]].tries < t[2]}

\* A message starts with no try, and every attempt was a run of some guess.
AttemptsInv ==
  /\ \A s \in Slots : AtRedis(s) => msgs[s].tries = 0
  /\ attempts <= Limit
  /\ attempts + Cardinality(RunsLeft) <= MaxRetries * guesses

LEMMA RunsLeftFinite == IsFiniteSet(RunsLeft) /\ Cardinality(RunsLeft) \in Nat
<1>1. IsFiniteSet(Slots \X (1..MaxRetries))
  <2>1. IsFiniteSet(Slots) /\ 1 \in Int /\ MaxRetries \in Int
    BY ThrottleAssumption
  <2>2. IsFiniteSet(1..MaxRetries)
    BY <2>1, FS_Interval
  <2> QED
    BY <2>1, <2>2, FS_Product
<1>2. IsFiniteSet(RunsLeft)
  BY <1>1, FS_Subset DEF RunsLeft
<1> QED
  BY <1>2, FS_CardinalityType

\* The same, of the next state.
LEMMA RunsLeftFinite2 == IsFiniteSet(RunsLeft') /\ Cardinality(RunsLeft') \in Nat
<1>1. IsFiniteSet(Slots \X (1..MaxRetries))
  <2>1. IsFiniteSet(Slots) /\ 1 \in Int /\ MaxRetries \in Int
    BY ThrottleAssumption
  <2>2. IsFiniteSet(1..MaxRetries)
    BY <2>1, FS_Interval
  <2> QED
    BY <2>1, <2>2, FS_Product
<1>2. IsFiniteSet(RunsLeft')
  BY <1>1, FS_Subset DEF RunsLeft
<1> QED
  BY <1>2, FS_CardinalityType

\* A step that gives no message a run more keeps the bound.
LEMMA FewerRuns ==
  ASSUME GateTypeOK, AttemptsInv, RunsLeft' \subseteq RunsLeft,
         attempts' \in Nat, attempts' <= attempts, UNCHANGED guesses
  PROVE  attempts' <= Limit /\ attempts' + Cardinality(RunsLeft') <= MaxRetries * guesses'
<1>1. Cardinality(RunsLeft') <= Cardinality(RunsLeft)
  BY RunsLeftFinite, FS_Subset
<1>2. attempts \in Nat /\ guesses \in Nat /\ Limit \in Nat /\ MaxRetries \in Nat
  BY GateAssumption, ThrottleAssumption DEF GateTypeOK
<1>3. MaxRetries * guesses \in Nat
  BY <1>2
<1> QED
  BY <1>1, <1>2, <1>3, RunsLeftFinite, RunsLeftFinite2 DEF AttemptsInv

LEMMA InitAttempts == Init => AttemptsInv
<1> SUFFICES ASSUME Init PROVE AttemptsInv
  OBVIOUS
<1>1. RunsLeft = {}
  BY DEF Init, ThrottleInit, Idle, RunsLeft
<1>2. attempts = 0 /\ guesses = 0 /\ \A s \in Slots : msgs[s].tries = 0
  BY DEF Init, GateInit, ThrottleInit, Idle
<1> QED
  BY <1>1, <1>2, FS_EmptySet, GateAssumption, ThrottleAssumption DEF AttemptsInv

\* A message that arrives holds no run yet, or all of them.
LEMMA ArriveRuns ==
  ASSUME ThrottleTypeOK, NEW s \in Slots, NEW h, Arrive(s, h)
  PROVE  /\ msgs'[s].tries = 0
         /\ \A r \in Slots : r # s => msgs'[r] = msgs[r]
         /\ h = "wrong" => RunsLeft' = RunsLeft \cup ({s} \X (1..MaxRetries))
         /\ h # "wrong" => RunsLeft' = RunsLeft
<1>1. /\ msgs'[s].tries = 0
      /\ msgs'[s].handler = h
      /\ \A r \in Slots : r # s => msgs'[r] = msgs[r]
  BY DEF Arrive, LetThrough, ThrottleTypeOK
<1>2. msgs[s].handler = "none"
  BY DEF Arrive, Idle
<1> QED
  BY <1>1, <1>2 DEF RunsLeft

LEMMA SendAttempts ==
  ASSUME ThrottleTypeOK, GateTypeOK, AttemptsInv,
         NEW s \in Slots, NEW text \in Texts, Send(s, text)
  PROVE  AttemptsInv'
<1> DEFINE h == Route(text)
<1>0. /\ Arrive(s, h)
      /\ attempts' = attempts
      /\ guesses' = IF h = "wrong" THEN guesses + 1 ELSE guesses
  BY Zenon DEF Send
<1> HIDE DEF h
<1>1. \A r \in Slots : AtRedis(r)' => msgs'[r].tries = 0
  BY <1>0, ArriveRuns DEF AttemptsInv, AtRedis
<1>2. attempts \in Nat /\ guesses \in Nat /\ MaxRetries \in Nat \ {0}
  BY ThrottleAssumption DEF GateTypeOK
<1>3. CASE h # "wrong"
  <2>1. RunsLeft' = RunsLeft /\ guesses' = guesses
    BY <1>0, <1>3, ArriveRuns
  <2> QED
    BY <1>0, <1>1, <2>1 DEF AttemptsInv
<1>4. CASE h = "wrong"
  <2> DEFINE Added == {s} \X (1..MaxRetries)
  <2>1. RunsLeft' = RunsLeft \cup Added /\ guesses' = guesses + 1
    BY <1>0, <1>4, ArriveRuns
  <2>2. IsFiniteSet(Added) /\ Cardinality(Added) = MaxRetries
    <3>1. IsFiniteSet(1..MaxRetries) /\ Cardinality(1..MaxRetries) = MaxRetries
      BY <1>2, FS_Interval
    <3>2. IsFiniteSet({s}) /\ Cardinality({s}) = 1
      BY FS_Singleton
    <3> QED
      BY <1>2, <3>1, <3>2, FS_Product
  <2> HIDE DEF Added
  <2>3. Cardinality(RunsLeft \cap Added) \in Nat
    BY RunsLeftFinite, FS_Intersection, FS_CardinalityType
  <2>4. Cardinality(RunsLeft') <= Cardinality(RunsLeft) + MaxRetries
    <3>1. Cardinality(RunsLeft \cup Added)
            = Cardinality(RunsLeft) + Cardinality(Added) - Cardinality(RunsLeft \cap Added)
      BY <2>2, RunsLeftFinite, FS_Union
    <3> QED
      BY <1>2, <2>1, <2>2, <2>3, <3>1, RunsLeftFinite
  <2>5. MaxRetries * guesses' = MaxRetries * guesses + MaxRetries
    BY <1>2, <2>1
  <2>6. MaxRetries * guesses \in Nat
    BY <1>2
  <2>7. attempts' + Cardinality(RunsLeft') <= MaxRetries * guesses'
    BY <1>0, <1>2, <2>4, <2>5, <2>6, RunsLeftFinite, RunsLeftFinite2 DEF AttemptsInv
  <2> QED
    BY <1>0, <1>1, <2>7 DEF AttemptsInv
<1> QED
  BY <1>3, <1>4

\* The steps at Redis keep a message's handler and its count of tries.
LEMMA ThrottleStepAttempts ==
  ASSUME ThrottleTypeOK, GateTypeOK, AttemptsInv,
         NEW s \in Slots, ThrottleStep(s), UNCHANGED gateVars
  PROVE  AttemptsInv'
<1>1. /\ msgs[s].tries = 0
      /\ \A r \in Slots : r # s => msgs'[r] = msgs[r]
      /\ \/ msgs'[s] = Idle
         \/ msgs'[s].handler = msgs[s].handler /\ msgs'[s].tries = 0
  BY DEF ThrottleStep, Drop, Confirm, GetFails, Store, SetFails, LetThrough, Handle,
     AttemptsInv, AtRedis, ThrottleTypeOK
<1>2. RunsLeft' \subseteq RunsLeft
  BY <1>1 DEF RunsLeft, Idle
<1>3. \A r \in Slots : AtRedis(r)' => msgs'[r].tries = 0
  BY <1>1 DEF AttemptsInv, AtRedis, Idle
<1>4. UNCHANGED <<attempts, guesses>> /\ attempts \in Nat
  BY DEF gateVars, GateTypeOK
<1>5. attempts' <= Limit /\ attempts' + Cardinality(RunsLeft') <= MaxRetries * guesses'
  BY <1>2, <1>4, FewerRuns
<1> QED
  BY <1>3, <1>5 DEF AttemptsInv

\* A run of a handler uses up one of the runs its message had left.
LEMMA RunUsed ==
  ASSUME ThrottleTypeOK, NEW s \in Slots, RunHandler(s)
  PROVE  /\ msgs[s].pc = "run"
         /\ \A r \in Slots : r # s => msgs'[r] = msgs[r]
         /\ ~AtRedis(s)'
         /\ RunsLeft' \subseteq RunsLeft \ {<<s, msgs[s].tries + 1>>}
         /\ msgs[s].handler = "wrong" => <<s, msgs[s].tries + 1>> \in RunsLeft
<1>1. msgs[s].pc = "run" /\ msgs[s] \in Message
  BY RunTyped DEF RunHandler
<1>2. /\ \A r \in Slots : r # s => msgs'[r] = msgs[r]
      /\ \/ msgs'[s] = Idle
         \/ /\ msgs'[s].pc = "run"
            /\ msgs'[s].handler = msgs[s].handler
            /\ msgs'[s].tries = msgs[s].tries + 1
  <2>1. CASE msgs' = [msgs EXCEPT ![s] = Idle]
    BY <2>1 DEF ThrottleTypeOK
  <2>2. CASE msgs' = [msgs EXCEPT ![s].tries = @ + 1]
    BY <1>1, <2>2 DEF ThrottleTypeOK, Message
  <2> QED
    BY <2>1, <2>2 DEF RunHandler, AnswerOrRetry
<1>3. msgs[s].tries \in 0 .. MaxRetries - 1 /\ MaxRetries \in Nat
  BY <1>1, ThrottleAssumption DEF Message
<1>4. msgs[s].handler = "wrong" => <<s, msgs[s].tries + 1>> \in RunsLeft
  BY <1>3 DEF RunsLeft
<1>5. RunsLeft' \subseteq RunsLeft \ {<<s, msgs[s].tries + 1>>}
  BY <1>2, <1>3 DEF RunsLeft, Idle
<1> QED
  BY <1>1, <1>2, <1>4, <1>5 DEF AtRedis, Idle

LEMMA HandlerAttempts ==
  ASSUME ThrottleTypeOK, GateTypeOK, AttemptsInv, NEW s \in Slots, HandlerStep(s)
  PROVE  AttemptsInv'
<1>1. RunHandler(s)
  BY DEF HandlerStep, AskPassword, CheckPassword, OtherHandler
<1>2. \A r \in Slots : AtRedis(r)' => msgs'[r].tries = 0
  BY <1>1, RunUsed DEF AttemptsInv, AtRedis
<1>3. guesses' = guesses /\ guesses \in Nat /\ attempts \in Nat
  <2>1. guesses' = guesses
    BY <1>1, Zenon DEF RunHandler
  <2>2. GateRest
    BY Split
  <2> QED
    BY <2>1, <2>2 DEF GateRest
<1>4. CASE attempts' \in {attempts, 0}
  <2>1. RunsLeft' \subseteq RunsLeft
    BY <1>1, RunUsed
  <2>2. attempts' \in Nat /\ attempts' <= attempts
    BY <1>3, <1>4
  <2> QED
    BY <1>2, <1>3, <2>1, <2>2, FewerRuns DEF AttemptsInv
<1>5. CASE attempts' = attempts + 1 /\ msgs[s].handler = "wrong" /\ ~IsThrottled
  <2> DEFINE run == <<s, msgs[s].tries + 1>>
  <2>1. run \in RunsLeft /\ RunsLeft' \subseteq RunsLeft \ {run}
    BY <1>1, <1>5, RunUsed
  <2> HIDE DEF run
  <2>2. /\ IsFiniteSet(RunsLeft \ {run})
        /\ Cardinality(RunsLeft \ {run}) = Cardinality(RunsLeft) - 1
    BY <2>1, RunsLeftFinite, FS_RemoveElement
  <2>3. Cardinality(RunsLeft') <= Cardinality(RunsLeft) - 1
    BY <2>1, <2>2, FS_Subset
  <2>4. MaxRetries * guesses \in Nat /\ Limit \in Nat
    BY <1>3, ThrottleAssumption, GateAssumption
  <2>5. attempts' <= Limit
    BY <1>3, <1>5, <2>4 DEF IsThrottled
  <2>6. attempts' + Cardinality(RunsLeft') <= MaxRetries * guesses'
    BY <1>3, <1>5, <2>3, <2>4, RunsLeftFinite, RunsLeftFinite2 DEF AttemptsInv
  <2> QED
    BY <1>2, <2>5, <2>6 DEF AttemptsInv
<1>6. \/ attempts' \in {attempts, 0}
      \/ attempts' = attempts + 1 /\ msgs[s].handler = "wrong" /\ ~IsThrottled
  BY Zenon DEF HandlerStep, AskPassword, CheckPassword, OtherHandler,
     TryPassword, Authorize
<1> QED
  BY <1>4, <1>5, <1>6

LEMMA NextAttempts == TypeOK /\ AttemptsInv /\ [Next]_vars => AttemptsInv'
<1> SUFFICES ASSUME TypeOK, AttemptsInv, [Next]_vars PROVE AttemptsInv'
  OBVIOUS
<1>0. ThrottleTypeOK /\ GateTypeOK
  BY DEF TypeOK
<1>1. CASE Receive
  BY <1>0, <1>1, SendAttempts DEF Receive
<1>2. ASSUME NEW s \in Slots, Work(s) PROVE AttemptsInv'
  BY <1>0, <1>2, ThrottleStepAttempts, HandlerAttempts DEF Work
<1>3. CASE (Tick /\ UNCHANGED gateVars) \/ Live \/ UNCHANGED vars
  BY <1>3 DEF Tick, Live, Untouched, vars, throttleVars, gateVars, AttemptsInv,
     RunsLeft, AtRedis
<1>4. CASE WindowMoves
  <2>1. msgs' = msgs /\ guesses' = guesses
    BY <1>4 DEF WindowMoves, throttleVars
  <2>2. attempts' \in Nat /\ attempts' <= attempts
    BY <1>0, <1>4 DEF WindowMoves, GateTypeOK
  <2>3. RunsLeft' \subseteq RunsLeft
    BY <2>1 DEF RunsLeft
  <2> QED
    BY <1>0, <2>1, <2>2, <2>3, FewerRuns DEF AttemptsInv, AtRedis
<1>5. CASE Die
  <2>1. /\ attempts' = 0
        /\ guesses' = 0
        /\ \A s \in Slots : msgs'[s] = Idle
    BY <1>5 DEF Die, ForgetMessages, ForgetGate
  <2>2. RunsLeft' = {}
    BY <2>1 DEF RunsLeft, Idle
  <2> QED
    BY <2>1, <2>2, FS_EmptySet, GateAssumption, ThrottleAssumption
       DEF AttemptsInv, AtRedis, Idle
<1> QED
  BY <1>1, <1>2, <1>3, <1>4, <1>5 DEF Next, Time

\* Neither tasks side by side nor retries bring the attempts over their bounds.
THEOREM GateBounded == Spec => []AttemptsBounded
<1>1. Init => TypeOK /\ AttemptsInv
  BY InitBotTyped, InitAttempts
<1>2. TypeOK /\ AttemptsInv /\ [Next]_vars => (TypeOK /\ AttemptsInv)'
  BY NextTypedBot, NextAttempts
<1>3. TypeOK /\ AttemptsInv => AttemptsBounded
  <2> SUFFICES ASSUME TypeOK, AttemptsInv PROVE AttemptsBounded
    OBVIOUS
  <2>1. attempts \in Nat /\ guesses \in Nat /\ MaxRetries \in Nat
    BY ThrottleAssumption DEF TypeOK, GateTypeOK
  <2>2. MaxRetries * guesses \in Nat
    BY <2>1
  <2> QED
    BY <2>1, <2>2, RunsLeftFinite DEF AttemptsInv, AttemptsBounded
<1> QED
  BY <1>1, <1>2, <1>3, PTL DEF Spec

=============================================================================
