------------------------------ MODULE Throttle ------------------------------
(***************************************************************************)
(* ThrottlingMiddleware (src/core/throttling.py) for the messages of one   *)
(* user: the keys of the local cache and of Redis name the user, so users  *)
(* do not meet.  A message is a task: it asks Redis (get), tells Redis     *)
(* (set) and runs its handler (run), and other messages arrive meanwhile.  *)
(*                                                                         *)
(* Times are whole units of the clock; it starts at Interval, so that the  *)
(* 0.0 of "_local_cache.get(user_id, 0.0)" is long ago for every message.  *)
(***************************************************************************)
EXTENDS Naturals, FiniteSets

CONSTANTS
  Slots,      \* messages that can be at work at once
  Handlers,   \* what the router picks for a message
  Interval,   \* min_interval
  MaxTime,    \* bound: the last value of the clock
  MaxRetries  \* max_retries of the RetryMiddleware

ASSUME ThrottleAssumption ==
  /\ IsFiniteSet(Slots)
  /\ Interval \in Nat \ {0}
  /\ MaxTime \in Nat
  /\ Interval <= MaxTime
  /\ MaxRetries \in Nat \ {0}
  /\ "none" \notin Handlers

VARIABLES
  clock,  \* time.time()
  local,  \* _local_cache[user_id], 0 when there is no entry
  redis,  \* the value of throttle:delivery:<user_id>, 0 when there is none
  msgs,   \* slot -> what the message's task does next, when it came, ...
  last,   \* history variable: the latest time a message was let through
  tight   \* history variable: since a message was last stored undisturbed (or
          \* from the start) Redis has answered every call in time, no message
          \* has come while another was at its get or set, and no restart

throttleVars == <<clock, local, redis, msgs, last, tight>>

Idle == [pc |-> "idle", at |-> 0, handler |-> "none", tries |-> 0]

Message == [pc : {"get", "set", "run"}, at : Interval..MaxTime,
            handler : Handlers, tries : 0 .. MaxRetries - 1]

Times == {0} \cup Interval..MaxTime

ThrottleTypeOK ==
  /\ clock \in Interval..MaxTime
  /\ local \in Times
  /\ redis \in Times
  /\ msgs \in [Slots -> Message \cup {Idle}]
  /\ last \in Times
  /\ tight \in BOOLEAN

ThrottleInit ==
  /\ clock = Interval
  /\ local = 0
  /\ redis = 0
  /\ msgs = [s \in Slots |-> Idle]
  /\ last = 0
  /\ tight = TRUE

Tick ==
  /\ clock < MaxTime
  /\ clock' = clock + 1
  /\ UNCHANGED <<local, redis, msgs, last, tight>>

-----------------------------------------------------------------------------

\* "at - time < min_interval"
TooSoon(at, time) == at < time + Interval

AtRedis(s) == msgs[s].pc \in {"get", "set"}

\* A message of time `at' goes on: the local cache is written at once, the
\* write to Redis is the task's next step.
LetThrough(s, at, handler) ==
  /\ local' = at
  /\ msgs' = [msgs EXCEPT ![s] =
                [pc |-> "set", at |-> at, handler |-> handler, tries |-> 0]]
  /\ last' = IF at > last THEN at ELSE last

\* The part of __call__ before its first await.
Arrive(s, handler) ==
  /\ msgs[s] = Idle
  /\ \/ /\ TooSoon(clock, local)
        /\ msgs' = [msgs EXCEPT ![s] = [pc |-> "get", at |-> clock,
                                        handler |-> handler, tries |-> 0]]
        /\ UNCHANGED <<local, last>>
     \/ /\ ~TooSoon(clock, local)
        /\ LetThrough(s, clock, handler)
  /\ tight' = (tight /\ \A r \in Slots : ~AtRedis(r))
  /\ UNCHANGED <<clock, redis>>

\* Mutant: a message that is dropped writes both caches too, so that a user
\* who keeps sending stays locked out.
DropsAndRemembers(s) ==
  /\ msgs[s].pc = "get"
  /\ redis # 0
  /\ TooSoon(msgs[s].at, redis)
  /\ msgs' = [msgs EXCEPT ![s] = Idle]
  /\ local' = msgs[s].at
  /\ redis' = msgs[s].at
  /\ UNCHANGED <<clock, last, tight>>

\* Redis knows of a message within the interval: return None.
Drop(s) ==
  /\ msgs[s].pc = "get"
  /\ redis # 0
  /\ TooSoon(msgs[s].at, redis)
  /\ msgs' = [msgs EXCEPT ![s] = Idle]
  /\ UNCHANGED <<clock, local, redis, last, tight>>

\* Redis does not: the message was held up by the local cache alone.
Confirm(s) ==
  /\ msgs[s].pc = "get"
  /\ redis = 0 \/ ~TooSoon(msgs[s].at, redis)
  /\ LetThrough(s, msgs[s].at, msgs[s].handler)
  /\ UNCHANGED <<clock, redis, tight>>

\* The get raises, or comes so late that the key has expired (it is set with
\* ex = int(2 * min_interval)): the message goes on.
GetFails(s) ==
  /\ msgs[s].pc = "get"
  /\ LetThrough(s, msgs[s].at, msgs[s].handler)
  /\ tight' = FALSE
  /\ UNCHANGED <<clock, redis>>

\* "return await handler(event, data)"; the time of the message is done with.
Handle(s) ==
  msgs' = [msgs EXCEPT ![s] = [pc |-> "run", at |-> Interval,
                               handler |-> msgs[s].handler, tries |-> 0]]

\* The set of the last message let through finds no other message at Redis,
\* and nothing older in the local cache: what went wrong before is over.
Undisturbed(s) ==
  /\ \A r \in Slots \ {s} : ~AtRedis(r)
  /\ msgs[s].at = last
  /\ local = last

\* Mutant: the time stays in the local cache.
NeverStores(s) ==
  /\ msgs[s].pc = "set"
  /\ tight' = Undisturbed(s)
  /\ Handle(s)
  /\ UNCHANGED <<clock, local, redis, last>>

Store(s) ==
  /\ msgs[s].pc = "set"
  /\ redis' = msgs[s].at
  /\ tight' = Undisturbed(s)
  /\ Handle(s)
  /\ UNCHANGED <<clock, local, last>>

\* The set raises, and the handler runs nevertheless.
SetFails(s) ==
  /\ msgs[s].pc = "set"
  /\ Handle(s)
  /\ tight' = FALSE
  /\ UNCHANGED <<clock, local, redis, last>>

\* The process dies: Redis keeps its key, the local cache is gone.
ForgetMessages ==
  /\ local' = 0
  /\ msgs' = [s \in Slots |-> Idle]
  /\ tight' = FALSE
  /\ UNCHANGED <<clock, redis, last>>

ThrottleStep(s) ==
  Drop(s) \/ Confirm(s) \/ GetFails(s) \/ Store(s) \/ SetFails(s)

-----------------------------------------------------------------------------

\* A step that drops s's message; a dying process forgets local as well.
Dropped(s) == msgs[s].pc = "get" /\ msgs'[s] = Idle /\ local' # 0

\* A step that lets s's message through.
Admitted(s) == msgs[s].pc # "set" /\ msgs'[s].pc = "set"

(***************************************************************************)
(* Whoever is dropped (throttling.py:36) has a message that was let        *)
(* through within the interval, whatever Redis lost and however the two    *)
(* caches disagree: nobody is kept out for messages that were dropped.     *)
(***************************************************************************)
DroppedAfterAnother ==
  [][\A s \in Slots :
       Dropped(s) => last # 0 /\ TooSoon(msgs[s].at, last)]_throttleVars

(***************************************************************************)
(* What the throttle promises (throttling.py:29-44), one message in an     *)
(* interval, it keeps as long as Redis answers in time, the process stays  *)
(* up and no message comes while another is at its get or its set.  When   *)
(* one of these happens the promise is suspended, and no longer than until *)
(* the next message that is stored with no other at Redis: two messages at *)
(* once, a failing Redis or an empty local cache let messages through, and *)
(* leave nothing in the two caches that lets one through later.            *)
(***************************************************************************)
OneInAnInterval ==
  [][\A s \in Slots :
       Admitted(s) /\ tight' => ~TooSoon(msgs'[s].at, last)]_throttleVars

=============================================================================
