-------------------------------- MODULE Gate --------------------------------
(***************************************************************************)
(* The password of the admin panel (src/admin/handlers.py:33-53): one      *)
(* user's messages pass the throttle, and the RetryMiddleware runs their   *)
(* handler again when its answer fails on the network.  The gate is        *)
(* AdminGate of botkit_core; what is known of it is what handlers.py and   *)
(* tests/test_admin_gate_wiring.py ask of it.                              *)
(***************************************************************************)
EXTENDS Throttle

CONSTANTS
  Limit,       \* wrong attempts in a window after which is_throttled is true
  MaxMessages  \* bound: messages that one process receives

ASSUME GateAssumption ==
  /\ Limit \in Nat \ {0}
  /\ MaxMessages \in Nat
  /\ Handlers = {"ask", "right", "wrong", "other"}

VARIABLES
  waiting,   \* the chat's FSM state is AdminAuth.waiting_password
  attempts,  \* wrong attempts in the gate's window
  admin,     \* the gate has authorised the user
  guesses,   \* history variable: wrong passwords that came to this process
  received   \* messages that came to this process, for their bound

gateVars == <<waiting, attempts, admin, guesses, received>>

GateTypeOK ==
  /\ waiting \in BOOLEAN
  /\ attempts \in Nat
  /\ admin \in BOOLEAN
  /\ received \in 0..MaxMessages
  /\ guesses \in 0..received

GateInit ==
  /\ waiting = FALSE
  /\ attempts = 0
  /\ admin = FALSE
  /\ guesses = 0
  /\ received = 0

-----------------------------------------------------------------------------

\* The filters are asked when the update arrives, in front of the throttle:
\* /admin comes first, any other text is a password if the chat waits for one.
Route(text) ==
  IF text = "/admin" THEN "ask" ELSE IF waiting THEN text ELSE "other"

Send(s, text) ==
  /\ Arrive(s, Route(text))
  /\ received < MaxMessages
  /\ received' = received + 1
  /\ guesses' = IF Route(text) = "wrong" THEN guesses + 1 ELSE guesses
  /\ UNCHANGED <<waiting, attempts, admin>>

\* Mutant: one more run than max_retries.
RetriesOnceMore(s) ==
  \/ msgs' = [msgs EXCEPT ![s] = Idle]
  \/ /\ msgs[s].tries < MaxRetries
     /\ msgs' = [msgs EXCEPT ![s].tries = @ + 1]

(***************************************************************************)
(* The handler's answer is sent, or raises what is not retried, or has     *)
(* failed max_retries times; or it fails on the network and the handler    *)
(* runs again from its start.                                              *)
(***************************************************************************)
AnswerOrRetry(s) ==
  \/ msgs' = [msgs EXCEPT ![s] = Idle]
  \/ /\ msgs[s].tries + 1 < MaxRetries
     /\ msgs' = [msgs EXCEPT ![s].tries = @ + 1]

RunHandler(s) ==
  /\ msgs[s].pc = "run"
  /\ AnswerOrRetry(s)
  /\ UNCHANGED <<clock, local, redis, last, tight, guesses, received>>

AskPassword(s) ==
  /\ msgs[s].handler = "ask"
  /\ RunHandler(s)
  /\ waiting' = TRUE
  /\ UNCHANGED <<attempts, admin>>

IsThrottled == attempts >= Limit

\* AdminGate.authorize: a right password makes the user an admin and forgets
\* the attempts, a wrong one is an attempt.
Authorize(handler) ==
  \/ handler = "right" /\ admin' = TRUE /\ attempts' = 0
  \/ handler = "wrong" /\ attempts' = attempts + 1 /\ UNCHANGED admin

\* Mutant: authorize is asked for the right password only while the window has
\* room, for a wrong one always.
CountsBeyondLimit(handler) ==
  \/ IsThrottled /\ handler = "right" /\ UNCHANGED <<attempts, admin>>
  \/ ~IsThrottled /\ Authorize(handler)
  \/ IsThrottled /\ handler = "wrong" /\ Authorize(handler)

\* is_throttled, then authorize: no await stands between them.
TryPassword(handler) ==
  \/ IsThrottled /\ UNCHANGED <<attempts, admin>>
  \/ ~IsThrottled /\ Authorize(handler)

CheckPassword(s) ==
  /\ msgs[s].handler \in {"right", "wrong"}
  /\ RunHandler(s)
  /\ waiting' = FALSE
  /\ TryPassword(msgs[s].handler)

\* A message that is nothing to this router.
OtherHandler(s) ==
  /\ msgs[s].handler = "other"
  /\ RunHandler(s)
  /\ UNCHANGED <<waiting, attempts, admin>>

\* Old attempts leave the window.
WindowMoves ==
  /\ \E n \in 0 .. attempts : n < attempts /\ attempts' = n
  /\ UNCHANGED <<throttleVars, waiting, admin, guesses, received>>

\* MemoryStorage and the gate die with the process.
ForgetGate ==
  /\ waiting' = FALSE
  /\ attempts' = 0
  /\ admin' = FALSE
  /\ guesses' = 0
  /\ received' = 0

HandlerStep(s) == AskPassword(s) \/ CheckPassword(s) \/ OtherHandler(s)

-----------------------------------------------------------------------------

(***************************************************************************)
(* Two tasks may check a password side by side, and still the attempts     *)
(* never exceed the limit (handlers.py:40-48); and they are no more than   *)
(* the runs the RetryMiddleware gives the passwords that came              *)
(* (errors.py:49-66): a wrong password whose answer fails is counted again *)
(* by each retry, so that Limit / MaxRetries messages can fill the window. *)
(***************************************************************************)
AttemptsBounded ==
  /\ attempts <= Limit
  /\ attempts <= MaxRetries * guesses

=============================================================================
