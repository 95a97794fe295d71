---------------------------- MODULE DialogProofs ----------------------------
(***************************************************************************)
(* What no interleaving of the dialog's handlers can do, for any number of *)
(* updates in flight, texts, retries and faults.                           *)
(***************************************************************************)
EXTENDS Dialog, FiniteSetTheorems, SequenceTheorems, TLAPS

-----------------------------------------------------------------------------
(* Types *)

Tasks == MessageTask \cup ConfirmTask \cup {Idle}

\* The pc of a task tells which kind of task it is.
LEMMA MessageAtWork ==
  ASSUME NEW x \in Tasks, x.pc \in {"run", "statuses"}
  PROVE  x \in MessageTask
BY DEF Tasks, MessageTask, ConfirmTask, Idle

LEMMA ConfirmAtWork ==
  ASSUME NEW x \in Tasks, x.pc \in {"create", "clear"}
  PROVE  x \in ConfirmTask
BY DEF Tasks, MessageTask, ConfirmTask, Idle

LEMMA MessageMoves ==
  ASSUME NEW x \in MessageTask, NEW p \in {"run", "statuses"}
  PROVE  [x EXCEPT !.pc = p] \in MessageTask
BY DEF MessageTask

LEMMA ConfirmMoves ==
  ASSUME NEW x \in ConfirmTask, NEW p \in {"create", "clear"}
  PROVE  [x EXCEPT !.pc = p] \in ConfirmTask
BY DEF ConfirmTask

\* Updates stay well typed when one of them is given a well-typed task.
LEMMA UpdatesTyped ==
  ASSUME updates \in [Updates -> Tasks], NEW t \in Updates, NEW x \in Tasks,
         updates' = [updates EXCEPT ![t] = x]
  PROVE  updates' \in [Updates -> Tasks]
OBVIOUS

LEMMA AnswerTyped ==
  ASSUME TypeOK, NEW t \in Updates, Answer(t),
         updates[t].pc \in {"run", "statuses"}
  PROVE  updates' \in [Updates -> Tasks] /\ faults' \in 0 .. MaxFaults
<1> USE DialogAssumption
<1>1. updates \in [Updates -> Tasks] /\ updates[t] \in MessageTask
  BY MessageAtWork DEF TypeOK, Tasks
<1>2. faults' \in 0 .. MaxFaults
  BY DEF Answer, Fault, TypeOK
<1>3. CASE updates' = [updates EXCEPT ![t] = Idle]
  BY <1>1, <1>2, <1>3 DEF Tasks
<1>4. CASE /\ updates[t].tries + 1 < MaxRetries
           /\ updates' = [updates EXCEPT ![t].pc = "run", ![t].tries = @ + 1]
  <2>1. \A k \in 0 .. MaxRetries - 1 :
          [updates[t] EXCEPT !.pc = "run", !.tries = k] \in MessageTask
    BY <1>1 DEF MessageTask
  <2>2. updates[t].tries + 1 \in 0 .. MaxRetries - 1
    BY <1>1, <1>4 DEF MessageTask
  <2>3. PICK k : k = updates[t].tries + 1
    OBVIOUS
  <2>4. updates' = [updates EXCEPT
                      ![t] = [updates[t] EXCEPT !.pc = "run", !.tries = k]]
    BY <1>1, <1>4, <2>3
  <2>5. [updates[t] EXCEPT !.pc = "run", !.tries = k] \in Tasks
    BY <2>1, <2>2, <2>3 DEF Tasks
  <2> QED
    BY <1>1, <1>2, <2>4, <2>5
<1> QED
  BY <1>3, <1>4 DEF Answer

\* The data of the chat stay well typed when a field is filled.
LEMMA DataTyped ==
  ASSUME NEW d \in Data, NEW w \in Field, NEW s \in Statuses
  PROVE  /\ [d EXCEPT !.number = w] \in Data
         /\ [d EXCEPT !.client = w] \in Data
         /\ [d EXCEPT !.title = w] \in Data
         /\ [d EXCEPT !.status = s] \in Data
         /\ Card(d) \in [number : Field, client : Field, title : Field]
         /\ NoData \in Data
BY DEF Data, Field, Card, NoData

LEMMA RouteTyped ==
  ASSUME NEW text \in Texts, state \in States, Route(text) # "none"
  PROVE  /\ Route(text) \in Handlers
         /\ Route(text) \in Entering => text \in Words
BY DEF Route, Texts, Commands, Handlers, Opening, Closing, Entering, States

LEMMA WorkTyped ==
  ASSUME TypeOK, NEW t \in Updates, Work(t)
  PROVE  TypeOK'
<1> USE DialogAssumption
<1> USE DEF TypeOK
<1>1. updates \in [Updates -> Tasks] /\ updates[t] \in Tasks /\ Idle \in Tasks
  BY DEF Tasks
<1>2. TypeOK' <=> /\ state' \in States
                  /\ data' \in Data
                  /\ updates' \in [Updates -> Tasks]
                  /\ cards' \subseteq [number : Field, client : Field, title : Field]
                  /\ created' \in Seq(Data)
                  /\ faults' \in 0 .. MaxFaults
  BY DEF Tasks
<1>3. Clear => state' \in States /\ data' \in Data
  BY DataTyped DEF Clear, States, NoData, Data, Field
<1>4. CASE Throttle(t)
  BY <1>1, <1>2, <1>4 DEF Throttle
<1>5. CASE Open(t)
  BY <1>2, <1>5, AnswerTyped DEF Open, Opening, States
<1>6. CASE Close(t)
  BY <1>2, <1>3, <1>6, AnswerTyped DEF Close
<1>7. CASE CheckOrder(t)
  BY <1>2, <1>3, <1>7, AnswerTyped DEF CheckOrder
<1>8. ASSUME updates[t].pc = "run", updates[t].handler \in Entering
      PROVE  updates[t] \in MessageTask /\ updates[t].text \in Field
  BY <1>1, <1>8, MessageAtWork DEF MessageTask, Field
<1>9. CASE EnterNumber(t)
  BY <1>2, <1>8, <1>9, AnswerTyped, DataTyped DEF EnterNumber, States, Entering
<1>10. CASE EnterClient(t)
  BY <1>2, <1>8, <1>10, AnswerTyped, DataTyped DEF EnterClient, States, Entering
<1>11. CASE EnterTitle(t)
  <2>1. updates[t] \in MessageTask /\ updates[t].text \in Field
    BY <1>8, <1>11 DEF EnterTitle, Entering
  <2>2. [updates[t] EXCEPT !.pc = "statuses"] \in Tasks
    BY <2>1, MessageMoves DEF Tasks
  <2> QED
    BY <1>1, <1>2, <1>11, <2>1, <2>2, DataTyped DEF EnterTitle
<1>12. CASE OfferStatuses(t)
  BY <1>2, <1>12, AnswerTyped DEF OfferStatuses, States
<1>13. CASE InsertOrder(t)
  <2>1. updates[t] \in ConfirmTask
    BY <1>1, <1>13, ConfirmAtWork DEF InsertOrder
  <2>2. [updates[t] EXCEPT !.pc = "clear"] \in Tasks /\ updates[t].data \in Data
    BY <2>1, ConfirmMoves DEF Tasks, ConfirmTask
  <2>3. updates' \in [Updates -> Tasks]
    BY <1>1, <1>13, <2>2 DEF InsertOrder
  <2>4. Append(created, updates[t].data) \in Seq(Data)
    BY <2>2
  <2>5. created' \in Seq(Data)
    BY <1>13, <2>4 DEF InsertOrder
  <2> QED
    BY <1>2, <1>13, <2>3, <2>5 DEF InsertOrder
<1>14. CASE EndDialog(t)
  BY <1>1, <1>2, <1>3, <1>14 DEF EndDialog
<1> QED
  BY <1>4, <1>5, <1>6, <1>7, <1>9, <1>10, <1>11, <1>12, <1>13, <1>14 DEF Work

\* The variables hold what their comments say, whatever interleaves.
THEOREM DialogTyped == Spec => []TypeOK
<1> USE DialogAssumption
<1>1. Init => TypeOK
  BY DEF Init, TypeOK, States, NoData, Data, Field
<1>2. TypeOK /\ [Next]_vars => TypeOK'
  <2> SUFFICES ASSUME TypeOK, [Next]_vars PROVE TypeOK'
    OBVIOUS
  <2> USE DEF TypeOK
  <2>1. updates \in [Updates -> Tasks] /\ Idle \in Tasks
    BY DEF Tasks
  <2>2. ASSUME NEW t \in Updates, NEW text \in Texts, Receive(t, text)
        PROVE  TypeOK'
    <3>1. [pc |-> "run", handler |-> Route(text), text |-> text,
           tries |-> 0] \in Tasks
      BY <2>2, RouteTyped DEF Receive, Tasks, MessageTask
    <3> QED
      BY <2>1, <2>2, <3>1 DEF Receive, Tasks
  <2>3. ASSUME NEW t \in Updates, TapCreate(t)
        PROVE  TypeOK'
    <3>1. [pc |-> "create", data |-> data] \in Tasks
      BY DEF Tasks, ConfirmTask
    <3> QED
      BY <2>1, <2>3, <3>1 DEF TapCreate, Tasks
  <2>4. ASSUME NEW t \in Updates, FailDb(t)
        PROVE  TypeOK'
    BY <2>1, <2>4 DEF FailDb, Fault, Tasks
  <2>5. ASSUME NEW s \in Statuses, ChooseStatus(s)
        PROVE  TypeOK'
    <3> DEFINE d == [data EXCEPT !.status = s]
    <3>1. d \in Data
      BY DataTyped DEF Field
    <3>2. Card(d) \in [number : Field, client : Field, title : Field]
      BY <3>1, DataTyped DEF Field
    <3>3. /\ data' = d
          /\ state' = "confirming"
          /\ cards' = cards \cup {Card(d)}
          /\ UNCHANGED <<updates, created, faults>>
      BY <2>5 DEF ChooseStatus
    <3> HIDE DEF d
    <3> QED
      BY <3>1, <3>2, <3>3 DEF States
  <2>6. Clear => state' \in States /\ data' \in Data
    BY DataTyped DEF Clear, States, NoData, Data, Field
  <2>7. CASE TapCancel
    BY <2>6, <2>7 DEF TapCancel
  <2>8. CASE Crash
    BY <2>6, <2>8 DEF Crash, Fault
  <2>9. CASE UNCHANGED vars
    BY <2>9 DEF vars
  <2> QED
    BY <2>2, <2>3, <2>4, <2>5, <2>7, <2>8, <2>9, WorkTyped DEF Next
<1> QED
  BY <1>1, <1>2, PTL DEF Spec

-----------------------------------------------------------------------------
(* What is created *)

\* The data name a number and a client that stood on one card, and a status.
Confirmable(d) ==
  /\ d.status \in Statuses
  /\ \E c \in cards : c.number = d.number /\ c.client = d.client

(***************************************************************************)
(* Only choose_status moves the chat to "confirming", in the step that     *)
(* stores the status and composes the card; every handler that stores a    *)
(* number or a client moves it elsewhere in the same step; and a tap keeps *)
(* the data it has read.                                                   *)
(***************************************************************************)
ConfirmInv ==
  /\ state = "confirming" => Confirmable(data)
  /\ \A t \in Updates : updates[t].pc = "create" => Confirmable(updates[t].data)
  /\ \A i \in 1 .. Len(created) : Confirmable(created[i])

\* How a step brings the chat to "confirming", and what it leaves of it.
LEMMA ConfirmingStep ==
  ASSUME TypeOK, ConfirmInv, [Next]_vars, state' = "confirming"
  PROVE  Confirmable(data)'
<1> USE DEF TypeOK
<1>1. cards \subseteq cards'
  BY DEF Next, vars, Work, Receive, Throttle, Open, Close, CheckOrder, EnterNumber,
     EnterClient, EnterTitle, OfferStatuses, InsertOrder, EndDialog, ChooseStatus,
     TapCreate, TapCancel, FailDb, Crash
<1>2. CASE \E s \in Statuses : ChooseStatus(s)
  <2>1. PICK s \in Statuses : ChooseStatus(s)
    BY <1>2
  <2>2. [data EXCEPT !.status = s].status = s
    BY DEF Data
  <2> QED
    BY <2>1, <2>2 DEF ChooseStatus, Confirmable, Card
<1>3. CASE \E t \in Updates : EnterTitle(t)
  <2>1. /\ data'.number = data.number
        /\ data'.client = data.client
        /\ data'.status = data.status
        /\ state = "confirming"
    BY <1>3 DEF EnterTitle, Data
  <2> QED
    BY <1>1, <2>1 DEF ConfirmInv, Confirmable
<1>4. CASE UNCHANGED <<state, data>>
  BY <1>1, <1>4 DEF ConfirmInv, Confirmable
<1>5. ~Clear
  BY DEF Clear
<1>6. ASSUME NEW t \in Updates, Work(t)
      PROVE  UNCHANGED <<state, data>> \/ EnterTitle(t)
  BY <1>5, <1>6 DEF Work, Throttle, Open, Opening, Close, CheckOrder, EnterNumber,
     EnterClient, OfferStatuses, InsertOrder, EndDialog
<1> QED
  BY <1>2, <1>3, <1>4, <1>5, <1>6 DEF Next, vars, Receive, TapCreate, TapCancel,
     FailDb, Crash

\* A tap about to insert has just read the data, or waits with what it read.
LEMMA TapStep ==
  ASSUME TypeOK, [Next]_vars, NEW t \in Updates, updates'[t].pc = "create"
  PROVE  \/ updates'[t] = updates[t]
         \/ state = "confirming" /\ updates'[t].data = data
<1> USE DEF TypeOK
<1>1. CASE \E u \in Updates : TapCreate(u)
  BY <1>1 DEF TapCreate
<1>2. ASSUME NEW u \in Updates, Answer(u)
      PROVE  updates'[t] = updates[t]
  BY <1>2 DEF Answer, Idle, MessageTask, ConfirmTask
<1>3. ASSUME NEW u \in Updates, Throttle(u) \/ EnterTitle(u) \/ InsertOrder(u)
      PROVE  updates'[t] = updates[t]
  <2>1. updates[u] \in MessageTask \cup ConfirmTask \cup {Idle}
    OBVIOUS
  <2> QED
    BY <1>3, <2>1 DEF Throttle, EnterTitle, InsertOrder, Idle, MessageTask, ConfirmTask
<1>4. ASSUME NEW u \in Updates, EndDialog(u) \/ FailDb(u)
      PROVE  updates'[t] = updates[t]
  BY <1>4 DEF EndDialog, FailDb, Idle
<1>5. ASSUME NEW u \in Updates, Work(u)
      PROVE  updates'[t] = updates[t]
  BY <1>2, <1>3, <1>4, <1>5 DEF Work, Open, Close, CheckOrder, EnterNumber,
     EnterClient, OfferStatuses
<1>6. ASSUME NEW u \in Updates, NEW text \in Texts, Receive(u, text)
      PROVE  updates'[t] = updates[t]
  BY <1>6 DEF Receive
<1>7. CASE Crash
  BY <1>7 DEF Crash, Idle
<1>8. CASE UNCHANGED updates
  BY <1>8
<1>9. \/ UNCHANGED updates
      \/ \E u \in Updates : Work(u) \/ TapCreate(u) \/ FailDb(u)
      \/ \E u \in Updates, text \in Texts : Receive(u, text)
      \/ Crash
  BY DEF Next, vars, ChooseStatus, TapCancel
<1> QED
  BY <1>1, <1>4, <1>5, <1>6, <1>7, <1>8, <1>9

\* A row is inserted by a tap, with the data the tap has read.
LEMMA InsertStep ==
  ASSUME TypeOK, [Next]_vars
  PROVE  \/ UNCHANGED created
         \/ \E t \in Updates :
              /\ updates[t].pc = "create"
              /\ ~Taken(updates[t].data.number)
              /\ created' = Append(created, updates[t].data)
              /\ UNCHANGED cards
BY DEF Next, vars, Work, Receive, Throttle, Open, Close, CheckOrder, EnterNumber,
   EnterClient, EnterTitle, OfferStatuses, InsertOrder, EndDialog, ChooseStatus,
   TapCreate, TapCancel, FailDb, Crash

LEMMA ConfirmStep ==
  ASSUME TypeOK, ConfirmInv, [Next]_vars
  PROVE  ConfirmInv'
<1> USE DEF TypeOK
<1>1. cards \subseteq cards'
  BY DEF Next, vars, Work, Receive, Throttle, Open, Close, CheckOrder, EnterNumber,
     EnterClient, EnterTitle, OfferStatuses, InsertOrder, EndDialog, ChooseStatus,
     TapCreate, TapCancel, FailDb, Crash
<1>2. ASSUME NEW d, Confirmable(d)
      PROVE  /\ d.status \in Statuses
             /\ \E c \in cards' : c.number = d.number /\ c.client = d.client
  BY <1>1, <1>2 DEF Confirmable
<1>3. (state = "confirming" => Confirmable(data))'
  BY ConfirmingStep
<1>4. ASSUME NEW t \in Updates, updates'[t].pc = "create"
      PROVE  Confirmable(updates[t].data)'
  <2>1. CASE updates'[t] = updates[t]
    BY <1>2, <1>4, <2>1 DEF ConfirmInv, Confirmable
  <2>2. CASE state = "confirming" /\ updates'[t].data = data
    BY <1>2, <2>2 DEF ConfirmInv, Confirmable
  <2> QED
    BY <1>4, <2>1, <2>2, TapStep
<1>5. ASSUME NEW i \in 1 .. Len(created')
      PROVE  Confirmable(created[i])'
  <2>1. CASE UNCHANGED created
    BY <1>2, <1>5, <2>1 DEF ConfirmInv, Confirmable
  <2>2. ASSUME NEW t \in Updates, updates[t].pc = "create",
               created' = Append(created, updates[t].data)
        PROVE  Confirmable(created[i])'
    <3>1. created'[i] = updates[t].data
          \/ (i \in 1 .. Len(created) /\ created'[i] = created[i])
      BY <1>5, <2>2
    <3>2. Confirmable(updates[t].data)
      BY <2>2 DEF ConfirmInv
    <3>3. \A j \in 1 .. Len(created) : Confirmable(created[j])
      BY DEF ConfirmInv
    <3> QED
      BY <1>2, <3>1, <3>2, <3>3 DEF Confirmable
  <2> QED
    BY <2>1, <2>2, InsertStep
<1> QED
  BY <1>3, <1>4, <1>5 DEF ConfirmInv

THEOREM ConfirmCorrect == Spec => []ConfirmInv
<1>1. Init => ConfirmInv
  BY DEF Init, ConfirmInv, Idle
<1>2. TypeOK /\ ConfirmInv /\ [Next]_vars => ConfirmInv'
  BY ConfirmStep
<1> QED
  BY <1>1, <1>2, DialogTyped, PTL DEF Spec

\* No order is created without a status its admin chose
\* (admin/handlers.py:88-129).
THEOREM StatusAlwaysChosen == Spec => []CreatedWithStatus
<1>1. ConfirmInv => CreatedWithStatus
  BY DEF ConfirmInv, Confirmable, CreatedWithStatus, Orders
<1> QED
  BY <1>1, ConfirmCorrect, PTL

\* The number and the client of every order created stood together on a card
\* the bot sent (admin/handlers.py:108-116).
THEOREM CardAlwaysSent == Spec => []CreatedFromACard
<1>1. ConfirmInv => CreatedFromACard
  BY DEF ConfirmInv, Confirmable, CreatedFromACard, Orders
<1> QED
  BY <1>1, ConfirmCorrect, PTL

-----------------------------------------------------------------------------
(* How many are created *)

CountInv == NumbersDiffer /\ IsFiniteSet(cards)

LEMMA CountCorrect == Spec => []CountInv
<1>1. Init => CountInv
  BY FS_EmptySet DEF Init, CountInv, NumbersDiffer
<1>2. TypeOK /\ NumbersDiffer /\ [Next]_vars => NumbersDiffer'
  <2> SUFFICES ASSUME TypeOK, NumbersDiffer, [Next]_vars
               PROVE  NumbersDiffer'
    OBVIOUS
  <2>1. CASE UNCHANGED created
    BY <2>1 DEF NumbersDiffer
  <2>2. ASSUME NEW t \in Updates, ~Taken(updates[t].data.number),
               created' = Append(created, updates[t].data)
        PROVE  NumbersDiffer'
    <3>1. /\ Len(created') = Len(created) + 1
          /\ \A i \in 1 .. Len(created) : created'[i] = created[i]
          /\ created'[Len(created) + 1] = updates[t].data
          /\ Len(created) \in Nat
      BY <2>2 DEF TypeOK
    <3>2. \A i \in 1 .. Len(created) : created[i].number # updates[t].data.number
      BY <2>2 DEF Taken
    <3> QED
      BY <3>1, <3>2 DEF NumbersDiffer
  <2> QED
    BY <2>1, <2>2, InsertStep
<1>3. IsFiniteSet(cards) /\ [Next]_vars => IsFiniteSet(cards')
  <2>1. [Next]_vars => UNCHANGED cards \/ \E c : cards' = cards \cup {c}
    BY DEF Next, vars, Work, Receive, Throttle, Open, Close, CheckOrder, EnterNumber,
       EnterClient, EnterTitle, OfferStatuses, InsertOrder, EndDialog, ChooseStatus,
       TapCreate, TapCancel, FailDb, Crash
  <2> QED
    BY <2>1, FS_AddElement
<1>4. TypeOK /\ CountInv /\ [Next]_vars => CountInv'
  BY <1>2, <1>3 DEF CountInv
<1> QED
  BY <1>1, <1>4, DialogTyped, PTL DEF Spec

LEMMA CountTo ==
  ASSUME NEW n \in Nat
  PROVE  IsFiniteSet(1 .. n) /\ Cardinality(1 .. n) = n
<1>1. 1 \in Int /\ n \in Int
  OBVIOUS
<1>2. IsFiniteSet(1 .. n) /\ Cardinality(1 .. n) = IF 1 > n THEN 0 ELSE n - 1 + 1
  BY <1>1, FS_Interval
<1> QED
  BY <1>2

\* There are never more orders than different cards that asked for them, for
\* any number of taps on "create" in flight (admin/handlers.py:119-134).
THEOREM OneCardOneOrder == Spec => []OneOrderPerCard
<1>1. TypeOK /\ CountInv /\ ConfirmInv => OneOrderPerCard
  <2> SUFFICES ASSUME TypeOK, CountInv, ConfirmInv,
                      Cardinality(cards) < Len(created)
               PROVE  FALSE
    BY FS_CardinalityType DEF OneOrderPerCard, CountInv, TypeOK
  <2> DEFINE S == 1 .. Len(created)
             f == [i \in S |-> CHOOSE c \in cards : c.number = created[i].number]
  <2>1. Len(created) \in Nat
    BY DEF TypeOK
  <2>2. \A i \in S : \E c \in cards : c.number = created[i].number
    BY DEF ConfirmInv, Confirmable
  <2>3. \A i \in S : f[i] \in cards /\ f[i].number = created[i].number
    BY <2>2
  <2>4. f \in [S -> cards]
    BY <2>3
  <2>5. IsFiniteSet(S) /\ Cardinality(S) = Len(created)
    BY <2>1, CountTo
  <2> HIDE DEF f, S
  <2>6. PICK i, j \in S : i # j /\ f[i] = f[j]
    BY <2>4, <2>5, FS_PigeonHole DEF CountInv
  <2>7. created[i].number = created[j].number
    BY <2>3, <2>6
  <2> QED
    BY <2>6, <2>7 DEF CountInv, NumbersDiffer, S
<1> QED
  BY <1>1, DialogTyped, CountCorrect, ConfirmCorrect, PTL

-----------------------------------------------------------------------------
(* The promise *)

LEMMA RowTyped ==
  ASSUME NEW d \in Data
  PROVE  /\ RowOf(d) \in [number : Field, client : Field, status : Statuses \cup {Blank}]
         /\ RowOf(d).number = d.number
  BY DEF RowOf, Data

\* A row more in the table is a row more on the desk.
LEMMA PlacedGrows ==
  ASSUME created \in Seq(Data), NEW d \in Data, created' = Append(created, d)
  PROVE  Placed' = Append(Placed, RowOf(d))
<1> DEFINE n == Len(created)
           Row == [number : Field, client : Field, status : Statuses \cup {Blank}]
           placed == Placed'
<1>1. /\ n \in Nat
      /\ Len(created') = n + 1
      /\ \A i \in 1 .. n : created'[i] = created[i] /\ created[i] \in Data
      /\ created'[n + 1] = d
  OBVIOUS
<1>2. Placed = [i \in 1 .. n |-> RowOf(created[i])]
  BY DEF Placed
<1>3. placed = [i \in 1 .. n + 1 |-> RowOf(created'[i])]
  BY <1>1 DEF Placed
<1> HIDE DEF n, placed
<1>4. Placed \in Seq(Row) /\ Len(Placed) = n
  BY <1>1, <1>2, RowTyped
<1>5. \A i \in 1 .. n + 1 : created'[i] \in Data
  BY <1>1
<1>6. placed \in Seq(Row) /\ Len(placed) = n + 1
  BY <1>1, <1>3, <1>5, RowTyped
<1>7. (\A i \in 1 .. n : placed[i] = Placed[i]) /\ placed[n + 1] = RowOf(d)
  BY <1>1, <1>2, <1>3
<1>8. RowOf(d) \in Row
  BY RowTyped
<1>9. /\ Append(Placed, RowOf(d)) \in Seq(Row)
      /\ Len(Append(Placed, RowOf(d))) = n + 1
      /\ \A i \in 1 .. n : Append(Placed, RowOf(d))[i] = Placed[i]
      /\ Append(Placed, RowOf(d))[n + 1] = RowOf(d)
  BY <1>4, <1>8, AppendProperties
<1>10. \A i \in 1 .. n + 1 : placed[i] = Append(Placed, RowOf(d))[i]
  BY <1>1, <1>7, <1>9
<1>11. placed = Append(Placed, RowOf(d))
  BY <1>6, <1>9, <1>10, SeqEqual
<1> QED
  BY <1>11 DEF placed

\* A row that a tap inserts is an order that a card has asked about.
LEMMA InsertPlaces ==
  ASSUME TypeOK, ConfirmInv, NEW t \in Updates, updates[t].pc = "create",
         ~Taken(updates[t].data.number), UNCHANGED cards,
         created' = Append(created, updates[t].data)
  PROVE  Promise!Next
<1> DEFINE d == updates[t].data
<1>1. d \in Data
  BY ConfirmAtWork DEF TypeOK, Tasks, ConfirmTask
<1>2. Confirmable(d)
  BY DEF ConfirmInv
<1> HIDE DEF d
<1>3. PICK c \in cards : c.number = d.number /\ c.client = d.client
  BY <1>2 DEF Confirmable
<1>4. AskOf(c) \in Asked
  BY DEF Asked
<1>5. \A i \in 1 .. Len(Placed) : Placed[i].number # d.number
  <2>1. Len(Placed) = Len(created)
    BY DEF Placed, TypeOK
  <2>2. \A i \in 1 .. Len(created) : created[i].number # d.number
    BY DEF Taken, d
  <2> QED
    BY <2>1, <2>2 DEF Placed, RowOf
<1>6. Placed' = Append(Placed, RowOf(d))
  BY <1>1, PlacedGrows DEF TypeOK, d
<1>7. RowOf(d) = [number |-> AskOf(c).number, client |-> AskOf(c).client,
                  status |-> d.status]
  BY <1>3 DEF RowOf, AskOf
<1>8. AskOf(c).number = d.number
  BY <1>3 DEF AskOf
<1>9. UNCHANGED Asked
  BY DEF Asked
<1>10. Promise!Place(AskOf(c), d.status)
  BY <1>5, <1>6, <1>7, <1>8, <1>9 DEF Promise!Place, Promise!Free
<1>11. d.status \in Statuses
  BY <1>2 DEF Confirmable
<1> QED
  BY <1>4, <1>10, <1>11 DEF Promise!Next

\* Any other step asks, or leaves the desk as it is.
LEMMA OtherStepsAsk ==
  ASSUME TypeOK', [Next]_vars, UNCHANGED created
  PROVE  Promise!Next
<1>1. cards \subseteq cards'
  BY DEF Next, vars, Work, Receive, Throttle, Open, Close, CheckOrder, EnterNumber,
     EnterClient, EnterTitle, OfferStatuses, InsertOrder, EndDialog, ChooseStatus,
     TapCreate, TapCancel, FailDb, Crash
<1>2. UNCHANGED Placed
  BY DEF Placed
<1>3. Asked \subseteq Asked'
  BY <1>1 DEF Asked
<1>4. cards' \subseteq [number : Field, client : Field, title : Field]
  BY DEF TypeOK
<1>5. Asked' \subseteq [number : Field, client : Field]
  BY <1>4 DEF Asked, AskOf
<1> QED
  BY <1>2, <1>3, <1>5 DEF Promise!Next, Promise!Ask, Promise!Asks

\* The dialogs implement Desk, for any texts, statuses, updates and faults:
\* admin/handlers.py:88-134 asks first and inserts only what it asked about.
THEOREM ImplementsTheDesk == Spec => ImplementsDesk
<1>1. Init => Promise!Init
  <2> SUFFICES ASSUME Init PROVE Promise!Init
    OBVIOUS
  <2>1. Asked = {}
    BY DEF Init, Asked
  <2>2. Placed = << >>
    BY DEF Init, Placed
  <2> QED
    BY <2>1, <2>2 DEF Promise!Init
<1>2. TypeOK /\ TypeOK' /\ ConfirmInv /\ [Next]_vars => [Promise!Next]_(Promise!vars)
  BY InsertStep, InsertPlaces, OtherStepsAsk
<1> QED
  BY <1>1, <1>2, DialogTyped, ConfirmCorrect, PTL DEF Spec, ImplementsDesk, Promise!Spec

-----------------------------------------------------------------------------
(* What it takes for the title to slip *)

\* enter_title is about to store a title while the chat is confirming.
LateTitle ==
  /\ state = "confirming"
  /\ \E t \in Updates : updates[t].pc = "run" /\ updates[t].handler = "enter_title"

\* What the chat confirms, what a tap has read and what is created has stood
\* on a card, the title included.
ShownInv ==
  /\ state = "confirming" => Card(data) \in cards
  /\ \A t \in Updates : updates[t].pc = "create" => Card(updates[t].data) \in cards
  /\ \A i \in 1 .. Len(created) : Card(created[i]) \in cards

LEMMA ShownConfirming ==
  ASSUME TypeOK, ShownInv, ~LateTitle, [Next]_vars, state' = "confirming"
  PROVE  Card(data') \in cards'
<1> USE DEF TypeOK
<1>1. cards \subseteq cards'
  BY DEF Next, vars, Work, Receive, Throttle, Open, Close, CheckOrder, EnterNumber,
     EnterClient, EnterTitle, OfferStatuses, InsertOrder, EndDialog, ChooseStatus,
     TapCreate, TapCancel, FailDb, Crash
<1>2. CASE \E s \in Statuses : ChooseStatus(s)
  BY <1>2 DEF ChooseStatus
<1>3. CASE UNCHANGED <<state, data>>
  BY <1>1, <1>3 DEF ShownInv
<1>4. ~Clear
  BY DEF Clear
<1>5. ASSUME NEW t \in Updates, Work(t)
      PROVE  UNCHANGED <<state, data>>
  <2>1. ~EnterTitle(t)
    BY DEF EnterTitle, LateTitle
  <2> QED
    BY <1>4, <1>5, <2>1 DEF Work, Throttle, Open, Opening, Close, CheckOrder,
       EnterNumber, EnterClient, OfferStatuses, InsertOrder, EndDialog
<1> QED
  BY <1>2, <1>3, <1>4, <1>5 DEF Next, vars, Receive, TapCreate, TapCancel, FailDb,
     Crash

LEMMA ShownStep ==
  ASSUME TypeOK, ShownInv, ~LateTitle, [Next]_vars
  PROVE  ShownInv'
<1> USE DEF TypeOK
<1>1. cards \subseteq cards'
  BY DEF Next, vars, Work, Receive, Throttle, Open, Close, CheckOrder, EnterNumber,
     EnterClient, EnterTitle, OfferStatuses, InsertOrder, EndDialog, ChooseStatus,
     TapCreate, TapCancel, FailDb, Crash
<1>2. ASSUME NEW t \in Updates, updates'[t].pc = "create"
      PROVE  Card(updates'[t].data) \in cards'
  BY <1>1, <1>2, TapStep DEF ShownInv
<1>3. ASSUME NEW i \in 1 .. Len(created')
      PROVE  Card(created'[i]) \in cards'
  <2>1. CASE UNCHANGED created
    BY <1>1, <1>3, <2>1 DEF ShownInv
  <2>2. ASSUME NEW t \in Updates, updates[t].pc = "create",
               created' = Append(created, updates[t].data)
        PROVE  Card(created'[i]) \in cards'
    <3>1. created'[i] = updates[t].data
          \/ (i \in 1 .. Len(created) /\ created'[i] = created[i])
      BY <1>3, <2>2
    <3> QED
      BY <1>1, <2>2, <3>1 DEF ShownInv
  <2> QED
    BY <2>1, <2>2, InsertStep
<1> QED
  BY <1>2, <1>3, ShownConfirming DEF ShownInv, Card

\* A late title is the only way to create what no card showed: without one,
\* taps, repeated handlers, failures and crashes may overlap as they like
\* (admin/handlers.py:88-129; run dialog_title shows the late title).
THEOREM OnlyLateTitlesSlip == Spec /\ []~LateTitle => []CreatedAsShown
<1>1. Init => ShownInv
  BY DEF Init, ShownInv, Idle
<1>2. TypeOK /\ ShownInv /\ ~LateTitle /\ [Next]_vars => ShownInv'
  BY ShownStep
<1>3. ShownInv => CreatedAsShown
  BY DEF ShownInv, CreatedAsShown, Orders
<1> QED
  BY <1>1, <1>2, <1>3, DialogTyped, PTL DEF Spec

\* One update at a time, and nothing fails.
Calm ==
  /\ faults = 0
  /\ \A t, u \in Updates : updates[t] # Idle /\ updates[u] # Idle => t = u

EntersTitle(t) ==
  updates[t].pc = "statuses"
    \/ (updates[t].pc = "run" /\ updates[t].handler = "enter_title")

\* enter_title is over before a status can be chosen.
TitleInv ==
  \A t \in Updates : EntersTitle(t) => state \notin {"choosing", "confirming"}

LEMMA TitleStep ==
  ASSUME TypeOK, TitleInv, Calm, Calm', [Next]_vars
  PROVE  TitleInv'
<1> SUFFICES ASSUME NEW t \in Updates, EntersTitle(t)'
             PROVE  state' \notin {"choosing", "confirming"}
  BY DEF TitleInv
<1> USE DEF TypeOK
<1>1. ~Fault
  BY DEF Calm, Fault
<1>2. ASSUME NEW u \in Updates, Answer(u)
      PROVE  updates' = [updates EXCEPT ![u] = Idle]
  BY <1>1, <1>2 DEF Answer
<1>3. EntersTitle(t) => state \notin {"choosing", "confirming"} /\ updates[t] # Idle
  BY DEF TitleInv, EntersTitle, Idle
<1>4. CASE \E u \in Updates : Work(u)
  <2>1. PICK u \in Updates : Work(u)
    BY <1>4
  <2>2. /\ updates[u] # Idle
        /\ \A v \in Updates : v # u => updates'[v] = updates[v]
    BY <1>2, <2>1 DEF Work, Throttle, Open, Close, CheckOrder, EnterNumber,
       EnterClient, EnterTitle, OfferStatuses, InsertOrder, EndDialog, Idle
  <2>3. u = t
    BY <1>3, <2>2 DEF EntersTitle, Calm
  <2>4. updates'[t] # Idle
    BY DEF EntersTitle, Idle
  <2>5. EnterTitle(t) \/ InsertOrder(t)
    BY <1>2, <2>1, <2>3, <2>4 DEF Work, Throttle, Open, Close, CheckOrder,
       EnterNumber, EnterClient, OfferStatuses, EndDialog
  <2>6. ~InsertOrder(t)
    <3>1. updates[t].pc = "create" => updates[t] \in ConfirmTask
      BY ConfirmAtWork DEF Tasks
    <3>2. InsertOrder(t) => updates'[t].pc \in {"clear", "idle"}
      BY <3>1 DEF InsertOrder, ConfirmTask, Idle
    <3> QED
      BY <3>2 DEF EntersTitle
  <2>7. EnterTitle(t)
    BY <2>5, <2>6
  <2> QED
    BY <1>3, <2>7 DEF EnterTitle, EntersTitle
<1>5. ASSUME NEW u \in Updates, NEW text \in Texts, Receive(u, text)
      PROVE  state' \notin {"choosing", "confirming"}
  <2>1. CASE u = t
    <3>1. updates'[t] = [pc |-> "run", handler |-> Route(text), text |-> text,
                         tries |-> 0]
      BY <1>5, <2>1 DEF Receive
    <3>2. Route(text) = "enter_title"
      BY <3>1 DEF EntersTitle
    <3>3. state = "title"
      BY <3>2 DEF Route, States
    <3> QED
      BY <1>5, <3>3 DEF Receive
  <2>2. CASE u # t
    BY <1>3, <1>5, <2>2 DEF Receive, EntersTitle
  <2> QED
    BY <2>1, <2>2
<1>6. ASSUME NEW u \in Updates, TapCreate(u)
      PROVE  state' \notin {"choosing", "confirming"}
  BY <1>3, <1>6 DEF TapCreate, EntersTitle
<1>7. CASE \E s \in Statuses : ChooseStatus(s)
  BY <1>3, <1>7 DEF ChooseStatus, EntersTitle
<1>8. CASE TapCancel
  BY <1>8 DEF TapCancel, Clear
<1>9. CASE UNCHANGED vars
  BY <1>3, <1>9 DEF vars, EntersTitle
<1> QED
  BY <1>1, <1>4, <1>5, <1>6, <1>7, <1>8, <1>9 DEF Next, FailDb, Crash

\* In a chat whose updates come one at a time, while nothing fails, what is
\* created is what the card showed.  Neither half of Calm can be dropped: a
\* repeated enter_title after a tap on an old "cancel" is late as well.
THEOREM CalmChatsCreateAsShown == Spec /\ []Calm => []CreatedAsShown
<1>1. Init => TitleInv
  BY DEF Init, TitleInv, EntersTitle, Idle
<1>2. TypeOK /\ TitleInv /\ Calm /\ Calm' /\ [Next]_vars => TitleInv'
  BY TitleStep
<1>3. TitleInv => ~LateTitle
  BY DEF TitleInv, EntersTitle, LateTitle
<1> QED
  BY <1>1, <1>2, <1>3, DialogTyped, OnlyLateTitlesSlip, PTL DEF Spec

=============================================================================
