---------------------------- MODULE LedgerProofs ----------------------------
(***************************************************************************)
(* The tables under all their writers implement OrderLedger: the initial   *)
(* tables are the empty ledger, and every step of a request, a callback, a *)
(* client or a crash places, moves or closes one order, or leaves the      *)
(* ledger as it is.                                                        *)
(***************************************************************************)
EXTENDS DeliveryProofs, SequenceTheorems

LEMMA InitLedger == Init => Ledger!Init
<1> SUFFICES ASSUME Init PROVE Ledger!Init
  OBVIOUS
<1>1. ASSUME NEW o \in OrderIds
      PROVE  Phase(o) = "absent" /\ Status(o) = "none" /\ Trail(o) = << >>
  <2>1. orders[o] = NoOrder /\ history[o] = << >> /\ Len(history[o]) = 0
    BY DEF Init, StoreInit
  <2> QED
    BY <2>1 DEF Phase, Status, Trail, Exists
<1> QED
  BY <1>1 DEF Ledger!Init

\* A step that touches no row and no history of o leaves its entry alone.
LEMMA EntryKept ==
  ASSUME NEW o \in OrderIds, Untouched(o)
  PROVE  Phase(o)' = Phase(o) /\ Status(o)' = Status(o) /\ Trail(o)' = Trail(o)
  BY DEF Untouched, Phase, Status, Trail, Exists

LEMMA EntryPlaced ==
  ASSUME NEW o \in OrderIds, NEW s \in Statuses, ~Exists(o), history'[o] = history[o],
         orders'[o] = [status_id |-> s, is_active |-> 1, version |-> 1]
  PROVE  /\ Phase(o) = "absent" /\ Phase(o)' = "open"
         /\ Status(o)' = s
         /\ Trail(o)' = Trail(o)
<1>1. orders'[o] \in OrderRow
  BY DEF OrderRow
<1> QED
  BY <1>1, NoOrderAssumption DEF Phase, Status, Trail, Exists

LEMMA EntryMoved ==
  ASSUME StoreTypeOK, NEW o \in OrderIds, NEW s \in Statuses,
         NEW source \in Stamps \cup {"admin"}, Moved(o, s, source)
  PROVE  /\ Phase(o) = "open" /\ Phase(o)' = "open"
         /\ Status(o)' = s
         /\ Trail(o)' = Append(Trail(o), s)
<1> DEFINE n == Len(history[o])
<1>0. Matches(o)
  BY DEF Moved
<1>1. /\ Exists(o) /\ Exists(o)' /\ Matches(o)'
      /\ orders'[o].status_id = s
      /\ n \in Nat
      /\ Len(history'[o]) = n + 1
      /\ \A i \in 1 .. n : history'[o][i] = history[o][i]
      /\ history'[o][n + 1] =
           [status_id |-> s, source |-> source, prev |-> orders[o].status_id]
  BY MovedRow
<1>2. history[o] \in Seq(HistoryRow)
  BY DEF StoreTypeOK
<1>3. \A i \in 1 .. n : history[o][i].status_id \in Statuses
  <2>1. \A i \in 1 .. n : history[o][i] \in HistoryRow
    BY <1>2
  <2> QED
    BY <2>1 DEF HistoryRow
<1>4. Trail(o) = [i \in 1 .. n |-> history[o][i].status_id]
  BY DEF Trail
<1>5. Trail(o)' = [i \in 1 .. n + 1 |-> history'[o][i].status_id]
  BY <1>1 DEF Trail
<1>6. Trail(o) \in Seq(Statuses) /\ Len(Trail(o)) = n
  BY <1>1, <1>3, <1>4
<1>7. Trail(o)' = Append(Trail(o), s)
  <2> DEFINE moved == Trail(o)'
  <2>1. \A i \in 1 .. n : history'[o][i].status_id = Trail(o)[i]
    BY <1>1, <1>4
  <2>2. history'[o][n + 1].status_id = s
    BY <1>1
  <2> HIDE DEF n
  <2>3. \A i \in 1 .. n + 1 : history'[o][i].status_id \in Statuses
    BY <1>1, <1>6, <2>1, <2>2
  <2>4. moved \in Seq(Statuses) /\ Len(moved) = n + 1
    BY <1>1, <1>5, <2>3
  <2>5. \A i \in 1 .. n : moved[i] = Trail(o)[i]
    BY <1>1, <1>5, <2>1
  <2>6. moved[n + 1] = s
    BY <1>1, <1>5, <2>2
  <2>7. /\ Append(Trail(o), s) \in Seq(Statuses)
        /\ Len(Append(Trail(o), s)) = n + 1
        /\ \A i \in 1 .. n : Append(Trail(o), s)[i] = Trail(o)[i]
        /\ Append(Trail(o), s)[n + 1] = s
    BY <1>6, AppendProperties
  <2> HIDE DEF moved
  <2>8. \A i \in 1 .. n + 1 : moved[i] = Append(Trail(o), s)[i]
    BY <1>1, <2>5, <2>6, <2>7
  <2>9. moved = Append(Trail(o), s)
    BY <2>4, <2>7, <2>8, SeqEqual
  <2> QED
    BY <2>9 DEF moved
<1> QED
  BY <1>0, <1>1, <1>7 DEF Phase, Status, Matches

LEMMA EntryClosed ==
  ASSUME StoreTypeOK, NEW o \in OrderIds, Closed(o)
  PROVE  /\ Phase(o) \in {"open", "closed"} /\ Phase(o)' = "closed"
         /\ Status(o)' = Status(o)
         /\ Trail(o)' = Trail(o)
  BY ClosedRow DEF Phase, Status, Trail

\* One step works on one order at most.
LEMMA OneOrder ==
  ASSUME Typed, [Next]_vars
  PROVE  \/ \A o \in OrderIds : Untouched(o)
         \/ \E o \in OrderIds : \A p \in OrderIds \ {o} : Untouched(p)
<1> USE DEF Typed, TypeOK
<1> DEFINE Update(o) == \E s \in Statuses, source \in Stamps \cup {"admin"} :
                          UpdateOrderStatus(o, s, source)
<1>1. \/ UNCHANGED <<orders, history>>
      \/ \E o \in OrderIds : Update(o)
      \/ \E o \in OrderIds, s \in Statuses : CreateOrder(o, s)
      \/ \E o \in OrderIds : CloseOrder(o)
  <2>1. ASSUME NEW r \in Requests, ApplyUpdate(r)
        PROVE  \E o \in OrderIds : Update(o)
    BY <2>1, RequestAtWork DEF ApplyUpdate
  <2>2. ASSUME NEW a \in AdminTasks, NextUpdate(a)
        PROVE  \E o \in OrderIds : Update(o)
    <3>1. tasks[a] \in TaskRow
      BY <2>2, TaskAtWork DEF NextUpdate
    <3> QED
      BY <2>2, <3>1 DEF NextUpdate, TaskRow
  <2>3. WebhookNext => \/ UNCHANGED <<orders, history>>
                       \/ \E r \in Requests : ApplyUpdate(r)
    BY DEF WebhookNext, RequestStep, TurnAway, Refuse, Raise, Receive,
       CheckDuplicate, LookUpOrder,
       RecordEvent, InsertEvent, FailDb, storeVars
  <2>4. AdminNext => \/ UNCHANGED <<orders, history>>
                     \/ \E a \in AdminTasks : NextUpdate(a)
    BY DEF AdminNext, TaskStep, PressNext, NextSubscribers, NextNotify, AdminError,
       storeVars
  <2>5. OrderNext => \/ \E o \in OrderIds, s \in Statuses : CreateOrder(o, s)
                     \/ \E o \in OrderIds : CloseOrder(o)
    BY DEF OrderNext, ConfirmClose, ConfirmOrder
  <2>6. ClientNext \/ Crash \/ UNCHANGED vars => UNCHANGED <<orders, history>>
    BY DEF ClientNext, Subscribe, Unsubscribe, SubscribeOrder, UnsubscribeOrder,
       Crash, storeVars, vars
  <2> HIDE DEF Update
  <2> QED
    BY <2>1, <2>2, <2>3, <2>4, <2>5, <2>6 DEF Next
<1>2. ASSUME NEW o \in OrderIds, Update(o)
      PROVE  \A p \in OrderIds \ {o} : Untouched(p)
  BY <1>2, UpdateEffect
<1>3. ASSUME NEW o \in OrderIds, NEW s \in Statuses, CreateOrder(o, s)
      PROVE  \A p \in OrderIds \ {o} : Untouched(p)
  BY <1>3 DEF CreateOrder, Untouched, StoreTypeOK
<1>4. ASSUME NEW o \in OrderIds, CloseOrder(o)
      PROVE  \A p \in OrderIds \ {o} : Untouched(p)
  BY <1>4 DEF CloseOrder, Untouched, StoreTypeOK
<1> HIDE DEF Update
<1> QED
  BY <1>1, <1>2, <1>3, <1>4 DEF Untouched

LEMMA NextLedger == Typed /\ [Next]_vars => [Ledger!Next]_(Ledger!vars)
<1> SUFFICES ASSUME Typed, [Next]_vars PROVE [Ledger!Next]_(Ledger!vars)
  OBVIOUS
<1> USE DEF Typed, TypeOK
<1>1. CASE \A o \in OrderIds : Untouched(o)
  <2>1. \A o \in OrderIds : Phase(o)' = Phase(o) /\ Status(o)' = Status(o)
                            /\ Trail(o)' = Trail(o)
    BY <1>1, EntryKept
  <2> QED
    BY <2>1 DEF Ledger!vars
<1>2. ASSUME NEW o \in OrderIds, \A p \in OrderIds \ {o} : Untouched(p)
      PROVE  [Ledger!Next]_(Ledger!vars)
  <2>1. \A p \in OrderIds \ {o} : Phase(p)' = Phase(p) /\ Status(p)' = Status(p)
                                  /\ Trail(p)' = Trail(p)
    BY <1>2, EntryKept
  <2>2. CASE Untouched(o)
    BY <1>1, <1>2, <2>2
  <2>3. ASSUME Placed(o) PROVE Ledger!Next
    <3>1. PICK s \in Statuses :
            orders'[o] = [status_id |-> s, is_active |-> 1, version |-> 1]
      BY <2>3 DEF Placed
    <3>2. /\ Phase(o) = "absent" /\ Phase(o)' = "open"
          /\ Status(o)' = s /\ Trail(o)' = Trail(o)
      BY <2>3, <3>1, EntryPlaced DEF Placed
    <3>3. Ledger!Place(o, s)
      BY <2>1, <3>2 DEF Ledger!Place
    <3> QED
      BY <3>3 DEF Ledger!Next
  <2>4. ASSUME NEW s \in Statuses, NEW source \in Stamps \cup {"admin"},
               Moved(o, s, source)
        PROVE  Ledger!Next
    <3>1. /\ Phase(o) = "open" /\ Phase(o)' = "open"
          /\ Status(o)' = s /\ Trail(o)' = Append(Trail(o), s)
      BY <2>4, EntryMoved
    <3>2. Ledger!Move(o, s)
      BY <2>1, <3>1 DEF Ledger!Move
    <3> QED
      BY <3>2 DEF Ledger!Next
  <2>5. ASSUME Closed(o) PROVE [Ledger!Next]_(Ledger!vars)
    <3>1. /\ Phase(o) \in {"open", "closed"} /\ Phase(o)' = "closed"
          /\ Status(o)' = Status(o) /\ Trail(o)' = Trail(o)
      BY <2>5, EntryClosed
    <3>2. CASE Phase(o) = "open"
      <4>1. Ledger!Close(o)
        BY <2>1, <3>1, <3>2 DEF Ledger!Close
      <4> QED
        BY <4>1 DEF Ledger!Next
    <3>3. CASE Phase(o) = "closed"
      BY <2>1, <3>1, <3>3 DEF Ledger!vars
    <3> QED
      BY <3>1, <3>2, <3>3
  <2> QED
    BY <2>2, <2>3, <2>4, <2>5, NextOrder DEF OrderStep, MovedByAdmin, TaskRow
<1> QED
  BY <1>1, <1>2, OneOrder

\* The tables of the running bot are an implementation of the ledger: a
\* closed order never moves or opens again, and every change of a status is
\* one new row of the history (service.py:107-130).
THEOREM ImplementsTheLedger == Spec => ImplementsLedger
<1>1. Init => Ledger!Init
  BY InitLedger
<1>2. Typed /\ [Next]_vars => [Ledger!Next]_(Ledger!vars)
  BY NextLedger
<1> QED
  BY <1>1, <1>2, TypeCorrect, PTL DEF Spec, ImplementsLedger, Ledger!Spec

=============================================================================
