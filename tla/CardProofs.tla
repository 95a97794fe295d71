---------------------------- MODULE CardProofs ------------------------------
(***************************************************************************)
(* A card never shows a status without the history row that brought it,    *)
(* for any number of readers and whatever the writers do in between.       *)
(***************************************************************************)
EXTENDS Cards, DeliveryProofs

\* Readers change no table: every step of Cards is one of Delivery, or none.
LEMMA CardStepIsStep == [CardNext]_cardVars => [Next]_vars
  BY DEF CardNext, cardVars, ReadOrder, ShowCard, Next

\* Delivery with readers is Delivery to whoever does not look at the readers:
\* every theorem of its specification holds of this one as well.
THEOREM ReadersChangeNothing == CardSpec => Spec
<1>1. CardInit => Init
  BY DEF CardInit
<1> QED
  BY <1>1, CardStepIsStep, PTL DEF CardSpec, Spec

AllTold == \A o \in OrderIds : Told1(o)

\* One card: the order's rows reach back to the status that was read.
CardTells(card) ==
  LET last == card.row.version - 1
  IN  /\ last <= Len(history[card.order])
      /\ last > 0 => history[card.order][last].status_id = card.row.status_id

CardInv == AllTold /\ CardTypeOK /\ CardTellsStatus

LEMMA ReadTyped ==
  ASSUME CardTypeOK, NEW c \in Readers, reading[c] # Nothing
  PROVE  /\ reading[c].order \in OrderIds
         /\ reading[c].row \in OrderRow
         /\ reading[c].row.version \in Nat \ {0}
  BY DEF CardTypeOK, OrderRow

LEMMA InitCard == CardInit => Typed /\ CardInv
<1> SUFFICES ASSUME CardInit PROVE Typed /\ CardInv
  OBVIOUS
<1>1. Typed
  BY InitTyped DEF CardInit
<1>2. AllTold
  <2> SUFFICES ASSUME NEW o \in OrderIds PROVE Told1(o)
    BY DEF AllTold
  <2>1. orders[o] = NoOrder /\ history[o] = << >> /\ Len(history[o]) = 0
    BY DEF CardInit, Init, StoreInit
  <2> QED
    BY <2>1 DEF Told1, Exists
<1> QED
  BY <1>1, <1>2 DEF CardInit, CardInv, CardTypeOK, CardTellsStatus

\* A new card is whole when it is read: the last row of the history then.
LEMMA FreshCardTells ==
  ASSUME Typed, AllTold, NEW o \in OrderIds, Exists(o), UNCHANGED <<orders, history>>
  PROVE  /\ orders[o] \in OrderRow
         /\ CardTells([order |-> o, row |-> orders[o]])'
<1>1. orders[o] \in OrderRow
  BY DEF Typed, TypeOK, StoreTypeOK, Exists
<1>2. history[o] \in Seq(HistoryRow)
  BY DEF Typed, TypeOK, StoreTypeOK
<1>3. orders[o].version - 1 = Len(history[o])
  BY <1>2 DEF AllTold, Told1
<1>4. Len(history[o]) > 0 =>
        history[o][Len(history[o])].status_id = orders[o].status_id
  BY <1>2 DEF AllTold, Told1
<1>5. Len(history[o]) \in Nat /\ Len(history'[o]) = Len(history[o])
  BY <1>2
<1> QED
  BY <1>1, <1>3, <1>4, <1>5 DEF CardTells

\* A card read earlier stays true: rows are only added behind it.
LEMMA OldCardTells ==
  ASSUME Typed, [Next]_vars, CardTypeOK, NEW c \in Readers, reading[c] # Nothing,
         CardTells(reading[c]), reading'[c] = reading[c]
  PROVE  CardTells(reading[c])'
<1> DEFINE o == reading[c].order
           last == reading[c].row.version - 1
<1>1. o \in OrderIds /\ last \in Nat
  BY ReadTyped
<1>2. history[o] \in Seq(HistoryRow) /\ history'[o] \in Seq(HistoryRow)
  BY <1>1, NextTyped DEF Typed, TypeOK, StoreTypeOK
<1>3. \A i \in 1 .. Len(history[o]) :
        i \in 1 .. Len(history'[o]) /\ history'[o][i] = history[o][i]
  BY <1>1, HistoryGrows
<1>4. last <= Len(history[o]) /\ (last > 0 => history[o][last].status_id = reading[c].row.status_id)
  BY DEF CardTells
<1>5. last > 0 => last \in 1 .. Len(history[o])
  BY <1>1, <1>2, <1>4
<1>6. last <= Len(history'[o])
  BY <1>1, <1>2, <1>3, <1>5
<1>7. last > 0 => history'[o][last].status_id = reading[c].row.status_id
  BY <1>3, <1>4, <1>5
<1> QED
  BY <1>6, <1>7 DEF CardTells

LEMMA NextCard ==
  ASSUME Typed, CardInv, [CardNext]_cardVars
  PROVE  Typed' /\ CardInv'
<1>0. [Next]_vars
  BY CardStepIsStep
<1>1. Typed'
  BY <1>0, NextTyped
<1>2. AllTold'
  BY <1>0, StepTells DEF CardInv, AllTold
<1>3. ASSUME NEW c \in Readers
      PROVE  /\ reading'[c] \in [order : OrderIds, row : OrderRow] \cup {Nothing}
             /\ reading'[c] # Nothing => CardTells(reading[c])'
  <2>0. reading[c] \in [order : OrderIds, row : OrderRow] \cup {Nothing}
    BY DEF CardInv, CardTypeOK
  <2>1. CASE reading'[c] = Nothing
    BY <2>1
  <2>2. CASE reading'[c] = reading[c] /\ reading[c] # Nothing
    <3>1. CardTells(reading[c])
      BY <2>2 DEF CardInv, CardTellsStatus, CardTells
    <3> QED
      BY <1>0, <2>0, <2>2, <3>1, OldCardTells DEF CardInv
  <2>3. CASE \E o \in OrderIds : ReadOrder(c, o)
    <3>1. PICK o \in OrderIds : ReadOrder(c, o)
      BY <2>3
    <3>2. reading'[c] = [order |-> o, row |-> orders[o]]
      BY <3>1 DEF ReadOrder, CardInv, CardTypeOK
    <3>3. Exists(o) /\ UNCHANGED <<orders, history>>
      BY <3>1 DEF ReadOrder, Matches, vars
    <3>4. /\ orders[o] \in OrderRow
          /\ CardTells([order |-> o, row |-> orders[o]])'
      BY <3>3, FreshCardTells DEF CardInv
    <3>5. /\ reading'[c].order = o
          /\ reading'[c].row = orders[o]
          /\ UNCHANGED orders
      BY <3>1, <3>2 DEF ReadOrder, vars
    <3> QED
      BY <3>2, <3>4, <3>5 DEF CardTells
  <2>4. \/ reading'[c] = Nothing
        \/ reading'[c] = reading[c]
        \/ \E o \in OrderIds : ReadOrder(c, o)
    BY DEF CardNext, ReadOrder, ShowCard, cardVars, CardInv, CardTypeOK
  <2> QED
    BY <2>1, <2>2, <2>3, <2>4
<1>4. reading' = [c \in Readers |-> reading'[c]]
  BY DEF CardNext, ReadOrder, ShowCard, cardVars, CardInv, CardTypeOK
<1>5. CardTypeOK'
  BY <1>3, <1>4 DEF CardTypeOK
<1>6. CardTellsStatus'
  BY <1>3 DEF CardTellsStatus, CardTells
<1> QED
  BY <1>1, <1>2, <1>5, <1>6 DEF CardInv

\* The history on a client's card is never behind its status, although the two
\* are read in different sessions (delivery/handlers.py:36, :41).
THEOREM CardsTell == CardSpec => []CardTellsStatus
<1>1. CardInit => Typed /\ CardInv
  BY InitCard
<1>2. (Typed /\ CardInv) /\ [CardNext]_cardVars => (Typed /\ CardInv)'
  BY NextCard
<1>3. Typed /\ CardInv => CardTellsStatus
  BY DEF CardInv
<1> QED
  BY <1>1, <1>2, <1>3, PTL DEF CardSpec

=============================================================================
