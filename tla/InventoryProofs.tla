--------------------------- MODULE InventoryProofs ---------------------------
(***************************************************************************)
(* Theorems about Inventory and InventoryOnTime, for every set of orders,  *)
(* returns, products and variants and every stock.  Each section adds the  *)
(* part of the inductive invariant its theorems need:                      *)
(*   IInv  types, rows and ledger: who holds units, what statuses agree    *)
(*   LInv  orders from before the movements: Inventory implements          *)
(*         OrderLifecycle                                                  *)
(*   CInv  products with colours: both counters of units move together     *)
(*   OInv  live reservations fit the shelf: payments in time get the goods *)
(***************************************************************************)
EXTENDS InventoryOnTime, SumsProofs

\* What the row, the reservation and the movement keys of an order can be.
RowInv ==
    \A o \in Orders :
        /\ o \in sold => status[o] \in {"paid", "canceled", "deleted"}
        /\ o \in restocked => status[o] \in {"canceled", "deleted"}
        /\ status[o] = "paid" => o \in sold \cup Legacy
        /\ status[o] \in {"canceled", "deleted"} /\ o \in sold => o \in restocked
        /\ status[o] = "absent" => inventoryStatus[o] = "none" /\ paymentStatus[o] = "pending"
        /\ status[o] \in {"absent", "deleted"} => reservation[o] = "none"
        /\ inventoryStatus[o] = "none" => reservation[o] = "none"
        /\ status[o] # "stock_conflict" => (o \in claimed => status[o] = "deleted")

\* The inductive invariant: types, rows and the ledger of each product.  The
\* ledger needs the rows: an order about to be committed has no sale row yet.
IInv ==
    /\ TypeOK
    /\ RowInv
    /\ DeadOrdersHoldNothing
    /\ StatusesAgree
    /\ LedgerMatchesStock

-----------------------------------------------------------------------------
\* Units of any part of an order, or of a return, are naturals.
LEMMA UnitsNat ==
    ASSUME NEW q \in [Variants -> Nat], NEW vs \in SUBSET Variants, NEW p \in Products
    PROVE  Units(q, vs, p) \in Nat
  <1>. DEFINE S == {v \in vs : ProductOf[v] = p}
  <1>1. IsFiniteSet(S)
    BY TypeAssumption, FS_Subset
  <1>2. \A v \in S : q[v] \in Nat
    OBVIOUS
  <1>. HIDE DEF S
  <1>3. Total(q, S) \in Nat
    BY <1>1, <1>2, TotalNat
  <1>. QED
    BY <1>3 DEF Units, S

LEMMA OrderUnits ==
    ASSUME NEW o \in Orders, NEW p \in Products
    PROVE  Units(Qty[o], Variants, p) \in Nat
  <1>1. Qty[o] \in [Variants -> Nat] /\ Variants \in SUBSET Variants
    BY TypeAssumption
  <1>. QED
    BY <1>1, UnitsNat

LEMMA ReturnUnits ==
    ASSUME NEW r \in Returns, NEW vs \in SUBSET Variants, NEW p \in Products
    PROVE  Units(ReturnQty[r], vs, p) \in Nat
  <1>1. ReturnQty[r] \in [Variants -> Nat]
    BY TypeAssumption
  <1>. QED
    BY <1>1, UnitsNat

-----------------------------------------------------------------------------
(* Type correctness *)

LEMMA TypeInit == Init => TypeOK
  BY TypeAssumption
  DEF Init, TypeOK, OrderStatus, InventoryStatus, PaymentStatus, ReservationStatus

\* Actions that touch rows of orders and reservations only.
RowAction(o) ==
    \/ InsertOrder(o)
    \/ ReserveOrder(o)
    \/ RejectOrder(o)
    \/ ConflictOrder(o)
    \/ CancelPendingOrder(o)
    \/ ClaimStockConflictRefund(o)
    \/ ReleaseStockConflictRefundClaim(o)
    \/ MarkRefunded(o)
    \/ DeleteOrder(o)
    \/ ReservationTimesOut(o)

LEMMA TypeRows ==
    ASSUME TypeOK, NEW o \in Orders, RowAction(o)
    PROVE  TypeOK'
  <1>. USE DEF TypeOK, OrderStatus, InventoryStatus, PaymentStatus, ReservationStatus,
               orderVars, reservationVars, stockVars, SetOrder, SetReservation
  <1>1. CASE InsertOrder(o)
    BY <1>1 DEF InsertOrder
  <1>2. CASE ReserveOrder(o)
    BY <1>2 DEF ReserveOrder
  <1>3. CASE RejectOrder(o)
    BY <1>3 DEF RejectOrder
  <1>4. CASE ConflictOrder(o)
    BY <1>4 DEF ConflictOrder, Payable
  <1>5. CASE CancelPendingOrder(o)
    BY <1>5 DEF CancelPendingOrder
  <1>6. CASE ClaimStockConflictRefund(o)
    BY <1>6 DEF ClaimStockConflictRefund
  <1>7. CASE ReleaseStockConflictRefundClaim(o)
    BY <1>7 DEF ReleaseStockConflictRefundClaim
  <1>8. CASE MarkRefunded(o)
    BY <1>8 DEF MarkRefunded
  <1>9. CASE DeleteOrder(o)
    BY <1>9 DEF DeleteOrder
  <1>10. CASE ReservationTimesOut(o)
    BY <1>10 DEF ReservationTimesOut
  <1>. QED
    BY <1>1, <1>2, <1>3, <1>4, <1>5, <1>6, <1>7, <1>8, <1>9, <1>10 DEF RowAction

LEMMA TypeCommit ==
    ASSUME TypeOK, NEW o \in Orders, CommitOrder(o)
    PROVE  TypeOK'
  <1>1. ASSUME NEW v \in Variants, v \in Coloured
        PROVE  cell[v] - Qty[o][v] \in Nat
    <2>1. cell[v] \in Nat /\ Qty[o][v] \in Nat
      BY TypeAssumption DEF TypeOK
    <2>2. Qty[o][v] > 0 => cell[v] >= Qty[o][v]
      BY <1>1 DEF CommitOrder, Payable, OnShelf, Lines, PhysicalQuantity
    <2>. QED
      BY <2>1, <2>2
  <1>2. cell' \in [Variants -> Nat]
    BY <1>1 DEF CommitOrder, Payable, TypeOK
  <1>3. ASSUME NEW p \in Products
        PROVE  /\ stock[p] - Units(Qty[o], Variants, p) \in Nat
               /\ moved[p] - Units(Qty[o], Variants, p) \in Int
    BY OrderUnits DEF TypeOK, CommitOrder, Payable, StockCheckHolds
  <1>4. stock' \in [Products -> Nat] /\ moved' \in [Products -> Int]
    BY <1>3 DEF CommitOrder, Payable, TypeOK
  <1>5. /\ status' \in [Orders -> OrderStatus]
        /\ inventoryStatus' \in [Orders -> InventoryStatus]
        /\ paymentStatus' \in [Orders -> PaymentStatus]
        /\ reservation' \in [Orders -> ReservationStatus]
    BY DEF TypeOK, CommitOrder, Payable, SetOrder, SetReservation, OrderStatus, InventoryStatus,
           PaymentStatus, ReservationStatus
  <1>. QED
    BY <1>2, <1>4, <1>5 DEF TypeOK, CommitOrder, Payable, SetOrder, SetReservation

LEMMA TypeRestock ==
    ASSUME TypeOK, NEW o \in Orders, NEW refunded \in BOOLEAN,
           RestockCanceledOrder(o, refunded)
    PROVE  TypeOK'
  <1>1. ASSUME NEW p \in Products
        PROVE  /\ stock[p] + Units(Qty[o], Variants, p) \in Nat
               /\ moved[p] + Units(Qty[o], Variants, p) \in Int
    BY OrderUnits DEF TypeOK
  <1>2. ASSUME NEW v \in Variants
        PROVE  cell[v] + Qty[o][v] \in Nat
    BY TypeAssumption DEF TypeOK
  <1>3. /\ cell' \in [Variants -> Nat]
        /\ stock' \in [Products -> Nat]
        /\ moved' \in [Products -> Int]
        /\ restocked' \subseteq Orders
    BY <1>1, <1>2 DEF TypeOK, RestockCanceledOrder, Restock
  <1>4. /\ status' \in [Orders -> OrderStatus]
        /\ inventoryStatus' \in [Orders -> InventoryStatus]
        /\ paymentStatus' \in [Orders -> PaymentStatus]
    BY DEF TypeOK, RestockCanceledOrder, SetOrder, OrderStatus, InventoryStatus, PaymentStatus
  <1>. QED
    BY <1>3, <1>4 DEF TypeOK, RestockCanceledOrder, SetOrder, reservationVars

LEMMA TypeReturn ==
    ASSUME TypeOK, NEW r \in Returns, NEW lines \in SUBSET ReturnLines(r),
           RestockReturn(r, lines)
    PROVE  TypeOK'
  <1>. DEFINE fresh == lines \ returned[r]
  <1>1. fresh \in SUBSET Variants
    BY DEF ReturnLines
  <1>2. /\ stock' = [p \in Products |-> stock[p] + Units(ReturnQty[r], fresh, p)]
        /\ moved' = [p \in Products |-> moved[p] + Units(ReturnQty[r], fresh, p)]
        /\ returned' = [returned EXCEPT ![r] = @ \cup fresh]
    BY DEF RestockReturn, FreshLines
  <1>3. ASSUME NEW v \in Variants
        PROVE  cell[v] + ReturnQty[r][v] \in Nat
    BY TypeAssumption DEF TypeOK
  <1>4. cell' \in [Variants -> Nat]
    BY <1>3 DEF TypeOK, RestockReturn
  <1>. HIDE DEF fresh
  <1>5. stock' \in [Products -> Nat] /\ moved' \in [Products -> Int]
    <2>1. ASSUME NEW p \in Products
          PROVE  Units(ReturnQty[r], fresh, p) \in Nat
      BY <1>1, ReturnUnits
    <2>. QED
      BY <1>2, <2>1 DEF TypeOK
  <1>6. returned' \in [Returns -> SUBSET Variants]
    BY <1>1, <1>2 DEF TypeOK
  <1>. QED
    BY <1>4, <1>5, <1>6 DEF TypeOK, RestockReturn, orderVars, reservationVars

LEMMA TypeSweep ==
    ASSUME TypeOK, ReleaseExpiredReservations
    PROVE  TypeOK'
  BY DEF TypeOK, ReleaseExpiredReservations, stockVars, OrderStatus, InventoryStatus,
         ReservationStatus

LEMMA TypeStep == TypeOK /\ [Next]_vars => TypeOK'
  <1>. SUFFICES ASSUME TypeOK, [Next]_vars PROVE TypeOK'
    OBVIOUS
  <1>1. CASE UNCHANGED vars
    BY <1>1 DEF vars, orderVars, reservationVars, stockVars, TypeOK
  <1>2. CASE Next
    BY <1>2, TypeRows, TypeCommit, TypeRestock, TypeReturn, TypeSweep DEF Next, RowAction
  <1>. QED
    BY <1>1, <1>2

\* The rows only hold the statuses the migration TransactionalInventory allows,
\* and neither products.stock nor a colour's cell ever goes below zero.
THEOREM TypeCorrect == Spec => []TypeOK
  BY TypeInit, TypeStep, PTL DEF Spec

-----------------------------------------------------------------------------
(* Rows of orders, reservations and movement keys *)

Rows == RowInv /\ DeadOrdersHoldNothing /\ StatusesAgree

LEMMA RowsInit == Init => Rows
  BY TypeAssumption DEF Init, Rows, RowInv, DeadOrdersHoldNothing, StatusesAgree

LEMMA RowsRows ==
    ASSUME TypeOK, Rows, NEW o \in Orders, RowAction(o)
    PROVE  Rows'
  <1>. USE DEF TypeOK, Rows, RowInv, DeadOrdersHoldNothing, StatusesAgree,
               orderVars, reservationVars, stockVars, SetOrder, SetReservation
  <1>1. CASE InsertOrder(o)
    BY <1>1 DEF InsertOrder
  <1>2. CASE ReserveOrder(o)
    BY <1>2 DEF ReserveOrder
  <1>3. CASE RejectOrder(o)
    BY <1>3 DEF RejectOrder
  <1>4. CASE ConflictOrder(o)
    BY <1>4 DEF ConflictOrder, Payable
  <1>5. CASE CancelPendingOrder(o)
    BY <1>5 DEF CancelPendingOrder, Exists
  <1>6. CASE ClaimStockConflictRefund(o)
    BY <1>6 DEF ClaimStockConflictRefund
  <1>7. CASE ReleaseStockConflictRefundClaim(o)
    BY <1>7 DEF ReleaseStockConflictRefundClaim
  <1>8. CASE MarkRefunded(o)
    BY <1>8 DEF MarkRefunded
  <1>9. CASE DeleteOrder(o)
    BY <1>9 DEF DeleteOrder
  <1>10. CASE ReservationTimesOut(o)
    BY <1>10 DEF ReservationTimesOut
  <1>. QED
    BY <1>1, <1>2, <1>3, <1>4, <1>5, <1>6, <1>7, <1>8, <1>9, <1>10 DEF RowAction

LEMMA RowsCommit ==
    ASSUME TypeOK, Rows, NEW o \in Orders, CommitOrder(o)
    PROVE  Rows'
  BY DEF TypeOK, Rows, RowInv, DeadOrdersHoldNothing, StatusesAgree, CommitOrder, Payable,
         SetOrder, SetReservation

LEMMA RowsRestock ==
    ASSUME TypeOK, Rows, NEW o \in Orders, NEW refunded \in BOOLEAN,
           RestockCanceledOrder(o, refunded)
    PROVE  Rows'
  <1>1. restocked' = restocked \cup {o}
    BY DEF RestockCanceledOrder, Restock
  <1>. QED
    BY <1>1 DEF TypeOK, Rows, RowInv, DeadOrdersHoldNothing, StatusesAgree,
                RestockCanceledOrder, SetOrder, reservationVars

LEMMA RowsReturn ==
    ASSUME Rows, NEW r \in Returns, NEW lines, RestockReturn(r, lines)
    PROVE  Rows'
  BY DEF Rows, RowInv, DeadOrdersHoldNothing, StatusesAgree, RestockReturn, orderVars,
         reservationVars

LEMMA RowsSweep ==
    ASSUME TypeOK, Rows, ReleaseExpiredReservations
    PROVE  Rows'
  BY DEF TypeOK, Rows, RowInv, DeadOrdersHoldNothing, StatusesAgree,
         ReleaseExpiredReservations, stockVars

LEMMA RowsStep == TypeOK /\ Rows /\ [Next]_vars => Rows'
  <1>. SUFFICES ASSUME TypeOK, Rows, [Next]_vars PROVE Rows'
    OBVIOUS
  <1>1. CASE UNCHANGED vars
    BY <1>1 DEF vars, orderVars, reservationVars, stockVars, Rows, RowInv,
                DeadOrdersHoldNothing, StatusesAgree
  <1>2. CASE Next
    BY <1>2, RowsRows, RowsCommit, RowsRestock, RowsReturn, RowsSweep DEF Next, RowAction
  <1>. QED
    BY <1>1, <1>2

-----------------------------------------------------------------------------
(* The ledger *)

LEMMA LedgerInit == Init => LedgerMatchesStock
  BY TypeAssumption DEF Init, LedgerMatchesStock

LEMMA LedgerCommit ==
    ASSUME TypeOK, Rows, LedgerMatchesStock, NEW o \in Orders, CommitOrder(o)
    PROVE  LedgerMatchesStock'
  <1>1. o \notin sold
    BY DEF Rows, RowInv, CommitOrder, Payable
  <1>2. ASSUME NEW p \in Products
        PROVE  stock'[p] = InitStock[p] + moved'[p]
    BY <1>1, OrderUnits, TypeAssumption DEF TypeOK, CommitOrder, Payable, LedgerMatchesStock
  <1>. QED
    BY <1>2 DEF LedgerMatchesStock

LEMMA LedgerRestock ==
    ASSUME TypeOK, LedgerMatchesStock, NEW o \in Orders, NEW refunded \in BOOLEAN,
           RestockCanceledOrder(o, refunded)
    PROVE  LedgerMatchesStock'
  <1>1. ASSUME NEW p \in Products
        PROVE  stock'[p] = InitStock[p] + moved'[p]
    BY OrderUnits, TypeAssumption
    DEF TypeOK, RestockCanceledOrder, Restock, LedgerMatchesStock
  <1>. QED
    BY <1>1 DEF LedgerMatchesStock

LEMMA LedgerReturn ==
    ASSUME TypeOK, LedgerMatchesStock, NEW r \in Returns,
           NEW lines \in SUBSET ReturnLines(r), RestockReturn(r, lines)
    PROVE  LedgerMatchesStock'
  <1>. DEFINE fresh == lines \ returned[r]
  <1>1. /\ stock' = [p \in Products |-> stock[p] + Units(ReturnQty[r], fresh, p)]
        /\ moved' = [p \in Products |-> moved[p] + Units(ReturnQty[r], fresh, p)]
    BY DEF RestockReturn, FreshLines
  <1>2. fresh \in SUBSET Variants
    BY DEF ReturnLines
  <1>. HIDE DEF fresh
  <1>3. ASSUME NEW p \in Products
        PROVE  stock'[p] = InitStock[p] + moved'[p]
    BY <1>1, <1>2, ReturnUnits, TypeAssumption DEF TypeOK, LedgerMatchesStock
  <1>. QED
    BY <1>3 DEF LedgerMatchesStock

LEMMA LedgerStep ==
    TypeOK /\ Rows /\ LedgerMatchesStock /\ [Next]_vars => LedgerMatchesStock'
  <1>. SUFFICES ASSUME TypeOK, Rows, LedgerMatchesStock, [Next]_vars
                PROVE  LedgerMatchesStock'
    OBVIOUS
  <1>1. CASE UNCHANGED <<stock, moved>>
    BY <1>1 DEF LedgerMatchesStock
  <1>2. ASSUME NEW o \in Orders, RowAction(o)
        PROVE  UNCHANGED <<stock, moved>>
    BY <1>2 DEF RowAction, InsertOrder, ReserveOrder, RejectOrder, ConflictOrder, Payable,
                CancelPendingOrder, ClaimStockConflictRefund,
                ReleaseStockConflictRefundClaim, MarkRefunded, DeleteOrder,
                ReservationTimesOut, stockVars
  <1>3. ReleaseExpiredReservations \/ UNCHANGED vars => UNCHANGED <<stock, moved>>
    BY DEF ReleaseExpiredReservations, vars, stockVars
  <1>. QED
    BY <1>1, <1>2, <1>3, LedgerCommit, LedgerRestock, LedgerReturn DEF Next, RowAction

-----------------------------------------------------------------------------
(* What follows for the rows *)

LEMMA IInvInit == Init => IInv
  BY TypeInit, RowsInit, LedgerInit DEF IInv, Rows

LEMMA IInvStep == IInv /\ [Next]_vars => IInv'
  BY TypeStep, RowsStep, LedgerStep DEF IInv, Rows

LEMMA Inductive == Spec => []IInv
  BY IInvInit, IInvStep, PTL DEF Spec

\* products.stock always is its initial value plus the movements on record,
\* although commitOrder takes units whether or not it inserts a movement.
THEOREM LedgerHolds == Spec => []LedgerMatchesStock
  <1>1. IInv => LedgerMatchesStock
    BY DEF IInv
  <1>. QED
    BY <1>1, Inductive, PTL

\* Units have left the shelf exactly for the orders that are paid.
THEOREM UnitsOutArePaidHolds == Spec => []UnitsOutArePaid
  <1>1. IInv => UnitsOutArePaid
    BY DEF IInv, RowInv, UnitsOutArePaid, TypeOK, OrderStatus
  <1>. QED
    BY <1>1, Inductive, PTL

\* Only a pending, reserved order has an active reservation.
THEOREM DeadOrdersHoldNothingHolds == Spec => []DeadOrdersHoldNothing
  <1>1. IInv => DeadOrdersHoldNothing
    BY DEF IInv
  <1>. QED
    BY <1>1, Inductive, PTL

\* The status columns of an order agree with each other and with its movements.
THEOREM StatusesAgreeHolds == Spec => []StatusesAgree
  <1>1. IInv => StatusesAgree
    BY DEF IInv
  <1>. QED
    BY <1>1, Inductive, PTL

\* A paid order only leaves that status by the cancellation that restocks it, a
\* refund is never taken back, a conflict is never turned into a sale.
THEOREM DecisionsStandHolds == Spec => DecisionsStand
  <1>1. IInv /\ [Next]_vars => [DecisionStep]_vars
    <2>. SUFFICES ASSUME IInv, Next PROVE DecisionStep
      OBVIOUS
    <2>. USE DEF IInv, TypeOK, OrderStatus, RowInv, StatusesAgree, DecisionStep,
                 orderVars, reservationVars, stockVars, SetOrder
    <2>1. ASSUME NEW o \in Orders, RowAction(o)
          PROVE  DecisionStep
      BY <2>1 DEF RowAction, InsertOrder, ReserveOrder, RejectOrder, ConflictOrder, Payable,
                  CancelPendingOrder, Exists, ClaimStockConflictRefund,
                  ReleaseStockConflictRefundClaim, MarkRefunded, DeleteOrder,
                  ReservationTimesOut
    <2>2. ASSUME NEW o \in Orders, CommitOrder(o)
          PROVE  DecisionStep
      BY <2>2 DEF CommitOrder, Payable
    <2>3. ASSUME NEW o \in Orders, NEW refunded \in BOOLEAN,
                 RestockCanceledOrder(o, refunded)
          PROVE  DecisionStep
      BY <2>3 DEF RestockCanceledOrder, Restock
    <2>4. ASSUME NEW r \in Returns, NEW lines, RestockReturn(r, lines)
          PROVE  DecisionStep
      BY <2>4 DEF RestockReturn
    <2>5. CASE ReleaseExpiredReservations
      BY <2>5 DEF ReleaseExpiredReservations
    <2>. QED
      BY <2>1, <2>2, <2>3, <2>4, <2>5 DEF Next, RowAction
  <1>. QED
    BY <1>1, Inductive, PTL DEF Spec, DecisionsStand

-----------------------------------------------------------------------------
(* Orders from before the movements *)

\* An order from before the movements was paid, and is undone with its key.
LegacyInv ==
    \A o \in Legacy :
        /\ status[o] \in {"paid", "canceled", "deleted"}
        /\ status[o] # "paid" => o \in restocked

LInv == IInv /\ LegacyInv

-----------------------------------------------------------------------------
LEMMA LegacyInit == Init => LegacyInv
  BY TypeAssumption DEF Init, LegacyInv

LEMMA LegacyStep == IInv /\ LegacyInv /\ [Next]_vars => LegacyInv'
  <1>. SUFFICES ASSUME IInv, LegacyInv, [Next]_vars PROVE LegacyInv'
    OBVIOUS
  <1>. USE TypeAssumption DEF IInv, TypeOK, LegacyInv, orderVars, reservationVars, stockVars,
           SetOrder
  <1>1. CASE UNCHANGED vars
    BY <1>1 DEF vars
  <1>2. ASSUME NEW o \in Orders, RowAction(o)
        PROVE  LegacyInv'
    BY <1>2 DEF RowAction, InsertOrder, ReserveOrder, RejectOrder, ConflictOrder, Payable,
                CancelPendingOrder, Exists, ClaimStockConflictRefund,
                ReleaseStockConflictRefundClaim, MarkRefunded, DeleteOrder,
                ReservationTimesOut
  <1>3. ASSUME NEW o \in Orders, CommitOrder(o)
        PROVE  LegacyInv'
    BY <1>3 DEF CommitOrder, Payable
  <1>4. ASSUME NEW o \in Orders, NEW refunded \in BOOLEAN, RestockCanceledOrder(o, refunded)
        PROVE  LegacyInv'
    <2>1. restocked' = restocked \cup {o}
      BY <1>4 DEF RestockCanceledOrder, Restock
    <2>. QED
      BY <1>4, <2>1 DEF RestockCanceledOrder
  <1>5. ASSUME NEW r \in Returns, NEW lines, RestockReturn(r, lines)
        PROVE  LegacyInv'
    BY <1>5 DEF RestockReturn
  <1>6. CASE ReleaseExpiredReservations
    BY <1>6 DEF ReleaseExpiredReservations
  <1>. QED
    BY <1>1, <1>2, <1>3, <1>4, <1>5, <1>6 DEF Next, RowAction

LEMMA LInductive == Spec => []LInv
  <1>1. Init => LInv
    BY IInvInit, LegacyInit DEF LInv
  <1>2. LInv /\ [Next]_vars => LInv'
    BY IInvStep, LegacyStep DEF LInv
  <1>. QED
    BY <1>1, <1>2, PTL DEF Spec

-----------------------------------------------------------------------------
(* The abstract variables as functions of the status columns *)

GoodsOf(s) == IF s = "paid" THEN "out" ELSE "shelf"

LEMMA StageValues ==
    /\ StageOf["absent"] = "none" /\ StageOf["pending"] = "open"
    /\ StageOf["expired"] = "lapsed" /\ StageOf["paid"] = "sold"
    /\ StageOf["stock_conflict"] = "refused" /\ StageOf["canceled"] = "dead"
    /\ StageOf["deleted"] = "gone"
  BY DEF StageOf

LEMMA MoneyValues ==
    /\ MoneyOf["pending"] = "none" /\ MoneyOf["confirmed"] = "kept"
    /\ MoneyOf["refund_pending"] = "owed" /\ MoneyOf["refunded"] = "returned"
    /\ MoneyOf["failed"] = "none"
  BY DEF MoneyOf

\* Goods are out exactly for paid orders, the ones from before the movements too.
LEMMA GoodsFollowStatus ==
    ASSUME LInv
    PROVE  orderGoods = [o \in Orders |-> GoodsOf(status[o])]
  BY DEF LInv, IInv, TypeOK, RowInv, LegacyInv, OrderStatus, orderGoods, GoodsOf

MoneyIn(s, p) == IF s \in {"absent", "deleted"} THEN "none" ELSE MoneyOf[p]

\* One abstract step of o, in terms of its status columns before and after.
OrderStep(o, s, p) ==
    LET old  == StageOf[status[o]]
        owed == IF Exists(o) THEN MoneyOf[paymentStatus[o]] ELSE "none"
        new  == StageOf[s]
        due  == MoneyIn(s, p)
    IN  \/ old = "none" /\ new = "open" /\ due = "none"
        \/ old \in {"open", "lapsed"} /\ new = "sold" /\ due = "kept"
        \/ old \in {"open", "lapsed"} /\ new = "refused" /\ due = "owed"
        \/ old \in {"open", "lapsed"} /\ new = "dead" /\ due = "none"
        \/ old = "sold" /\ new = "dead" /\ due \in {"owed", "returned"}
        \/ owed = "owed" /\ s = status[o] /\ due = "returned"
        \/ old \in {"open", "dead"} /\ new = "gone" /\ due = "none"
        \/ old = "refused" /\ owed = "returned" /\ new = "gone" /\ due = "none"

LEMMA OrderStepIsAbstract ==
    ASSUME LInv, LInv', NEW o \in Orders, NEW s \in OrderStatus, NEW p \in PaymentStatus,
           status' = [status EXCEPT ![o] = s],
           paymentStatus' = [paymentStatus EXCEPT ![o] = p],
           OrderStep(o, s, p)
    PROVE  Order!LifecycleNext
  <1>. DEFINE new == StageOf[s]
              due == MoneyIn(s, p)
  <1>1. Order!Becomes(o, new, GoodsOf(s), due)
    <2>. USE DEF LInv, IInv, TypeOK
    <2>1. orderStage' = [orderStage EXCEPT ![o] = new]
      BY DEF orderStage
    <2>2. orderGoods' = [q \in Orders |-> GoodsOf(status'[q])]
      BY GoodsFollowStatus DEF GoodsOf, orderGoods, LegacyInv, RowInv, OrderStatus
    <2>3. orderGoods = [q \in Orders |-> GoodsOf(status[q])]
      BY GoodsFollowStatus
    <2>4. orderGoods' = [orderGoods EXCEPT ![o] = GoodsOf(s)]
      BY <2>2, <2>3 DEF GoodsOf
    <2>5. orderMoney' = [orderMoney EXCEPT ![o] = due]
      BY DEF orderMoney, Exists, MoneyIn
    <2>. QED
      BY <2>1, <2>4, <2>5 DEF Order!Becomes, orderStage, orderGoods, orderMoney
  <1>2. /\ orderStage[o] = StageOf[status[o]]
        /\ orderGoods[o] = GoodsOf(status[o])
        /\ orderMoney[o] = IF Exists(o) THEN MoneyOf[paymentStatus[o]] ELSE "none"
    <2>1. orderGoods[o] = GoodsOf(status[o])
      BY GoodsFollowStatus
    <2>. QED
      BY <2>1 DEF orderStage, orderMoney
  <1>3. GoodsOf(s) = IF new = "sold" THEN "out" ELSE "shelf"
    <2>1. s = "paid" <=> new = "sold"
      BY StageValues DEF OrderStatus
    <2>. QED
      BY <2>1 DEF GoodsOf
  <1>. HIDE DEF new, due
  <1>4. Order!Place(o) \/ Order!Sell(o) \/ Order!Refuse(o) \/ Order!Abandon(o)
        \/ Order!Undo(o) \/ Order!Repay(o) \/ Order!Forget(o)
    <2>1. CASE orderStage[o] = "none" /\ new = "open" /\ due = "none"
      BY <2>1, <1>1, <1>3 DEF Order!Place, orderStage
    <2>2. CASE orderStage[o] \in {"open", "lapsed"} /\ new = "sold" /\ due = "kept"
      BY <2>2, <1>1, <1>3 DEF Order!Sell, orderStage
    <2>3. CASE orderStage[o] \in {"open", "lapsed"} /\ new = "refused" /\ due = "owed"
      BY <2>3, <1>1, <1>3 DEF Order!Refuse, orderStage
    <2>4. CASE orderStage[o] \in {"open", "lapsed"} /\ new = "dead" /\ due = "none"
      BY <2>4, <1>1, <1>3 DEF Order!Abandon, orderStage
    <2>5. CASE orderStage[o] = "sold" /\ new = "dead" /\ due \in {"owed", "returned"}
      BY <2>5, <1>1, <1>3 DEF Order!Undo, orderStage
    <2>6. CASE orderMoney[o] = "owed" /\ s = status[o] /\ due = "returned"
      <3>1. new = orderStage[o] /\ GoodsOf(s) = orderGoods[o]
        BY <2>6, <1>2 DEF new
      <3>. QED
        BY <2>6, <3>1, <1>1 DEF Order!Repay, orderStage, orderGoods, orderMoney
    <2>7. CASE orderStage[o] \in {"open", "dead"} /\ new = "gone" /\ due = "none"
      BY <2>7, <1>1, <1>3 DEF Order!Forget, orderStage
    <2>8. CASE orderStage[o] = "refused" /\ orderMoney[o] = "returned" /\ new = "gone" /\ due = "none"
      BY <2>8, <1>1, <1>3 DEF Order!Forget, orderStage, orderMoney
    <2>. QED
      BY <1>2, <2>1, <2>2, <2>3, <2>4, <2>5, <2>6, <2>7, <2>8 DEF OrderStep, MoneyIn, new, due
  <1>. QED
    BY <1>4 DEF Order!LifecycleNext

\* A step that leaves the status columns alone is a stutter of every order.
LEMMA QuietStep ==
    ASSUME LInv, LInv', UNCHANGED <<status, paymentStatus>>
    PROVE  UNCHANGED Order!lifecycleVars
  <1>1. orderStage' = orderStage /\ orderMoney' = orderMoney
    BY DEF orderStage, orderMoney, Exists
  <1>2. orderGoods' = [q \in Orders |-> GoodsOf(status'[q])]
    BY GoodsFollowStatus DEF LInv, IInv, TypeOK, GoodsOf, orderGoods, LegacyInv, RowInv, OrderStatus
  <1>3. orderGoods' = orderGoods
    BY <1>2, GoodsFollowStatus
  <1>. QED
    BY <1>1, <1>3 DEF Order!lifecycleVars, orderStage, orderGoods, orderMoney

-----------------------------------------------------------------------------
(* The steps *)

\* An action on one order as new values of its two status columns.
Effect(o, s, p) ==
    /\ s \in OrderStatus
    /\ p \in PaymentStatus
    /\ status' = [status EXCEPT ![o] = s]
    /\ paymentStatus' = [paymentStatus EXCEPT ![o] = p]
    /\ OrderStep(o, s, p)

LEMMA EffectIsAbstract ==
    ASSUME LInv, LInv', NEW o \in Orders, NEW s, NEW p, Effect(o, s, p)
    PROVE  Order!LifecycleNext
  BY OrderStepIsAbstract DEF Effect

LEMMA RowEffect ==
    ASSUME LInv, NEW o \in Orders, RowAction(o)
    PROVE  (\E s, p : Effect(o, s, p)) \/ UNCHANGED <<status, paymentStatus>>
  <1>. USE StageValues, MoneyValues
       DEF LInv, IInv, TypeOK, OrderStatus, PaymentStatus, InventoryStatus,
           orderVars, reservationVars, stockVars, SetOrder, OrderStep, MoneyIn, Effect
  <1>1. CASE InsertOrder(o)
    <2>1. Effect(o, "pending", "pending")
      BY <1>1 DEF InsertOrder
    <2>. HIDE DEF Effect
    <2>. QED
      BY <2>1
  <1>2. CASE RejectOrder(o)
    <2>1. Effect(o, "deleted", paymentStatus[o])
      BY <1>2 DEF RejectOrder
    <2>. HIDE DEF Effect
    <2>. QED
      BY <2>1
  <1>3. CASE ConflictOrder(o)
    <2>1. Effect(o, "stock_conflict", "refund_pending")
      BY <1>3 DEF ConflictOrder, Payable
    <2>. HIDE DEF Effect
    <2>. QED
      BY <2>1
  <1>4. CASE CancelPendingOrder(o)
    <2>1. Effect(o, "canceled", "failed")
      BY <1>4 DEF CancelPendingOrder, Exists
    <2>. HIDE DEF Effect
    <2>. QED
      BY <2>1
  <1>5. CASE MarkRefunded(o)
    <2>1. CASE paymentStatus[o] = "refunded"
      BY <1>5, <2>1 DEF MarkRefunded
    <2>2. CASE paymentStatus[o] # "refunded"
      <3>1. paymentStatus[o] = "refund_pending"
        BY <1>5, <2>2 DEF MarkRefunded, StatusesAgree
      <3>2. Effect(o, status[o], "refunded")
        BY <1>5, <3>1 DEF MarkRefunded, Exists
      <3>. HIDE DEF Effect
      <3>. QED
        BY <3>2
    <2>. QED
      BY <2>1, <2>2
  <1>6. CASE DeleteOrder(o)
    <2>1. Effect(o, "deleted", paymentStatus[o])
      BY <1>6 DEF DeleteOrder, Exists
    <2>. HIDE DEF Effect
    <2>. QED
      BY <2>1
  <1>7. CASE ReserveOrder(o) \/ ClaimStockConflictRefund(o)
             \/ ReleaseStockConflictRefundClaim(o) \/ ReservationTimesOut(o)
    BY <1>7 DEF ReserveOrder, ClaimStockConflictRefund, ReleaseStockConflictRefundClaim,
                ReservationTimesOut
  <1>. QED
    BY <1>1, <1>2, <1>3, <1>4, <1>5, <1>6, <1>7 DEF RowAction

LEMMA PaymentEffect ==
    ASSUME LInv, NEW o \in Orders,
           CommitOrder(o) \/ \E refunded \in BOOLEAN : RestockCanceledOrder(o, refunded)
    PROVE  \E s, p : Effect(o, s, p)
  <1>. USE StageValues, MoneyValues
       DEF LInv, IInv, TypeOK, OrderStatus, PaymentStatus, SetOrder, OrderStep, MoneyIn, Effect
  <1>1. CASE CommitOrder(o)
    <2>1. Effect(o, "paid", "confirmed")
      BY <1>1 DEF CommitOrder, Payable
    <2>. HIDE DEF Effect
    <2>. QED
      BY <2>1
  <1>2. ASSUME NEW refunded \in BOOLEAN, RestockCanceledOrder(o, refunded)
        PROVE  \E s, p : Effect(o, s, p)
    <2>1. Effect(o, "canceled", IF refunded THEN "refunded" ELSE "refund_pending")
      BY <1>2 DEF RestockCanceledOrder
    <2>. HIDE DEF Effect
    <2>. QED
      BY <2>1
  <1>. QED
    BY <1>1, <1>2

LEMMA SweepIsLapse ==
    ASSUME LInv, LInv', ReleaseExpiredReservations
    PROVE  Order!LifecycleNext
  <1>. DEFINE dead == {q \in Orders :
                          /\ status[q] = "pending"
                          /\ inventoryStatus[q] = "reserved"
                          /\ reservation[q] # "active" \/ q \notin live}
  <1>. USE DEF LInv, IInv, TypeOK
  <1>1. /\ status' = [q \in Orders |-> IF q \in dead THEN "expired" ELSE status[q]]
        /\ UNCHANGED paymentStatus
    BY DEF ReleaseExpiredReservations
  <1>2. \A q \in dead : status[q] = "pending"
    OBVIOUS
  <1>3. dead \in SUBSET Orders
    OBVIOUS
  <1>. HIDE DEF dead
  <1>4. orderStage' = [q \in Orders |-> IF q \in dead THEN "lapsed" ELSE orderStage[q]]
    BY <1>1, <1>3, StageValues DEF orderStage
  <1>5. orderGoods' = orderGoods
    <2>1. orderGoods' = [q \in Orders |-> GoodsOf(status'[q])]
      BY GoodsFollowStatus DEF GoodsOf, orderGoods, LegacyInv, RowInv, OrderStatus
    <2>2. \A q \in Orders : GoodsOf(status'[q]) = GoodsOf(status[q])
      BY <1>1, <1>2 DEF GoodsOf
    <2>. QED
      BY <2>1, <2>2, GoodsFollowStatus
  <1>6. orderMoney' = orderMoney
    BY <1>1, <1>2 DEF orderMoney, Exists
  <1>7. \A q \in dead : orderStage[q] = "open"
    BY <1>2, <1>3, StageValues DEF orderStage
  <1>8. Order!Lapse(dead)
    BY <1>4, <1>5, <1>6, <1>7 DEF Order!Lapse, orderStage, orderGoods, orderMoney
  <1>9. \E os \in SUBSET Orders : Order!Lapse(os)
    BY <1>3, <1>8
  <1>. QED
    BY <1>9 DEF Order!LifecycleNext

LEMMA StepIsAbstract ==
    LInv /\ LInv' /\ [Next]_vars => [Order!LifecycleNext]_(Order!lifecycleVars)
  <1>. SUFFICES ASSUME LInv, LInv', [Next]_vars
                PROVE  Order!LifecycleNext \/ UNCHANGED Order!lifecycleVars
    OBVIOUS
  <1>1. CASE UNCHANGED vars
    BY <1>1, QuietStep DEF vars, orderVars
  <1>2. ASSUME NEW o \in Orders, RowAction(o)
        PROVE  Order!LifecycleNext \/ UNCHANGED Order!lifecycleVars
    BY <1>2, RowEffect, EffectIsAbstract, QuietStep
  <1>3. ASSUME NEW o \in Orders,
               CommitOrder(o) \/ \E refunded \in BOOLEAN : RestockCanceledOrder(o, refunded)
        PROVE  Order!LifecycleNext
    BY <1>3, PaymentEffect, EffectIsAbstract
  <1>4. ASSUME NEW r \in Returns, NEW lines, RestockReturn(r, lines)
        PROVE  UNCHANGED Order!lifecycleVars
    <2>1. UNCHANGED <<status, paymentStatus>>
      BY <1>4 DEF RestockReturn, orderVars
    <2>. QED
      BY <2>1, QuietStep
  <1>5. CASE ReleaseExpiredReservations
    BY <1>5, SweepIsLapse
  <1>. QED
    BY <1>1, <1>2, <1>3, <1>4, <1>5 DEF Next, RowAction

\* InventoryService implements the life of an order: for any orders and any
\* interleaving of its operations, the goods of an order leave once and only for
\* money that is kept, and come back with the money owed or returned.
THEOREM ImplementsLifecycleHolds == Spec => ImplementsLifecycle
  <1>1. Init => Order!LifecycleInit
    BY StageValues, MoneyValues, TypeAssumption
    DEF Init, Order!LifecycleInit, orderStage, orderGoods, orderMoney, Exists
  <1>. QED
    BY <1>1, LInductive, StepIsAbstract, PTL DEF Spec, ImplementsLifecycle, Order!Lifecycle

-----------------------------------------------------------------------------
(* Products with colours *)

\* Beyond LInv: an order from before the movements never got a sale row.
LegacyUnsold == sold \cap Legacy = {}

CInv == LInv /\ LegacyUnsold /\ ColoursAddUp

OfProduct(p) == {v \in Variants : ProductOf[v] = p}

LEMMA OfProductFinite ==
    \A p : IsFiniteSet(OfProduct(p)) /\ OfProduct(p) \subseteq Variants
  BY TypeAssumption, FS_Subset DEF OfProduct

\* Per order, and per return, what it would give back of product p.
OrderGift(p) == [o \in Orders |-> Units(Qty[o], Variants, p)]
ReturnGift(p) == [r \in Returns |-> Units(ReturnQty[r], returned[r], p)]
LegacyReturns == {r \in Returns : ReturnOrder[r] \in Legacy}

\* What ColoursAddUp says of one product.
ColourSum(p) ==
    stock[p] - Total(cell, OfProduct(p))
        = InitStock[p] - Total(InitCell, OfProduct(p)) + LegacyGivenBack(p)

LEMMA ColoursAddUpUnfold ==
    ColoursAddUp <=> \A p \in Products : OfProduct(p) \subseteq Coloured => ColourSum(p)
  BY DEF ColoursAddUp, ColourSum, OfProduct

LEMMA GivenBack ==
    \A p : LegacyGivenBack(p) = Total(OrderGift(p), restocked \cap Legacy)
                                + Total(ReturnGift(p), LegacyReturns)
  BY DEF LegacyGivenBack, OrderGift, ReturnGift, LegacyReturns

\* The totals of ColourSum are integers.
LEMMA ColourTypes ==
    ASSUME TypeOK, NEW p \in Products
    PROVE  /\ stock[p] \in Int /\ InitStock[p] \in Int
           /\ Total(cell, OfProduct(p)) \in Int
           /\ Total(InitCell, OfProduct(p)) \in Int
           /\ Total(OrderGift(p), restocked \cap Legacy) \in Nat
           /\ Total(ReturnGift(p), LegacyReturns) \in Nat
           /\ IsFiniteSet(LegacyReturns) /\ IsFiniteSet(restocked \cap Legacy)
           /\ \A o \in Orders : OrderGift(p)[o] \in Nat
           /\ \A r \in Returns : ReturnGift(p)[r] \in Nat
  <1>1. stock[p] \in Int /\ InitStock[p] \in Int
    BY TypeAssumption DEF TypeOK
  <1>2. IsFiniteSet(OfProduct(p)) /\ OfProduct(p) \subseteq Variants
    BY OfProductFinite
  <1>3. \A v \in OfProduct(p) : cell[v] \in Int /\ InitCell[v] \in Int
    BY <1>2, TypeAssumption DEF TypeOK
  <1>4. Total(cell, OfProduct(p)) \in Int /\ Total(InitCell, OfProduct(p)) \in Int
    BY <1>2, <1>3, TotalInt
  <1>5. \A o \in Orders : OrderGift(p)[o] \in Nat
    BY OrderUnits DEF OrderGift
  <1>6. \A r \in Returns : ReturnGift(p)[r] \in Nat
    BY ReturnUnits DEF ReturnGift, TypeOK
  <1>7. /\ IsFiniteSet(LegacyReturns) /\ IsFiniteSet(restocked \cap Legacy)
        /\ LegacyReturns \subseteq Returns /\ restocked \cap Legacy \subseteq Orders
    BY TypeAssumption, FS_Subset DEF LegacyReturns, TypeOK
  <1>8. \A o \in restocked \cap Legacy : OrderGift(p)[o] \in Nat
    BY <1>5, <1>7
  <1>9. \A r \in LegacyReturns : ReturnGift(p)[r] \in Nat
    BY <1>6, <1>7
  <1>10. Total(OrderGift(p), restocked \cap Legacy) \in Nat
    BY <1>7, <1>8, TotalNat
  <1>11. Total(ReturnGift(p), LegacyReturns) \in Nat
    BY <1>7, <1>9, TotalNat
  <1>. QED
    BY <1>1, <1>4, <1>5, <1>6, <1>7, <1>10, <1>11

\* Taking the quantities q of an order from the cells.
LEMMA CellsLess ==
    ASSUME TypeOK, NEW q \in [Variants -> Nat],
           NEW p \in Products, OfProduct(p) \subseteq Coloured, TypeOK',
           cell' = [v \in Variants |-> IF v \in Coloured THEN cell[v] - q[v] ELSE cell[v]]
    PROVE  Total(cell', OfProduct(p)) = Total(cell, OfProduct(p)) - Units(q, Variants, p)
  <1>1. IsFiniteSet(OfProduct(p)) /\ OfProduct(p) \subseteq Variants
    BY OfProductFinite
  <1>2. \A v \in OfProduct(p) : cell[v] \in Int /\ q[v] \in Int /\ cell'[v] = cell[v] - q[v]
    BY <1>1 DEF TypeOK
  <1>3. Total(cell', OfProduct(p)) = Total(cell, OfProduct(p)) - Total(q, OfProduct(p))
    BY <1>1, <1>2, TotalMinus
  <1>. QED
    BY <1>3 DEF Units, OfProduct

\* Adding the quantities q of the variants vs to the cells.
LEMMA CellsMore ==
    ASSUME TypeOK, NEW q \in [Variants -> Nat], NEW vs \in SUBSET Variants,
           NEW p \in Products, OfProduct(p) \subseteq Coloured,
           cell' = [v \in Variants |-> IF v \in Coloured \cap vs THEN cell[v] + q[v] ELSE cell[v]]
    PROVE  Total(cell', OfProduct(p)) = Total(cell, OfProduct(p)) + Units(q, vs, p)
  <1>. DEFINE A == {v \in vs : ProductOf[v] = p}
              B == OfProduct(p) \ A
  <1>1. /\ IsFiniteSet(A) /\ IsFiniteSet(B) /\ A \cap B = {} /\ A \cup B = OfProduct(p)
        /\ A \subseteq Coloured \cap vs /\ B \cap vs = {}
        /\ OfProduct(p) \subseteq Variants
    BY OfProductFinite, FS_Subset DEF OfProduct
  <1>. HIDE DEF A, B
  <1>2. \A v \in A \cup B : cell[v] \in Int /\ cell'[v] \in Int /\ q[v] \in Int
    BY <1>1 DEF TypeOK
  <1>3. \A v \in A : cell'[v] = cell[v] + q[v]
    BY <1>1
  <1>4. \A v \in B : cell'[v] = cell[v]
    BY <1>1
  <1>5. Total(cell', A) = Total(cell, A) + Total(q, A)
    <2>1. \A v \in A : cell[v] \in Int /\ q[v] \in Int /\ cell'[v] = cell[v] + q[v]
      BY <1>2, <1>3
    <2>. QED
      BY <1>1, <2>1, TotalPlus
  <1>6. Total(cell', B) = Total(cell, B)
    BY <1>1, <1>4, TotalEqual
  <1>7. /\ Total(cell', A \cup B) = Total(cell', A) + Total(cell', B)
        /\ Total(cell, A \cup B) = Total(cell, A) + Total(cell, B)
    BY <1>1, <1>2, TotalSplit
  <1>8. Total(cell, A) \in Int /\ Total(cell, B) \in Int /\ Total(q, A) \in Int
    BY <1>1, <1>2, TotalInt
  <1>9. Units(q, vs, p) = Total(q, A)
    BY DEF Units, A
  <1>10. Total(cell', A \cup B) = Total(cell, A \cup B) + Total(q, A)
    BY <1>5, <1>6, <1>7, <1>8
  <1>. QED
    BY <1>1, <1>9, <1>10

LEMMA ColoursCommit ==
    ASSUME CInv, LInv', NEW o \in Orders, CommitOrder(o)
    PROVE  ColoursAddUp'
  <1>. SUFFICES ASSUME NEW p \in Products, OfProduct(p) \subseteq Coloured
                PROVE  ColourSum(p)'
    BY DEF ColoursAddUp, ColourSum, OfProduct
  <1>0. TypeOK /\ TypeOK' /\ ColourSum(p)
    BY ColoursAddUpUnfold DEF CInv, LInv, IInv
  <1>1. Qty[o] \in [Variants -> Nat]
    BY TypeAssumption
  <1>2. Total(cell', OfProduct(p)) = Total(cell, OfProduct(p)) - Units(Qty[o], Variants, p)
    BY <1>0, <1>1, CellsLess DEF CommitOrder
  <1>3. stock'[p] = stock[p] - Units(Qty[o], Variants, p)
    BY DEF CommitOrder
  <1>4. LegacyGivenBack(p)' = LegacyGivenBack(p)
    BY DEF CommitOrder, LegacyGivenBack
  <1>5. LegacyGivenBack(p) \in Int
    BY <1>0, ColourTypes, GivenBack
  <1>6. Units(Qty[o], Variants, p) \in Nat
    BY OrderUnits
  <1>. QED
    BY <1>0, <1>2, <1>3, <1>4, <1>5, <1>6, ColourTypes DEF ColourSum

LEMMA ColoursRestock ==
    ASSUME CInv, LInv', NEW o \in Orders, NEW refunded \in BOOLEAN,
           RestockCanceledOrder(o, refunded)
    PROVE  ColoursAddUp'
  <1>. SUFFICES ASSUME NEW p \in Products, OfProduct(p) \subseteq Coloured
                PROVE  ColourSum(p)'
    BY DEF ColoursAddUp, ColourSum, OfProduct
  <1>. DEFINE u == Units(Qty[o], Variants, p)
  <1>0. TypeOK /\ TypeOK' /\ ColourSum(p)
    BY ColoursAddUpUnfold DEF CInv, LInv, IInv
  <1>1. Qty[o] \in [Variants -> Nat] /\ u \in Nat
    BY TypeAssumption, OrderUnits
  <1>2. o \notin restocked /\ (o \in sold <=> o \notin Legacy)
    BY DEF RestockCanceledOrder, CInv, LInv, IInv, RowInv, LegacyUnsold
  <1>3. /\ cell' = [v \in Variants |-> IF v \in Coloured /\ o \in sold THEN cell[v] + Qty[o][v]
                                       ELSE cell[v]]
        /\ stock'[p] = stock[p] + u
        /\ restocked' = restocked \cup {o}
        /\ returned' = returned
    BY <1>2 DEF RestockCanceledOrder, Restock
  <1>4. ReturnGift(p)' = ReturnGift(p)
    BY <1>3 DEF ReturnGift
  <1>5. CASE o \in sold
    <2>1. Total(cell', OfProduct(p)) = Total(cell, OfProduct(p)) + u
      <3>1. cell' = [v \in Variants |-> IF v \in Coloured \cap Variants THEN cell[v] + Qty[o][v]
                                        ELSE cell[v]]
        BY <1>3, <1>5
      <3>2. Variants \in SUBSET Variants
        OBVIOUS
      <3>. QED
        BY <1>0, <1>1, <3>1, <3>2, CellsMore
    <2>2. restocked' \cap Legacy = restocked \cap Legacy
      BY <1>2, <1>3, <1>5
    <2>3. LegacyGivenBack(p)' = LegacyGivenBack(p)
      BY <1>3, <2>2 DEF LegacyGivenBack
    <2>4. LegacyGivenBack(p) \in Int
      BY <1>0, ColourTypes, GivenBack
    <2>. HIDE DEF u
    <2>. QED
      BY <1>0, <1>1, <1>3, <2>1, <2>3, <2>4, ColourTypes DEF ColourSum
  <1>6. CASE o \notin sold
    <2>1. cell' = cell
      BY <1>0, <1>3, <1>6 DEF TypeOK
    <2>2. restocked' \cap Legacy = (restocked \cap Legacy) \cup {o} /\ o \notin restocked \cap Legacy
      BY <1>2, <1>3, <1>6
    <2>3. Total(OrderGift(p), (restocked \cap Legacy) \cup {o})
            = OrderGift(p)[o] + Total(OrderGift(p), restocked \cap Legacy)
      <3>0. restocked \cap Legacy \subseteq Orders
        BY <1>0 DEF TypeOK
      <3>1. IsFiniteSet(restocked \cap Legacy)
        BY <1>0, ColourTypes
      <3>4. \A z \in Orders : OrderGift(p)[z] \in Nat
        BY <1>0, ColourTypes
      <3>5. \A z \in restocked \cap Legacy : OrderGift(p)[z] \in Int
        BY <3>0, <3>4
      <3>2. OrderGift(p)[o] \in Int
        BY <1>0, ColourTypes
      <3>. QED
        BY <2>2, <3>1, <3>2, <3>5, TotalInsert
    <2>4. OrderGift(p)[o] = u
      BY DEF OrderGift
    <2>5. LegacyGivenBack(p)' = Total(OrderGift(p), restocked' \cap Legacy)
                                 + Total(ReturnGift(p), LegacyReturns)
      BY <1>3 DEF LegacyGivenBack, OrderGift, ReturnGift, LegacyReturns
    <2>. HIDE DEF u
    <2>6. LegacyGivenBack(p)' = LegacyGivenBack(p) + u
      <3>1. LegacyGivenBack(p)' = u + Total(OrderGift(p), restocked \cap Legacy)
                                     + Total(ReturnGift(p), LegacyReturns)
        BY <2>2, <2>3, <2>4, <2>5
      <3>2. LegacyGivenBack(p) = Total(OrderGift(p), restocked \cap Legacy)
                                   + Total(ReturnGift(p), LegacyReturns)
        BY GivenBack
      <3>3. /\ Total(OrderGift(p), restocked \cap Legacy) \in Nat
            /\ Total(ReturnGift(p), LegacyReturns) \in Nat
        BY <1>0, ColourTypes
      <3>. QED
        BY <1>1, <3>1, <3>2, <3>3
    <2>7. LegacyGivenBack(p) \in Int
      BY <1>0, ColourTypes, GivenBack
    <2>. QED
      BY <1>0, <1>1, <1>3, <2>1, <2>6, <2>7, ColourTypes DEF ColourSum
  <1>. QED
    BY <1>5, <1>6

LEMMA ColoursReturn ==
    ASSUME CInv, LInv', NEW r \in Returns, NEW lines \in SUBSET ReturnLines(r),
           RestockReturn(r, lines)
    PROVE  ColoursAddUp'
  <1>. SUFFICES ASSUME NEW p \in Products, OfProduct(p) \subseteq Coloured
                PROVE  ColourSum(p)'
    BY DEF ColoursAddUp, ColourSum, OfProduct
  <1>. DEFINE o == ReturnOrder[r]
              fresh == lines \ returned[r]
              u == Units(ReturnQty[r], fresh, p)
  <1>0. TypeOK /\ TypeOK' /\ ColourSum(p)
    BY ColoursAddUpUnfold DEF CInv, LInv, IInv
  <1>1. /\ ReturnQty[r] \in [Variants -> Nat] /\ fresh \in SUBSET Variants
        /\ o \in Orders /\ returned[r] \in SUBSET Variants
    BY <1>0, TypeAssumption DEF ReturnLines, TypeOK
  <1>2. u \in Nat
    <2>. HIDE DEF fresh
    <2>. QED
      BY <1>1, ReturnUnits
  <1>3. /\ cell' = [v \in Variants |-> IF v \in Coloured \cap fresh /\ o \in sold
                                       THEN cell[v] + ReturnQty[r][v] ELSE cell[v]]
        /\ stock'[p] = stock[p] + u
        /\ returned' = [returned EXCEPT ![r] = @ \cup fresh]
        /\ restocked' = restocked
        /\ o \in sold <=> o \notin Legacy
    BY DEF RestockReturn, FreshLines, CInv, LegacyUnsold
  <1>. HIDE DEF o
  <1>4. CASE o \in sold
    <2>1. Total(cell', OfProduct(p)) = Total(cell, OfProduct(p)) + u
      <3>1. cell' = [v \in Variants |-> IF v \in Coloured \cap fresh THEN cell[v] + ReturnQty[r][v]
                                        ELSE cell[v]]
        BY <1>3, <1>4
      <3>. HIDE DEF fresh
      <3>. QED
        BY <1>0, <1>1, <3>1, CellsMore
    <2>2. Total(ReturnGift(p)', LegacyReturns) = Total(ReturnGift(p), LegacyReturns)
      <3>1. r \notin LegacyReturns
        BY <1>3, <1>4 DEF LegacyReturns, o
      <3>2. \A s \in LegacyReturns : (ReturnGift(p)')[s] = ReturnGift(p)[s]
        BY <1>0, <1>3, <3>1 DEF ReturnGift, LegacyReturns, TypeOK
      <3>3. IsFiniteSet(LegacyReturns)
        BY <1>0, ColourTypes
      <3>. QED
        BY <3>2, <3>3, TotalEqual
    <2>3. LegacyGivenBack(p)' = LegacyGivenBack(p)
      <3>1. LegacyGivenBack(p)' = Total(OrderGift(p), restocked \cap Legacy)
                                   + Total(ReturnGift(p)', LegacyReturns)
        BY <1>3 DEF LegacyGivenBack, OrderGift, ReturnGift, LegacyReturns
      <3>. QED
        BY <2>2, <3>1, GivenBack
    <2>4. LegacyGivenBack(p) \in Int
      BY <1>0, ColourTypes, GivenBack
    <2>. HIDE DEF u
    <2>. QED
      BY <1>0, <1>2, <1>3, <2>1, <2>3, <2>4, ColourTypes DEF ColourSum
  <1>5. CASE o \notin sold
    <2>1. cell' = cell
      BY <1>0, <1>3, <1>5 DEF TypeOK
    <2>2. r \in LegacyReturns
      BY <1>3, <1>5 DEF LegacyReturns, o
    <2>3. (ReturnGift(p)')[r] = ReturnGift(p)[r] + u
      <3>. DEFINE A == {v \in returned[r] : ProductOf[v] = p}
                  B == {v \in fresh : ProductOf[v] = p}
      <3>1. returned'[r] = returned[r] \cup fresh
        BY <1>0, <1>3 DEF TypeOK
      <3>2. {v \in returned'[r] : ProductOf[v] = p} = A \cup B /\ A \cap B = {}
        BY <3>1
      <3>3. IsFiniteSet(A) /\ IsFiniteSet(B) /\ \A v \in A \cup B : ReturnQty[r][v] \in Int
        <4>1. A \subseteq Variants /\ B \subseteq Variants
          BY <1>1
        <4>. HIDE DEF A, B
        <4>. QED
          BY <1>1, <4>1, TypeAssumption, FS_Subset
      <3>4. (ReturnGift(p)')[r] = Total(ReturnQty[r], A \cup B)
        BY <3>2 DEF ReturnGift, Units
      <3>5. ReturnGift(p)[r] = Total(ReturnQty[r], A) /\ u = Total(ReturnQty[r], B)
        BY DEF ReturnGift, Units
      <3>. HIDE DEF A, B, u, fresh
      <3>6. Total(ReturnQty[r], A \cup B) = Total(ReturnQty[r], A) + Total(ReturnQty[r], B)
        BY <3>2, <3>3, TotalSplit
      <3>. QED
        BY <3>4, <3>5, <3>6
    <2>4. Total(ReturnGift(p)', LegacyReturns) = Total(ReturnGift(p), LegacyReturns) + u
      <3>1. \A s \in LegacyReturns \ {r} : ReturnGift(p)[s] = (ReturnGift(p)')[s]
        BY <1>0, <1>3 DEF ReturnGift, LegacyReturns, TypeOK
      <3>2. IsFiniteSet(LegacyReturns) /\ LegacyReturns \subseteq Returns
        BY <1>0, ColourTypes DEF LegacyReturns
      <3>3. \A s \in LegacyReturns : ReturnGift(p)[s] \in Int
        BY <1>0, <3>2, ColourTypes
      <3>. HIDE DEF u, fresh
      <3>4. (ReturnGift(p)')[r] \in Int
        BY <1>2, <2>2, <2>3, <3>3
      <3>5. \A s \in LegacyReturns : ReturnGift(p)[s] \in Int /\ (ReturnGift(p)')[s] \in Int
        BY <3>1, <3>3, <3>4
      <3>6. Total(ReturnGift(p)', LegacyReturns)
              = Total(ReturnGift(p), LegacyReturns) + (ReturnGift(p)')[r] - ReturnGift(p)[r]
        BY <2>2, <3>1, <3>2, <3>5, TotalUpdate
      <3>7. Total(ReturnGift(p), LegacyReturns) \in Int
        BY <1>0, ColourTypes
      <3>. QED
        BY <1>2, <2>2, <2>3, <3>3, <3>6, <3>7
    <2>. HIDE DEF u, fresh
    <2>5. LegacyGivenBack(p)' = LegacyGivenBack(p) + u
      <3>1. LegacyGivenBack(p)' = Total(OrderGift(p), restocked \cap Legacy)
                                   + Total(ReturnGift(p)', LegacyReturns)
        BY <1>3 DEF LegacyGivenBack, OrderGift, ReturnGift, LegacyReturns
      <3>. QED
        <4>1. LegacyGivenBack(p)' = Total(OrderGift(p), restocked \cap Legacy)
                                     + (Total(ReturnGift(p), LegacyReturns) + u)
          BY <2>4, <3>1
        <4>2. LegacyGivenBack(p) = Total(OrderGift(p), restocked \cap Legacy)
                                     + Total(ReturnGift(p), LegacyReturns)
          BY GivenBack
        <4>3. /\ Total(OrderGift(p), restocked \cap Legacy) \in Nat
              /\ Total(ReturnGift(p), LegacyReturns) \in Nat
          BY <1>0, ColourTypes
        <4>. QED
          BY <1>2, <4>1, <4>2, <4>3
    <2>6. LegacyGivenBack(p) \in Int
      BY <1>0, ColourTypes, GivenBack
    <2>. QED
      BY <1>0, <1>2, <1>3, <2>1, <2>5, <2>6, ColourTypes DEF ColourSum
  <1>. QED
    BY <1>4, <1>5

LEMMA ColoursStep == CInv /\ LInv' /\ [Next]_vars => ColoursAddUp'
  <1>. SUFFICES ASSUME CInv, LInv', [Next]_vars PROVE ColoursAddUp'
    OBVIOUS
  <1>1. CASE UNCHANGED <<stock, cell, restocked, returned>>
    BY <1>1 DEF CInv, ColoursAddUp, LegacyGivenBack
  <1>2. ASSUME NEW o \in Orders, RowAction(o)
        PROVE  UNCHANGED <<stock, cell, restocked, returned>>
    BY <1>2 DEF RowAction, InsertOrder, ReserveOrder, RejectOrder, ConflictOrder, Payable,
                CancelPendingOrder, ClaimStockConflictRefund,
                ReleaseStockConflictRefundClaim, MarkRefunded, DeleteOrder,
                ReservationTimesOut, stockVars
  <1>3. ReleaseExpiredReservations \/ UNCHANGED vars
            => UNCHANGED <<stock, cell, restocked, returned>>
    BY DEF ReleaseExpiredReservations, vars, stockVars
  <1>. QED
    BY <1>1, <1>2, <1>3, ColoursCommit, ColoursRestock, ColoursReturn DEF Next, RowAction

LEMMA UnsoldStep == LInv /\ LegacyUnsold /\ [Next]_vars => LegacyUnsold'
  <1>. SUFFICES ASSUME LInv, LegacyUnsold, [Next]_vars PROVE LegacyUnsold'
    OBVIOUS
  <1>1. CASE UNCHANGED sold
    BY <1>1 DEF LegacyUnsold
  <1>2. ASSUME NEW o \in Orders, CommitOrder(o)
        PROVE  LegacyUnsold'
    BY <1>2 DEF LInv, LegacyInv, LegacyUnsold, CommitOrder, Payable
  <1>3. ASSUME NEW o \in Orders, RowAction(o)
        PROVE  UNCHANGED sold
    BY <1>3 DEF RowAction, InsertOrder, ReserveOrder, RejectOrder, ConflictOrder, Payable,
                CancelPendingOrder, ClaimStockConflictRefund,
                ReleaseStockConflictRefundClaim, MarkRefunded, DeleteOrder,
                ReservationTimesOut, stockVars
  <1>4. ASSUME NEW o \in Orders, NEW refunded \in BOOLEAN, RestockCanceledOrder(o, refunded)
        PROVE  UNCHANGED sold
    BY <1>4 DEF RestockCanceledOrder
  <1>5. ASSUME NEW r \in Returns, NEW lines, RestockReturn(r, lines)
        PROVE  UNCHANGED sold
    BY <1>5 DEF RestockReturn
  <1>6. ReleaseExpiredReservations \/ UNCHANGED vars => UNCHANGED sold
    BY DEF ReleaseExpiredReservations, vars, stockVars
  <1>. QED
    BY <1>1, <1>2, <1>3, <1>4, <1>5, <1>6 DEF Next, RowAction

LEMMA ColoursInit == Init => LegacyUnsold /\ ColoursAddUp
  <1>. SUFFICES ASSUME Init PROVE LegacyUnsold /\ ColoursAddUp
    OBVIOUS
  <1>1. LegacyUnsold
    BY DEF Init, LegacyUnsold
  <1>2. TypeOK
    BY TypeInit
  <1>3. ASSUME NEW p \in Products
        PROVE  ColourSum(p)
    <2>1. restocked \cap Legacy = {}
      BY DEF Init
    <2>2. Total(OrderGift(p), restocked \cap Legacy) = 0
      BY <2>1, TotalEmpty
    <2>3. \A r \in LegacyReturns : ReturnGift(p)[r] = 0
      <3>. SUFFICES ASSUME NEW r \in LegacyReturns PROVE ReturnGift(p)[r] = 0
        OBVIOUS
      <3>1. r \in Returns /\ returned[r] = {}
        BY DEF Init, LegacyReturns
      <3>2. {v \in returned[r] : ProductOf[v] = p} = {}
        BY <3>1
      <3>3. Units(ReturnQty[r], returned[r], p) = 0
        BY <3>2, TotalEmpty DEF Units
      <3>. QED
        BY <3>1, <3>3 DEF ReturnGift
    <2>4. Total(ReturnGift(p), LegacyReturns) = 0
      BY <1>2, <2>3, ColourTypes, TotalZero
    <2>5. stock[p] = InitStock[p] /\ cell = InitCell
      BY DEF Init
    <2>6. LegacyGivenBack(p) = 0
      <3>1. LegacyGivenBack(p) = Total(OrderGift(p), restocked \cap Legacy)
                                   + Total(ReturnGift(p), LegacyReturns)
        BY GivenBack
      <3>. QED
        BY <2>2, <2>4, <3>1
    <2>7. InitStock[p] \in Int /\ Total(InitCell, OfProduct(p)) \in Int
      BY <1>2, ColourTypes
    <2>. QED
      BY <2>5, <2>6, <2>7 DEF ColourSum
  <1>. QED
    BY <1>1, <1>3, ColoursAddUpUnfold

LEMMA CInvInit == Init => CInv
  BY IInvInit, LegacyInit, ColoursInit DEF CInv, LInv

LEMMA CInvStep == CInv /\ [Next]_vars => CInv'
  BY IInvStep, LegacyStep, UnsoldStep, ColoursStep DEF CInv, LInv

\* products.stock minus the sum of its colours' cells is what it was at the
\* start plus the units of legacy orders given back, through every sale,
\* cancellation and partial return.
THEOREM ColoursAddUpHolds == Spec => []ColoursAddUp
  <1>1. CInv => ColoursAddUp
    BY DEF CInv
  <1>. QED
    BY <1>1, CInvInit, CInvStep, PTL DEF Spec

-----------------------------------------------------------------------------
(* Reservations, when pools of units are apart and payments in time *)

\* Each variant's live reservations fit its units.
Covered ==
    \A v \in Variants : ReservedQuantity(v, LiveHolders) <= PhysicalQuantity(v)

OInv == CInv /\ Covered

LEMMA HeldTypes ==
    ASSUME NEW v \in Variants, NEW H \in SUBSET Orders
    PROVE  /\ IsFiniteSet(H)
           /\ \A o \in H : [q \in Orders |-> Qty[q][v]][o] = Qty[o][v] /\ Qty[o][v] \in Nat
           /\ ReservedQuantity(v, H) \in Nat
  <1>1. IsFiniteSet(H)
    BY TypeAssumption, FS_Subset
  <1>. DEFINE f == [q \in Orders |-> Qty[q][v]]
  <1>2. \A o \in H : f[o] = Qty[o][v] /\ Qty[o][v] \in Nat
    BY TypeAssumption
  <1>. HIDE DEF f
  <1>3. Total(f, H) \in Nat
    BY <1>1, <1>2, TotalNat
  <1>. QED
    BY <1>1, <1>2, <1>3 DEF f, ReservedQuantity

LEMMA HeldRemove ==
    ASSUME NEW v \in Variants, NEW H \in SUBSET Orders, NEW o \in H
    PROVE  ReservedQuantity(v, H) = Qty[o][v] + ReservedQuantity(v, H \ {o})
  <1>. DEFINE f == [q \in Orders |-> Qty[q][v]]
  <1>1. IsFiniteSet(H) /\ \A q \in H : f[q] \in Int
    BY TypeAssumption, FS_Subset
  <1>2. f[o] = Qty[o][v]
    OBVIOUS
  <1>. HIDE DEF f
  <1>3. Total(f, H) = f[o] + Total(f, H \ {o})
    BY <1>1, TotalRemove
  <1>. QED
    BY <1>2, <1>3 DEF f, ReservedQuantity

LEMMA HeldByFewer ==
    ASSUME NEW v \in Variants, NEW H \in SUBSET Orders, NEW G \in SUBSET H
    PROVE  ReservedQuantity(v, G) <= ReservedQuantity(v, H)
  <1>. DEFINE f == [q \in Orders |-> Qty[q][v]]
  <1>1. IsFiniteSet(H) /\ \A q \in H : f[q] \in Nat
    BY HeldTypes
  <1>. HIDE DEF f
  <1>2. Total(f, G) <= Total(f, H)
    BY <1>1, TotalOfPart
  <1>. QED
    BY <1>2 DEF f, ReservedQuantity

LEMMA PhysicalNat ==
    ASSUME TypeOK, NEW v \in Variants
    PROVE  PhysicalQuantity(v) \in Nat
  BY TypeAssumption DEF TypeOK, PhysicalQuantity

\* Fewer holders, or more units: the reservations stay covered.
LEMMA CoveredByFewer ==
    ASSUME TypeOK, TypeOK', Covered, LiveHolders' \subseteq LiveHolders,
           \A v \in Variants : PhysicalQuantity(v) <= PhysicalQuantity(v)'
    PROVE  Covered'
  <1>1. ASSUME NEW v \in Variants
        PROVE  ReservedQuantity(v, LiveHolders') <= PhysicalQuantity(v)'
    <2>1. LiveHolders \in SUBSET Orders
      BY DEF LiveHolders, TypeOK
    <2>2. ReservedQuantity(v, LiveHolders') <= ReservedQuantity(v, LiveHolders)
      BY <2>1, HeldByFewer
    <2>3. ReservedQuantity(v, LiveHolders') \in Nat /\ ReservedQuantity(v, LiveHolders) \in Nat
      BY <2>1, HeldTypes
    <2>4. PhysicalQuantity(v) \in Nat /\ PhysicalQuantity(v)' \in Nat
      <3>1. PhysicalQuantity(v)' \in Nat
        BY TypeAssumption DEF TypeOK, PhysicalQuantity
      <3>. QED
        BY <3>1, PhysicalNat
    <2>5. ReservedQuantity(v, LiveHolders) <= PhysicalQuantity(v)
      BY DEF Covered
    <2>. HIDE DEF LiveHolders
    <2>. QED
      BY <2>2, <2>3, <2>4, <2>5
  <1>. QED
    BY <1>1 DEF Covered, ReservedQuantity

LEMMA CoveredReserve ==
    ASSUME TypeOK, TypeOK', Covered, NEW o \in Orders, ReserveOrder(o)
    PROVE  Covered'
  <1>. DEFINE H == LiveHolders
              K == LiveHolders'
  <1>1. H \in SUBSET Orders /\ K \in SUBSET Orders /\ o \in K /\ K \ {o} = H \ {o}
    BY DEF LiveHolders, TypeOK, ReserveOrder
  <1>2. ASSUME NEW v \in Variants
        PROVE  ReservedQuantity(v, K) <= PhysicalQuantity(v)'
    <2>. HIDE DEF H, K
    <2>1. ReservedQuantity(v, K) = Qty[o][v] + ReservedQuantity(v, H \ {o})
      BY <1>1, HeldRemove
    <2>2. H \ {o} \in SUBSET H
      OBVIOUS
    <2>3. ReservedQuantity(v, H \ {o}) <= ReservedQuantity(v, H)
      BY <1>1, <2>2, HeldByFewer
    <2>4. ReservedQuantity(v, H \ {o}) \in Nat /\ ReservedQuantity(v, H) \in Nat
      BY <1>1, <2>2, HeldTypes
    <2>5. PhysicalQuantity(v) \in Nat /\ PhysicalQuantity(v)' = PhysicalQuantity(v)
      <3>1. PhysicalQuantity(v) \in Nat
        BY PhysicalNat
      <3>2. UNCHANGED <<stock, cell>>
        BY DEF ReserveOrder, stockVars
      <3>. QED
        BY <3>1, <3>2 DEF PhysicalQuantity
    <2>6. Qty[o][v] \in Nat
      BY TypeAssumption
    <2>7. CASE Qty[o][v] > 0
      <3>1. PhysicalQuantity(v) - ReservedQuantity(v, H \ {o}) >= Qty[o][v]
        BY <2>7 DEF ReserveOrder, Available, Lines, H
      <3>. QED
        BY <2>1, <2>4, <2>5, <2>6, <3>1
    <2>8. CASE Qty[o][v] = 0
      <3>1. ReservedQuantity(v, H) <= PhysicalQuantity(v)
        BY DEF Covered, H
      <3>. QED
        BY <2>1, <2>3, <2>4, <2>5, <2>8, <3>1
    <2>. QED
      BY <2>6, <2>7, <2>8
  <1>. QED
    BY <1>2 DEF Covered, ReservedQuantity

\* When pools are apart, a product with an uncoloured variant has no other.
LEMMA OnlyVariant ==
    ASSUME SeparatePools, NEW v \in Variants, v \notin Coloured
    PROVE  OfProduct(ProductOf[v]) = {v}
  BY TypeAssumption DEF SeparatePools, OfProduct

LEMMA UnitsOfOnly ==
    ASSUME SeparatePools, NEW v \in Variants, v \notin Coloured,
           NEW q \in [Variants -> Nat]
    PROVE  Units(q, Variants, ProductOf[v]) = q[v]
  <1>1. IsFiniteSet({}) /\ v \notin {} /\ \A z \in {} : q[z] \in Int
    BY FS_EmptySet
  <1>2. q[v] \in Int
    OBVIOUS
  <1>3. Total(q, {} \cup {v}) = q[v] + Total(q, {})
    BY <1>1, <1>2, TotalInsert
  <1>4. {} \cup {v} = {v}
    OBVIOUS
  <1>5. Total(q, {v}) = q[v] + 0
    BY <1>3, <1>4, TotalEmpty
  <1>6. Units(q, Variants, ProductOf[v]) = Total(q, OfProduct(ProductOf[v]))
    BY DEF Units, OfProduct
  <1>7. OfProduct(ProductOf[v]) = {v}
    BY OnlyVariant
  <1>8. Units(q, Variants, ProductOf[v]) = q[v] + 0
    BY <1>5, <1>6, <1>7
  <1>. QED
    BY <1>2, <1>8

LEMMA CoveredCommit ==
    ASSUME SeparatePools, OInv, TypeOK', NEW o \in Orders, CommitOrder(o), PaidInTime
    PROVE  Covered'
  <1>. DEFINE H == LiveHolders
              K == LiveHolders'
  <1>0. TypeOK
    BY DEF OInv, CInv, LInv, IInv
  <1>1. o \in H
    BY <1>0 DEF CommitOrder, Payable, SetOrder, PaidInTime, TypeOK
  <1>2. H \in SUBSET Orders /\ K = H \ {o}
    BY <1>0, <1>1 DEF LiveHolders, TypeOK, CommitOrder, Payable, SetReservation
  <1>3. ASSUME NEW v \in Variants
        PROVE  PhysicalQuantity(v)' = PhysicalQuantity(v) - Qty[o][v]
    <2>1. CASE v \in Coloured
      BY <2>1 DEF PhysicalQuantity, CommitOrder
    <2>2. CASE v \notin Coloured
      <3>1. Qty[o] \in [Variants -> Nat] /\ ProductOf[v] \in Products
        BY TypeAssumption
      <3>2. Units(Qty[o], Variants, ProductOf[v]) = Qty[o][v]
        BY <2>2, <3>1, UnitsOfOnly
      <3>3. stock'[ProductOf[v]] = stock[ProductOf[v]] - Units(Qty[o], Variants, ProductOf[v])
        BY <3>1 DEF CommitOrder
      <3>. QED
        BY <2>2, <3>2, <3>3 DEF PhysicalQuantity
    <2>. QED
      BY <2>1, <2>2
  <1>4. ASSUME NEW v \in Variants
        PROVE  ReservedQuantity(v, K) <= PhysicalQuantity(v)'
    <2>. HIDE DEF H, K
    <2>1. ReservedQuantity(v, H) = Qty[o][v] + ReservedQuantity(v, K)
      BY <1>1, <1>2, HeldRemove
    <2>2. ReservedQuantity(v, H) <= PhysicalQuantity(v)
      BY DEF OInv, Covered, H
    <2>3. ReservedQuantity(v, H) \in Nat /\ ReservedQuantity(v, K) \in Nat
      <3>1. K \in SUBSET Orders
        BY <1>2
      <3>. QED
        BY <1>2, <3>1, HeldTypes
    <2>4. PhysicalQuantity(v) \in Nat /\ Qty[o][v] \in Nat
      BY <1>0, PhysicalNat, TypeAssumption
    <2>. QED
      BY <1>3, <2>1, <2>2, <2>3, <2>4
  <1>. QED
    BY <1>4 DEF Covered, ReservedQuantity

LEMMA CoveredRestock ==
    ASSUME TypeOK, TypeOK', Covered, NEW o \in Orders, NEW refunded \in BOOLEAN,
           RestockCanceledOrder(o, refunded)
    PROVE  Covered'
  <1>1. LiveHolders' = LiveHolders
    BY DEF LiveHolders, RestockCanceledOrder, reservationVars
  <1>2. ASSUME NEW v \in Variants
        PROVE  PhysicalQuantity(v) <= PhysicalQuantity(v)'
    <2>1. ProductOf[v] \in Products /\ Qty[o][v] \in Nat
      BY TypeAssumption
    <2>2. Units(Qty[o], Variants, ProductOf[v]) \in Nat
      BY <2>1, OrderUnits
    <2>3. CASE o \in restocked
      BY <2>1, <2>3 DEF RestockCanceledOrder, Restock, PhysicalQuantity, TypeOK
    <2>4. CASE o \notin restocked
      BY <2>1, <2>2, <2>4 DEF RestockCanceledOrder, Restock, PhysicalQuantity, TypeOK
    <2>. QED
      BY <2>3, <2>4
  <1>. QED
    BY <1>1, <1>2, CoveredByFewer

LEMMA CoveredReturn ==
    ASSUME TypeOK, TypeOK', Covered, NEW r \in Returns, NEW lines \in SUBSET ReturnLines(r),
           RestockReturn(r, lines)
    PROVE  Covered'
  <1>1. LiveHolders' = LiveHolders
    BY DEF LiveHolders, RestockReturn, reservationVars
  <1>. DEFINE fresh == lines \ returned[r]
  <1>2. fresh \in SUBSET Variants
    BY DEF ReturnLines
  <1>3. /\ cell' = [v \in Variants |-> IF v \in Coloured \cap fresh /\ ReturnOrder[r] \in sold
                                       THEN cell[v] + ReturnQty[r][v] ELSE cell[v]]
        /\ stock' = [p \in Products |-> stock[p] + Units(ReturnQty[r], fresh, p)]
    BY DEF RestockReturn, FreshLines
  <1>. HIDE DEF fresh
  <1>4. ASSUME NEW v \in Variants
        PROVE  PhysicalQuantity(v) <= PhysicalQuantity(v)'
    <2>1. ProductOf[v] \in Products /\ ReturnQty[r][v] \in Nat
      BY TypeAssumption
    <2>2. Units(ReturnQty[r], fresh, ProductOf[v]) \in Nat
      BY <1>2, <2>1, ReturnUnits
    <2>. QED
      BY <1>3, <2>1, <2>2 DEF PhysicalQuantity, TypeOK
  <1>. QED
    BY <1>1, <1>4, CoveredByFewer

LEMMA CoveredStep ==
    ASSUME SeparatePools, OInv, TypeOK', [Next /\ PaidInTime]_vars
    PROVE  Covered'
  <1>0. TypeOK /\ Covered
    BY DEF OInv, CInv, LInv, IInv
  <1>. DEFINE Quiet == LiveHolders' \subseteq LiveHolders /\ UNCHANGED <<stock, cell>>
  <1>1. ASSUME Quiet PROVE Covered'
    <2>1. \A v \in Variants : PhysicalQuantity(v)' = PhysicalQuantity(v)
      BY <1>1 DEF PhysicalQuantity
    <2>2. \A v \in Variants : PhysicalQuantity(v) <= PhysicalQuantity(v)'
      BY <1>0, <2>1, PhysicalNat
    <2>. QED
      BY <1>0, <1>1, <2>2, CoveredByFewer
  <1>2. CASE UNCHANGED vars
    <2>1. Quiet
      BY <1>2 DEF vars, reservationVars, stockVars, LiveHolders
    <2>. QED
      BY <1>1, <2>1
  <1>3. ASSUME NEW o \in Orders, RowAction(o)
        PROVE  Covered'
    <2>1. CASE ReserveOrder(o)
      BY <1>0, <2>1, CoveredReserve
    <2>2. CASE ~ReserveOrder(o)
      <3>1. Quiet
        BY <1>0, <1>3, <2>2
        DEF RowAction, InsertOrder, RejectOrder, ConflictOrder, Payable, CancelPendingOrder,
            ClaimStockConflictRefund, ReleaseStockConflictRefundClaim, MarkRefunded,
            DeleteOrder, ReservationTimesOut, stockVars, reservationVars, SetReservation,
            LiveHolders, TypeOK
      <3>. QED
        BY <1>1, <3>1
    <2>. QED
      BY <2>1, <2>2
  <1>4. CASE ReleaseExpiredReservations
    <2>1. Quiet
      BY <1>0, <1>4 DEF ReleaseExpiredReservations, stockVars, LiveHolders, TypeOK
    <2>. QED
      BY <1>1, <2>1
  <1>5. ASSUME NEW o \in Orders, CommitOrder(o), PaidInTime
        PROVE  Covered'
    BY <1>5, CoveredCommit
  <1>6. ASSUME NEW o \in Orders, NEW refunded \in BOOLEAN, RestockCanceledOrder(o, refunded)
        PROVE  Covered'
    BY <1>0, <1>6, CoveredRestock
  <1>7. ASSUME NEW r \in Returns, NEW lines \in SUBSET ReturnLines(r), RestockReturn(r, lines)
        PROVE  Covered'
    BY <1>0, <1>7, CoveredReturn
  <1>. QED
    BY <1>2, <1>3, <1>4, <1>5, <1>6, <1>7 DEF Next, RowAction

LEMMA CoveredInit ==
    ASSUME Init
    PROVE  Covered
  <1>1. TypeOK
    BY TypeInit
  <1>2. LiveHolders = {}
    BY DEF Init, LiveHolders
  <1>3. \A v \in Variants : ReservedQuantity(v, LiveHolders) = 0
    BY <1>2, TotalEmpty DEF ReservedQuantity
  <1>. QED
    BY <1>1, <1>3, PhysicalNat DEF Covered

LEMMA OnTimeInductive ==
    ASSUME SeparatePools
    PROVE  OnTimeSpec => []OInv
  <1>1. Init => OInv
    BY CInvInit, CoveredInit DEF OInv
  <1>2. OInv /\ [Next /\ PaidInTime]_vars => OInv'
    <2>. SUFFICES ASSUME OInv, [Next /\ PaidInTime]_vars PROVE OInv'
      OBVIOUS
    <2>1. CInv'
      BY CInvStep DEF OInv
    <2>2. TypeOK'
      BY <2>1 DEF CInv, LInv, IInv
    <2>. QED
      BY <2>1, <2>2, CoveredStep DEF OInv
  <1>. QED
    BY <1>1, <1>2, PTL DEF OnTimeSpec

\* Two customers are never promised the same unit: where the catalogue keeps the
\* pools apart, live reservations fit the shelf whatever else happens.
THEOREM ReservationsAreCoveredHolds ==
    ASSUME SeparatePools
    PROVE  OnTimeSpec => []ReservationsAreCovered
  <1>1. OInv => ReservationsAreCovered
    <2>. SUFFICES ASSUME OInv, NEW v \in Variants
                  PROVE  Total([w \in Variants |-> ReservedQuantity(w, LiveHolders)],
                               SharesUnits(v)) <= PhysicalQuantity(v)
      BY DEF ReservationsAreCovered
    <2>. DEFINE f == [w \in Variants |-> ReservedQuantity(w, LiveHolders)]
    <2>1. SharesUnits(v) = {v}
      BY DEF SharesUnits, SeparatePools
    <2>2. LiveHolders \in SUBSET Orders
      BY DEF LiveHolders, OInv, CInv, LInv, IInv, TypeOK
    <2>3. f[v] \in Nat /\ f[v] <= PhysicalQuantity(v)
      BY <2>2, HeldTypes DEF OInv, Covered
    <2>. HIDE DEF f
    <2>4. IsFiniteSet({}) /\ v \notin {} /\ \A z \in {} : f[z] \in Int
      BY FS_EmptySet
    <2>5. Total(f, {} \cup {v}) = f[v] + Total(f, {})
      BY <2>3, <2>4, TotalInsert
    <2>6. {} \cup {v} = {v}
      OBVIOUS
    <2>7. Total(f, {v}) = f[v] + 0
      BY <2>5, <2>6, TotalEmpty
    <2>8. Total(f, SharesUnits(v)) <= PhysicalQuantity(v)
      BY <2>1, <2>3, <2>7
    <2>. QED
      BY <2>8 DEF f
  <1>. QED
    BY <1>1, OnTimeInductive, PTL

\* Whoever pays in time gets the goods: the commit finds every line on the shelf
\* and keeps products.stock at zero or above.
THEOREM ReservedOrdersCommitHolds ==
    ASSUME SeparatePools
    PROVE  OnTimeSpec => []ReservedOrdersCommit
  <1>1. OInv => ReservedOrdersCommit
    <2>. SUFFICES ASSUME OInv, NEW o \in LiveHolders
                  PROVE  OnShelf(o) /\ StockCheckHolds(o)
      BY DEF ReservedOrdersCommit
    <2>0. TypeOK /\ CInv /\ Covered
      BY DEF OInv, CInv, LInv, IInv
    <2>1. LiveHolders \in SUBSET Orders /\ o \in Orders
      BY <2>0 DEF LiveHolders, TypeOK
    <2>2. ASSUME NEW v \in Variants
          PROVE  Qty[o][v] \in Nat /\ PhysicalQuantity(v) \in Nat /\ Qty[o][v] <= PhysicalQuantity(v)
      <3>1. ReservedQuantity(v, LiveHolders)
              = Qty[o][v] + ReservedQuantity(v, LiveHolders \ {o})
        BY <2>1, HeldRemove
      <3>2. LiveHolders \ {o} \in SUBSET Orders
        BY <2>1
      <3>3. ReservedQuantity(v, LiveHolders \ {o}) \in Nat
        BY <3>2, HeldTypes
      <3>4. ReservedQuantity(v, LiveHolders) <= PhysicalQuantity(v)
        BY <2>0 DEF Covered
      <3>5. Qty[o][v] \in Nat /\ PhysicalQuantity(v) \in Nat
        BY <2>0, <2>1, PhysicalNat, TypeAssumption
      <3>. QED
        BY <3>1, <3>3, <3>4, <3>5
    <2>3. OnShelf(o)
      BY <2>2 DEF OnShelf, Lines
    <2>4. ASSUME NEW p \in Products
          PROVE  stock[p] >= Units(Qty[o], Variants, p)
      <3>0. stock[p] \in Nat /\ Qty[o] \in [Variants -> Nat]
        BY <2>0, <2>1, TypeAssumption DEF TypeOK
      <3>1. CASE OfProduct(p) \subseteq Coloured
        <4>1. Units(Qty[o], Variants, p) = Total(Qty[o], OfProduct(p))
          BY DEF Units, OfProduct
        <4>2. IsFiniteSet(OfProduct(p)) /\ OfProduct(p) \subseteq Variants
          BY OfProductFinite
        <4>3. \A v \in OfProduct(p) : Qty[o][v] \in Int /\ cell[v] \in Int /\ Qty[o][v] <= cell[v]
          BY <2>2, <3>1, <4>2 DEF PhysicalQuantity
        <4>4. Total(Qty[o], OfProduct(p)) <= Total(cell, OfProduct(p))
          BY <4>2, <4>3, TotalAtMost
        <4>5. ColourSum(p)
          BY <2>0, <3>1, ColoursAddUpUnfold DEF CInv
        <4>6. Total(InitCell, OfProduct(p)) <= InitStock[p]
          BY <3>1 DEF SeparatePools, OfProduct
        <4>7. LegacyGivenBack(p) \in Nat
          <5>1. /\ Total(OrderGift(p), restocked \cap Legacy) \in Nat
                /\ Total(ReturnGift(p), LegacyReturns) \in Nat
            BY <2>0, ColourTypes
          <5>2. LegacyGivenBack(p) = Total(OrderGift(p), restocked \cap Legacy)
                                       + Total(ReturnGift(p), LegacyReturns)
            BY GivenBack
          <5>. QED
            BY <5>1, <5>2
        <4>8. /\ Total(cell, OfProduct(p)) \in Int /\ Total(InitCell, OfProduct(p)) \in Int
              /\ InitStock[p] \in Int /\ Total(Qty[o], OfProduct(p)) \in Int
          BY <2>0, <4>2, <4>3, ColourTypes, TotalInt
        <4>9. Total(cell, OfProduct(p)) <= stock[p]
          BY <3>0, <4>5, <4>6, <4>7, <4>8 DEF ColourSum
        <4>. QED
          BY <3>0, <4>1, <4>4, <4>8, <4>9
      <3>2. CASE ~(OfProduct(p) \subseteq Coloured)
        <4>1. PICK v \in Variants : ProductOf[v] = p /\ v \notin Coloured
          BY <3>2 DEF OfProduct
        <4>2. Units(Qty[o], Variants, p) = Qty[o][v]
          BY <3>0, <4>1, UnitsOfOnly
        <4>3. Qty[o][v] \in Nat /\ Qty[o][v] <= stock[p]
          BY <2>2, <4>1 DEF PhysicalQuantity
        <4>. QED
          BY <3>0, <4>2, <4>3
      <3>. QED
        BY <3>1, <3>2
    <2>. QED
      BY <2>3, <2>4 DEF StockCheckHolds
  <1>. QED
    BY <1>1, OnTimeInductive, PTL

=============================================================================
