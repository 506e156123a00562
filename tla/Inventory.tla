------------------------------ MODULE Inventory ------------------------------
(***************************************************************************)
(* The stock of the shop and its reservations: InventoryService            *)
(* (src/src/inventory/inventory.service.ts) over the tables products,      *)
(* product_colors, orders, inventory_reservations, inventory_movements.    *)
(*                                                                         *)
(* Each operation of the service is one PostgreSQL transaction that first  *)
(* locks the order row, then the product and colour rows it touches, so an *)
(* operation is one action.  What the callers do between two operations is *)
(* the environment here (their guards are named where they are used).      *)
(*                                                                         *)
(* Data abstraction: a variant is the group key product:colour:size of     *)
(* groupInventoryLines; the lines of an order with the same key are one    *)
(* quantity Qty[o][v].  A variant in Coloured has its own cell in          *)
(* product_colors.size_stock; any other variant draws on products.stock,   *)
(* which all sizes of that product share.                                  *)
(***************************************************************************)
EXTENDS Integers, FiniteSets, Sums

CONSTANTS
    Orders,       \* identifiers of orders
    Returns,      \* identifiers of return requests
    Products,     \* products
    Variants,     \* product:colour:size keys
    Coloured,     \* the variants with a cell in product_colors.size_stock
    ProductOf,    \* [Variants -> Products]
    Qty,          \* [Orders -> [Variants -> Nat]], 0 where not ordered
    ReturnOrder,  \* [Returns -> Orders]
    ReturnQty,    \* [Returns -> [Variants -> Nat]]
    Legacy,       \* orders paid before the table of movements existed
    InitStock,    \* products.stock at the start
    InitCell      \* product_colors.size_stock at the start

\* The units of product p among the variants vs of the quantities q.
Units(q, vs, p) == Total(q, {v \in vs : ProductOf[v] = p})

ASSUME TypeAssumption ==
    /\ IsFiniteSet(Orders) /\ IsFiniteSet(Returns) /\ IsFiniteSet(Variants)
    /\ Coloured \subseteq Variants
    /\ ProductOf \in [Variants -> Products]
    /\ Qty \in [Orders -> [Variants -> Nat]]
    /\ ReturnOrder \in [Returns -> Orders]
    /\ ReturnQty \in [Returns -> [Variants -> Nat]]
    /\ Legacy \subseteq Orders
    /\ InitStock \in [Products -> Nat]
    /\ InitCell \in [Variants -> Nat]

VARIABLES
    status,           \* orders.status
    inventoryStatus,  \* orders.inventory_status
    paymentStatus,    \* orders.payment_status
    claimed,          \* the orders whose refund_requested_at is set
    reservation,      \* inventory_reservations.status, one state per order
    live,             \* the orders whose reservation is not past expires_at
    stock,            \* products.stock
    cell,             \* product_colors.size_stock
    sold,             \* orders with movement rows order:ID:sale:item
    restocked,        \* orders with movement rows order:ID:cancellation:item
    returned,         \* per return, the lines with a row return:ID:restock:item
    moved             \* per product, SUM(quantity) of inventory_movements

orderVars == <<status, inventoryStatus, paymentStatus, claimed>>
reservationVars == <<reservation, live>>
stockVars == <<stock, cell, sold, restocked, returned, moved>>
vars == <<orderVars, reservationVars, stockVars>>

\* "absent" and "deleted" stand for: no such row (not yet, no longer).
OrderStatus == {"absent", "pending", "paid", "canceled", "expired",
                "stock_conflict", "deleted"}
InventoryStatus == {"none", "reserved", "committed", "released", "conflict"}
PaymentStatus == {"pending", "confirmed", "refund_pending", "refunded", "failed"}
ReservationStatus == {"none", "active", "committed", "released", "conflict"}

TypeOK ==
    /\ status \in [Orders -> OrderStatus]
    /\ inventoryStatus \in [Orders -> InventoryStatus]
    /\ paymentStatus \in [Orders -> PaymentStatus]
    /\ claimed \subseteq Orders
    /\ reservation \in [Orders -> ReservationStatus]
    /\ live \subseteq Orders
    /\ stock \in [Products -> Nat]
    /\ cell \in [Variants -> Nat]
    /\ sold \subseteq Orders
    /\ restocked \subseteq Orders
    /\ returned \in [Returns -> SUBSET Variants]
    /\ moved \in [Products -> Int]

\* A legacy order is migrated as paid and committed, without reservation rows.
Init ==
    /\ status = [o \in Orders |-> IF o \in Legacy THEN "paid" ELSE "absent"]
    /\ inventoryStatus = [o \in Orders |-> IF o \in Legacy THEN "committed" ELSE "none"]
    /\ paymentStatus = [o \in Orders |-> IF o \in Legacy THEN "confirmed" ELSE "pending"]
    /\ claimed = {}
    /\ reservation = [o \in Orders |-> "none"]
    /\ live = {}
    /\ stock = InitStock
    /\ cell = InitCell
    /\ sold = {}
    /\ restocked = {}
    /\ returned = [r \in Returns |-> {}]
    /\ moved = [p \in Products |-> 0]

-----------------------------------------------------------------------------
(* Reading the stock *)

Exists(o) == status[o] \notin {"absent", "deleted"}

Lines(o) == {v \in Variants : Qty[o][v] > 0}

ReturnLines(r) == {v \in Variants : ReturnQty[r][v] > 0}

PhysicalQuantity(v) == IF v \in Coloured THEN cell[v] ELSE stock[ProductOf[v]]

\* Orders whose reservation is active and not past its expires_at.
LiveHolders == {o \in live : reservation[o] = "active"}

\* Mutant: COUNT of the reservation rows instead of SUM of their quantity.
ReservedRows(v, holders) == Cardinality({o \in holders : Qty[o][v] > 0})

ReservedQuantity(v, holders) == Total([o \in Orders |-> Qty[o][v]], holders)

\* Mutant: the reservations of other orders are not looked at.
AvailableOnShelf(o) == \A v \in Lines(o) : PhysicalQuantity(v) >= Qty[o][v]

Available(o) ==
    \A v \in Lines(o) :
        PhysicalQuantity(v) - ReservedQuantity(v, LiveHolders \ {o}) >= Qty[o][v]

\* commitOrder looks at what is on the shelf, not at what others reserved.
OnShelf(o) == \A v \in Lines(o) : PhysicalQuantity(v) >= Qty[o][v]

\* CHECK (stock >= 0) on products: a decrement below zero aborts the commit.
StockCheckHolds(o) ==
    \A p \in Products : stock[p] >= Units(Qty[o], Variants, p)

\* UPDATE orders SET status, inventory_status, payment_status for one order.
SetOrder(o, newStatus, newInventory, newPayment) ==
    /\ status' = [status EXCEPT ![o] = newStatus]
    /\ inventoryStatus' = [inventoryStatus EXCEPT ![o] = newInventory]
    /\ paymentStatus' = [paymentStatus EXCEPT ![o] = newPayment]
    /\ UNCHANGED claimed

\* UPDATE inventory_reservations SET status for the rows of one order, if any.
SetReservation(o, newStatus) ==
    /\ reservation' = [reservation EXCEPT ![o] = IF @ = "none" THEN "none" ELSE newStatus]
    /\ UNCHANGED live

-----------------------------------------------------------------------------
(* Operations *)

\* createPending inserts the order row before it reserves.
InsertOrder(o) ==
    /\ status[o] = "absent"
    /\ SetOrder(o, "pending", "none", "pending")
    /\ UNCHANGED <<reservationVars, stockVars>>

ReserveOrder(o) ==
    /\ inventoryStatus[o] # "reserved"
    /\ status[o] = "pending"
    /\ Available(o)
    /\ reservation' = [reservation EXCEPT ![o] = "active"]
    /\ live' = live \cup {o}
    /\ inventoryStatus' = [inventoryStatus EXCEPT ![o] = "reserved"]
    /\ UNCHANGED <<status, paymentStatus, claimed, stockVars>>

\* reserveOrder threw: createPending deletes the row it had inserted.
RejectOrder(o) ==
    /\ status[o] = "pending"
    /\ inventoryStatus[o] = "none"
    /\ ~Available(o)
    /\ status' = [status EXCEPT ![o] = "deleted"]
    /\ UNCHANGED <<inventoryStatus, paymentStatus, claimed, reservationVars, stockVars>>

\* Mutants: a payment accepted after the cancellation, or after the conflict.
PayableOnceCanceled(o) == status[o] \in {"pending", "expired", "canceled"}

PayableInConflict(o) == status[o] \in {"pending", "expired", "stock_conflict"}

\* commitOrder does nothing for a paid, conflicting or canceled order.
Payable(o) == status[o] \in {"pending", "expired"}

CommitOrder(o) ==
    /\ Payable(o)
    /\ OnShelf(o)
    /\ StockCheckHolds(o)
    /\ cell' = [v \in Variants |->
                  IF v \in Coloured THEN cell[v] - Qty[o][v] ELSE cell[v]]
    /\ stock' = [p \in Products |-> stock[p] - Units(Qty[o], Variants, p)]
    /\ sold' = sold \cup {o}
    /\ moved' = [p \in Products |->
                  IF o \in sold THEN moved[p]
                  ELSE moved[p] - Units(Qty[o], Variants, p)]
    /\ SetReservation(o, "committed")
    /\ SetOrder(o, "paid", "committed", "confirmed")
    /\ UNCHANGED <<restocked, returned>>

ConflictOrder(o) ==
    /\ Payable(o)
    /\ ~OnShelf(o)
    /\ SetReservation(o, "conflict")
    /\ SetOrder(o, "stock_conflict", "conflict", "refund_pending")
    /\ UNCHANGED stockVars

\* Mutant: the reservation of a canceled order stays active.
CancelKeepingReservation(o) ==
    /\ Exists(o)
    /\ status[o] \notin {"paid", "stock_conflict", "canceled"}
    /\ SetOrder(o, "canceled", "released", "failed")
    /\ UNCHANGED <<reservationVars, stockVars>>

CancelPendingOrder(o) ==
    /\ Exists(o)
    /\ status[o] \notin {"paid", "stock_conflict", "canceled"}
    /\ reservation' = [reservation EXCEPT ![o] = IF @ = "active" THEN "released" ELSE @]
    /\ SetOrder(o, "canceled", "released", "failed")
    /\ UNCHANGED <<live, stockVars>>

\* Mutants: nothing given back; colours given back for a sale without rows.
RestockNothing(o) == o \in Orders /\ UNCHANGED <<stock, cell, restocked, moved>>

RestockEveryCell(o) ==
    /\ o \notin restocked
    /\ cell' = [v \in Variants |-> IF v \in Coloured THEN cell[v] + Qty[o][v] ELSE cell[v]]
    /\ stock' = [p \in Products |-> stock[p] + Units(Qty[o], Variants, p)]
    /\ moved' = [p \in Products |-> moved[p] + Units(Qty[o], Variants, p)]
    /\ restocked' = restocked \cup {o}

\* What restockCanceledOrder gives back for the lines of order o whose
\* cancellation row does not exist yet; colours only if the sale was recorded.
Restock(o) ==
    IF o \in restocked
    THEN UNCHANGED <<stock, cell, restocked, moved>>
    ELSE /\ cell' = [v \in Variants |->
                       IF v \in Coloured /\ o \in sold THEN cell[v] + Qty[o][v]
                       ELSE cell[v]]
         /\ stock' = [p \in Products |-> stock[p] + Units(Qty[o], Variants, p)]
         /\ moved' = [p \in Products |-> moved[p] + Units(Qty[o], Variants, p)]
         /\ restocked' = restocked \cup {o}

\* The caller (cancelOrderLocked) saw a paid order.
RestockCanceledOrder(o, refunded) ==
    /\ status[o] = "paid"
    /\ Restock(o)
    /\ SetOrder(o, "canceled", "released", IF refunded THEN "refunded" ELSE "refund_pending")
    /\ UNCHANGED <<reservationVars, sold, returned>>

\* The lines of a return without a movement row yet.
FreshLines(r, lines) == lines \ returned[r]

\* The caller (ReturnsService.resolve) handles a request made for an order that
\* was paid and delivered; the resellable lines may differ on a second attempt.
RestockReturn(r, lines) ==
    LET o     == ReturnOrder[r]
        fresh == FreshLines(r, lines)
    IN  /\ status[o] \in {"paid", "canceled"}
        /\ o \in sold \cup Legacy
        /\ \A v \in lines : ReturnQty[r][v] <= Qty[o][v]
        /\ cell' = [v \in Variants |->
                      IF v \in Coloured \cap fresh /\ o \in sold
                      THEN cell[v] + ReturnQty[r][v] ELSE cell[v]]
        /\ stock' = [p \in Products |-> stock[p] + Units(ReturnQty[r], fresh, p)]
        /\ moved' = [p \in Products |-> moved[p] + Units(ReturnQty[r], fresh, p)]
        /\ returned' = [returned EXCEPT ![r] = @ \cup fresh]
        /\ UNCHANGED <<orderVars, reservationVars, sold, restocked>>

ClaimStockConflictRefund(o) ==
    /\ status[o] = "stock_conflict"
    /\ paymentStatus[o] = "refund_pending"
    /\ o \notin claimed
    /\ claimed' = claimed \cup {o}
    /\ UNCHANGED <<status, inventoryStatus, paymentStatus, reservationVars, stockVars>>

\* Mutant: the claim is dropped although the refund was recorded.
ReleaseAnyClaim(o) ==
    /\ o \in claimed
    /\ claimed' = claimed \ {o}
    /\ UNCHANGED <<status, inventoryStatus, paymentStatus, reservationVars, stockVars>>

\* The caller (refundStockConflict) holds the claim.
ReleaseStockConflictRefundClaim(o) ==
    /\ o \in claimed
    /\ paymentStatus[o] = "refund_pending"
    /\ claimed' = claimed \ {o}
    /\ UNCHANGED <<status, inventoryStatus, paymentStatus, reservationVars, stockVars>>

\* Callers: refundStockConflict with the claim; the PAYMENT_REFUNDED webhook of
\* a canceled order whose refund was pending.
MarkRefunded(o) ==
    /\ \/ status[o] = "stock_conflict" /\ o \in claimed
       \/ status[o] = "canceled" /\ paymentStatus[o] = "refund_pending"
    /\ paymentStatus' = [paymentStatus EXCEPT ![o] = "refunded"]
    /\ UNCHANGED <<status, inventoryStatus, claimed, reservationVars, stockVars>>

\* The last step of OrdersService.deleteOrder and rollbackPending, which cancel a
\* pending or expired order first: the row goes, its reservation rows with it
\* (ON DELETE CASCADE); movement rows stay.
DeleteOrder(o) ==
    /\ \/ status[o] = "canceled"
       \/ status[o] = "stock_conflict" /\ paymentStatus[o] = "refunded"
    /\ status' = [status EXCEPT ![o] = "deleted"]
    /\ reservation' = [reservation EXCEPT ![o] = "none"]
    /\ live' = live \ {o}
    /\ UNCHANGED <<inventoryStatus, paymentStatus, claimed, stockVars>>

\* now() passes expires_at of the reservation of order o.
ReservationTimesOut(o) ==
    /\ o \in live
    /\ live' = live \ {o}
    /\ UNCHANGED <<orderVars, reservation, stockVars>>

\* Mutant: the sweep expires orders without releasing their reservations.
SweepOrdersOnly ==
    LET dead == {o \in Orders : status[o] = "pending" /\ inventoryStatus[o] = "reserved"
                                 /\ o \notin live}
    IN  /\ status' = [o \in Orders |-> IF o \in dead THEN "expired" ELSE status[o]]
        /\ inventoryStatus' = [o \in Orders |->
                                 IF o \in dead THEN "released" ELSE inventoryStatus[o]]
        /\ UNCHANGED <<paymentStatus, claimed, reservationVars, stockVars>>

\* The sweep, every minute: first the reservations past their deadline, then the
\* pending orders left without a live one.
ReleaseExpiredReservations ==
    LET over == {o \in Orders : reservation[o] = "active" /\ o \notin live}
        dead == {o \in Orders :
                    /\ status[o] = "pending"
                    /\ inventoryStatus[o] = "reserved"
                    /\ reservation[o] # "active" \/ o \notin live}
    IN  /\ reservation' = [o \in Orders |-> IF o \in over THEN "released" ELSE reservation[o]]
        /\ status' = [o \in Orders |-> IF o \in dead THEN "expired" ELSE status[o]]
        /\ inventoryStatus' = [o \in Orders |->
                                 IF o \in dead THEN "released" ELSE inventoryStatus[o]]
        /\ UNCHANGED <<paymentStatus, claimed, live, stockVars>>

-----------------------------------------------------------------------------
Next ==
    \/ \E o \in Orders :
        \/ InsertOrder(o)
        \/ ReserveOrder(o)
        \/ RejectOrder(o)
        \/ CommitOrder(o)
        \/ ConflictOrder(o)
        \/ CancelPendingOrder(o)
        \/ \E refunded \in BOOLEAN : RestockCanceledOrder(o, refunded)
        \/ ClaimStockConflictRefund(o)
        \/ ReleaseStockConflictRefundClaim(o)
        \/ MarkRefunded(o)
        \/ DeleteOrder(o)
        \/ ReservationTimesOut(o)
    \/ \E r \in Returns : \E lines \in SUBSET ReturnLines(r) : RestockReturn(r, lines)
    \/ ReleaseExpiredReservations

Spec == Init /\ [][Next]_vars

\* The clock advances and the interval timer keeps firing; nothing else is owed.
Fairness ==
    /\ \A o \in Orders : WF_vars(ReservationTimesOut(o))
    /\ WF_vars(ReleaseExpiredReservations)

FairSpec == Spec /\ Fairness

-----------------------------------------------------------------------------
(* Safety *)

\* The column products.stock and the table inventory_movements never drift
\* apart: commitOrder takes units unconditionally but inserts its rows with
\* orIgnore, so a second sale of one order would take units no row explains.
LedgerMatchesStock == \A p \in Products : stock[p] = InitStock[p] + moved[p]

\* Units are off the shelf exactly for the orders that are paid: an order that
\* was canceled, expired, deleted or refunded for a conflict holds none.
UnitsOutArePaid ==
    \A o \in Orders \ Legacy :
        o \in sold \ restocked <=> status[o] = "paid"

\* Only a pending order that still counts as reserved keeps units from others:
\* no path out of "pending" forgets to release, commit or drop the reservation.
DeadOrdersHoldNothing ==
    \A o \in Orders :
        reservation[o] = "active" =>
            status[o] = "pending" /\ inventoryStatus[o] = "reserved"

\* The three status columns of an order and the movement keys never contradict
\* each other; a refund of a conflict is only reported by whoever claimed it.
StatusesAgree ==
    \A o \in Orders :
        /\ status[o] = "pending" =>
              inventoryStatus[o] \in {"none", "reserved"} /\ paymentStatus[o] = "pending"
        /\ status[o] = "expired" =>
              inventoryStatus[o] = "released" /\ paymentStatus[o] = "pending"
        /\ status[o] = "paid" =>
              inventoryStatus[o] = "committed" /\ paymentStatus[o] = "confirmed"
        /\ status[o] = "canceled" =>
              /\ inventoryStatus[o] = "released"
              /\ o \in restocked => paymentStatus[o] \in {"refund_pending", "refunded"}
              /\ o \notin restocked => paymentStatus[o] = "failed"
        /\ status[o] = "stock_conflict" =>
              /\ inventoryStatus[o] = "conflict"
              /\ \/ paymentStatus[o] = "refund_pending"
                 \/ paymentStatus[o] = "refunded" /\ o \in claimed

\* What returns and the cancellation of an order paid before the movements
\* existed gave back to product p: products.stock only, never a colour's cell.
LegacyGivenBack(p) ==
    Total([o \in Orders |-> Units(Qty[o], Variants, p)], restocked \cap Legacy)
    + Total([r \in Returns |-> Units(ReturnQty[r], returned[r], p)],
            {r \in Returns : ReturnOrder[r] \in Legacy})

\* The divergence scripts/inventory-report.ts prints (products.stock minus the
\* sum of its colours' sizes) only ever changes by units of legacy orders.
ColoursAddUp ==
    \A p \in Products :
        LET vs == {v \in Variants : ProductOf[v] = p}
        IN  vs \subseteq Coloured =>
              stock[p] - Total(cell, vs)
                = InitStock[p] - Total(InitCell, vs) + LegacyGivenBack(p)

(* Steps *)

\* A payment that was decided stays decided: a paid order only leaves that
\* status by the cancellation that gives its units back, money already refunded
\* is never reported as owed again, and a conflict never turns into a sale.
DecisionStep ==
    \A o \in Orders :
        /\ status[o] = "paid" /\ status'[o] # "paid" => o \in restocked'
        /\ paymentStatus[o] = "refunded" => paymentStatus'[o] = "refunded"
        /\ status[o] = "stock_conflict" => status'[o] \in {"stock_conflict", "deleted"}

DecisionsStand == [][DecisionStep]_vars

(* Liveness *)

\* A reservation past its deadline does not keep its units: the order is paid,
\* canceled, in conflict, deleted or expired sooner or later.
ExpiredReservationsEnd ==
    \A o \in Orders :
        reservation[o] = "active" ~> reservation[o] # "active"

-----------------------------------------------------------------------------
(* The abstract order, read off the rows *)

StageOf == [absent |-> "none", pending |-> "open", expired |-> "lapsed", paid |-> "sold",
            stock_conflict |-> "refused", canceled |-> "dead", deleted |-> "gone"]

MoneyOf == [pending |-> "none", confirmed |-> "kept", refund_pending |-> "owed",
            refunded |-> "returned", failed |-> "none"]

orderStage == [o \in Orders |-> StageOf[status[o]]]

orderGoods ==
    [o \in Orders |-> IF o \in (sold \cup Legacy) \ restocked THEN "out" ELSE "shelf"]

orderMoney == [o \in Orders |-> IF Exists(o) THEN MoneyOf[paymentStatus[o]] ELSE "none"]

Order == INSTANCE OrderLifecycle WITH
    PaidBefore <- Legacy, stage <- orderStage, goods <- orderGoods, money <- orderMoney

\* The rows, reservations and movements implement the life of an order: goods
\* (told by the movement keys) and money (told by the payment status) only change
\* together with the status, and only the way OrderLifecycle allows.
ImplementsLifecycle == Order!Lifecycle

=============================================================================
