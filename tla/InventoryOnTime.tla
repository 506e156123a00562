--------------------------- MODULE InventoryOnTime ---------------------------
(***************************************************************************)
(* What a reservation is worth: Inventory with the payment of an order     *)
(* arriving, if at all, while its reservation is live.  commitOrder itself *)
(* accepts a payment at any time and looks only at the shelf, so this is a *)
(* statement about the customers that pay in time.                         *)
(***************************************************************************)
EXTENDS Inventory

\* An order is only paid (or found in conflict) while its reservation is live.
PaidInTime ==
    \A o \in Orders :
        status'[o] \in {"paid", "stock_conflict"} /\ status[o] # status'[o]
            => o \in LiveHolders

OnTimeSpec == Init /\ [][Next /\ PaidInTime]_vars

\* The variants that draw on the same units as v: v itself when it has a cell of
\* its own, otherwise every size of the product.
SharesUnits(v) ==
    IF v \in Coloured THEN {v}
    ELSE {w \in Variants \ Coloured : ProductOf[w] = ProductOf[v]}

\* The catalogue keeps the pools of units apart: a product with colours has a cell
\* for each variant and stock for all of them (variantStock in products.service.ts
\* sets it to their sum), any other product is sold in one size.
SeparatePools ==
    /\ \A v, w \in Variants \ Coloured : ProductOf[v] = ProductOf[w] => v = w
    /\ \A v \in Coloured, w \in Variants \ Coloured : ProductOf[v] # ProductOf[w]
    /\ \A p \in Products :
        LET vs == {v \in Variants : ProductOf[v] = p}
        IN  vs \subseteq Coloured => Total(InitCell, vs) <= InitStock[p]

\* The last unit has one buyer: the live reservations on a pool of units never
\* exceed the units on the shelf, whatever was sold, canceled or returned since.
ReservationsAreCovered ==
    \A v \in Variants :
        Total([w \in Variants |-> ReservedQuantity(w, LiveHolders)], SharesUnits(v))
            <= PhysicalQuantity(v)

\* Whoever pays in time gets the goods: no such payment ends in a conflict, and
\* none makes commitOrder fail on the CHECK of products.stock.
ReservedOrdersCommit ==
    \A o \in LiveHolders :
        status[o] = "pending" => OnShelf(o) /\ StockCheckHolds(o)

=============================================================================
