----------------------------- MODULE MCInventory -----------------------------
(***************************************************************************)
(* Two products.  "legging" is sold by colour and size: two cells.  "top"  *)
(* has no colour stock: its two sizes share products.stock.  o3 was paid   *)
(* before the movements existed, when only products.stock was taken.       *)
(***************************************************************************)
EXTENDS Inventory

MCOrders == {"o1", "o2", "o3"}
MCReturns == {"r1", "r3"}
MCProducts == {"legging", "top"}
MCVariants == {"leggingP", "leggingM", "topP"}
MCColoured == {"leggingP", "leggingM"}
MCProductOf ==
    [v \in MCVariants |-> IF v = "topP" THEN "top" ELSE "legging"]

Lines3(p, m, t) ==
    [v \in MCVariants |-> CASE v = "leggingP" -> p [] v = "leggingM" -> m [] OTHER -> t]

MCQty ==
    [o \in MCOrders |-> CASE o = "o1" -> Lines3(1, 1, 0)
                          [] o = "o2" -> Lines3(2, 0, 2)
                          [] OTHER -> Lines3(0, 1, 0)]
MCReturnOrder == [r \in MCReturns |-> IF r = "r1" THEN "o1" ELSE "o3"]
MCReturnQty ==
    [r \in MCReturns |-> IF r = "r1" THEN Lines3(1, 1, 0) ELSE Lines3(0, 1, 0)]
MCLegacy == {"o3"}
MCInitStock == [p \in MCProducts |-> 2]
MCInitCell == Lines3(2, 1, 0)
=============================================================================
