-------------------------- MODULE MCInventoryOnTime --------------------------
(***************************************************************************)
(* Three buyers for a product sold by colour and size (two units of one    *)
(* size, one of the other) and a product in a single size; o1 may be       *)
(* returned line by line.                                                  *)
(***************************************************************************)
EXTENDS InventoryOnTime

MCOrders == {"o1", "o2", "o3"}
MCReturns == {"r1"}
MCProducts == {"legging", "top"}
MCVariants == {"leggingP", "leggingM", "topU"}
MCColoured == {"leggingP", "leggingM"}
MCProductOf ==
    [v \in MCVariants |-> IF v = "topU" THEN "top" ELSE "legging"]

Lines3(p, m, t) ==
    [v \in MCVariants |-> CASE v = "leggingP" -> p [] v = "leggingM" -> m [] OTHER -> t]

MCQty ==
    [o \in MCOrders |-> CASE o = "o1" -> Lines3(1, 1, 0)
                          [] o = "o2" -> Lines3(2, 0, 1)
                          [] OTHER -> Lines3(0, 1, 1)]
MCReturnOrder == [r \in MCReturns |-> "o1"]
MCReturnQty == [r \in MCReturns |-> Lines3(1, 1, 0)]
MCLegacy == {}
MCInitStock == [p \in MCProducts |-> IF p = "top" THEN 1 ELSE 3]
MCInitCell == Lines3(2, 1, 0)

\* What the theorems about this specification assume of the catalogue.
ASSUME PoolsAssumption == SeparatePools
=============================================================================
