---------------------------- MODULE OrderLifecycle ----------------------------
(***************************************************************************)
(* What the shop promises about an order, whatever the code does to keep   *)
(* it: the goods leave once, for money that is kept; an order that ends    *)
(* without them keeps nothing; money that is owed is only written off by   *)
(* returning it, or by a manager who deletes the order.                    *)
(*                                                                         *)
(* Inventory and Payments implement it (their ImplementsLifecycle).        *)
(***************************************************************************)
CONSTANTS
    Orders,
    PaidBefore    \* the orders that are paid when the system starts

VARIABLES
    stage,   \* none, open, lapsed, sold, refused, dead or gone
    goods,   \* whether its goods are on the shelf or out
    money    \* what happened to what was paid for it

lifecycleVars == <<stage, goods, money>>

LifecycleInit ==
    /\ stage = [o \in Orders |-> IF o \in PaidBefore THEN "sold" ELSE "none"]
    /\ goods = [o \in Orders |-> IF o \in PaidBefore THEN "out" ELSE "shelf"]
    /\ money = [o \in Orders |-> IF o \in PaidBefore THEN "kept" ELSE "none"]

Becomes(o, newStage, newGoods, newMoney) ==
    /\ stage' = [stage EXCEPT ![o] = newStage]
    /\ goods' = [goods EXCEPT ![o] = newGoods]
    /\ money' = [money EXCEPT ![o] = newMoney]

Place(o) == stage[o] = "none" /\ Becomes(o, "open", "shelf", "none")

\* The time to pay passes, for any number of orders at once.
Lapse(os) ==
    /\ \A o \in os : stage[o] = "open"
    /\ stage' = [o \in Orders |-> IF o \in os THEN "lapsed" ELSE stage[o]]
    /\ UNCHANGED <<goods, money>>

\* A payment that comes, in time or late, decides the order.
Sell(o) == stage[o] \in {"open", "lapsed"} /\ Becomes(o, "sold", "out", "kept")

Refuse(o) == stage[o] \in {"open", "lapsed"} /\ Becomes(o, "refused", "shelf", "owed")

Abandon(o) == stage[o] \in {"open", "lapsed"} /\ Becomes(o, "dead", "shelf", "none")

\* A sale is undone: the goods come back and the money is owed or returned.
Undo(o) ==
    /\ stage[o] = "sold"
    /\ \E m \in {"owed", "returned"} : Becomes(o, "dead", "shelf", m)

Repay(o) == money[o] = "owed" /\ Becomes(o, stage[o], goods[o], "returned")

\* The row goes with everything it said; a refused order first gets its money.
Forget(o) ==
    /\ stage[o] \in {"open", "dead", "refused"}
    /\ stage[o] = "refused" => money[o] = "returned"
    /\ Becomes(o, "gone", "shelf", "none")

LifecycleNext ==
    \/ \E o \in Orders :
        Place(o) \/ Sell(o) \/ Refuse(o) \/ Abandon(o) \/ Undo(o) \/ Repay(o) \/ Forget(o)
    \/ \E os \in SUBSET Orders : Lapse(os)

Lifecycle == LifecycleInit /\ [][LifecycleNext]_lifecycleVars

=============================================================================
