------------------------------ MODULE MCCheckout ------------------------------
(***************************************************************************)
(* Ana places two orders at once, a Pix and a card, with her two credits   *)
(* and a coupon that is good for one order.  The price of the Pix leaves   *)
(* less than the minimum charge after the credits.                         *)
(***************************************************************************)
EXTENDS Checkout

MCOrders == {"pix", "card"}
MCCustomers == {"Ana"}
MCCredits == {"old", "new"}
MCOwnerOf == [c \in MCCredits |-> "Ana"]
MCInitialAmount == [c \in MCCredits |-> IF c = "old" THEN 70 ELSE 40]
MCExpiryOrder == <<"old", "new">>
MCCoupons == {"TEN"}
MCTerms == [k \in MCCoupons |->
    [pct |-> 10, minimumCharge |-> FALSE, freeShipping |-> TRUE, minSubtotal |-> 50,
     maxUses |-> 1, perCustomer |-> 2]]

Line(product, part, qty, price, promo, bundle) ==
    [product |-> product, part |-> part, qty |-> qty, price |-> price, promo |-> promo,
     bundle |-> bundle]

MCCart == [o \in MCOrders |->
    IF o = "pix"
    THEN [customer |-> "Ana", method |-> "Pix", coupon |-> "TEN", shipping |-> 20,
          useCredit |-> TRUE, expectsFree |-> TRUE,
          lines |-> <<Line(1, "top", 1, 60, 10, "set"), Line(2, "bottom", 1, 100, 0, "set")>>]
    ELSE [customer |-> "Ana", method |-> "card", coupon |-> "TEN", shipping |-> 20,
          useCredit |-> TRUE, expectsFree |-> FALSE,
          lines |-> <<Line(3, "other", 1, 20, 0, ""), Line(1, "top", 2, 30, 0, ""),
                      Line(2, "bottom", 1, 50, 0, "")>>]]

Settings(progressive, extendLast, stack) ==
    [individual |-> TRUE, progressive |-> progressive, tiers |-> <<10, 20>>,
     extendLast |-> extendLast, stack |-> stack]

MCPatches == {Settings(TRUE, FALSE, FALSE), Settings(TRUE, TRUE, TRUE)}
=============================================================================
