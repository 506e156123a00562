-------------------------------- MODULE Pricing --------------------------------
(***************************************************************************)
(* The price of a cart: the arithmetic of OrdersService.createPending and  *)
(* src/src/promotions/progressive-discount.ts.                             *)
(*                                                                         *)
(* Money is in cents.  The code rounds only where Round is written here;   *)
(* between two roundings the amounts are exact fractions, carried as       *)
(* hundredths (after the bundles) and ten-thousandths of a cent (after the *)
(* coupon).  Binary floating point is taken to be exact: amounts with two  *)
(* decimals, far below 2^53 cents.                                         *)
(***************************************************************************)
EXTENDS Integers, Sequences, FiniteSets, FiniteSetsExt, SequencesExt, Sums

CONSTANTS
    PixPct,               \* PIX_DISCOUNT in percent
    BundlePct,            \* BUNDLE_DISCOUNT in percent
    FreeShippingMinimum   \* in cents

ASSUME PricingAssumption ==
    PixPct \in 0 .. 100 /\ BundlePct \in 0 .. 100 /\ FreeShippingMinimum \in Nat

MinimumCharge == 50
SpecialCouponTotal == 500
MaxTiers == 9

\* Math.round of the non-negative fraction n/d.
Round(n, d) == (2 * n + d) \div (2 * d)

Clamp(x, low, high) == Min({high, Max({low, x})})

\* A line of the cart: [product, part, qty, price, promo, bundle], part being
\* "top", "bottom" or "other" (the category), bundle "" outside a bundle.
IsLine(line) == line.qty \in Int /\ line.price \in Nat /\ line.promo \in Int

IsList(lines) ==
    /\ Len(lines) \in Nat
    /\ DOMAIN lines = 1 .. Len(lines)
    /\ \A i \in DOMAIN lines : IsLine(lines[i])

Quantity(line) == Clamp(line.qty, 1, 10)

ProductPrice(line, settings) ==
    LET pct == IF settings.individual THEN Clamp(line.promo, 0, 90) ELSE 0
    IN  Round(line.price * (100 - pct), 100)

LineTotal(line, settings) == ProductPrice(line, settings) * Quantity(line)

-----------------------------------------------------------------------------
(* Bundles: a top and a bottom of two products, sold under one bundle name *)

Bundles(lines) == {lines[i].bundle : i \in DOMAIN lines} \ {""}

\* A bundle counts when its lines are a top and a bottom of two products.
BundleTotal(lines, settings, b) ==
    LET grouped  == {i \in DOMAIN lines : lines[i].bundle = b}
        price    == [i \in grouped |-> ProductPrice(lines[i], settings)]
        parts    == {lines[i].part : i \in grouped}
        products == {lines[i].product : i \in grouped}
    IN  IF Cardinality(grouped) = 2 /\ parts = {"top", "bottom"} /\ Cardinality(products) = 2
        THEN Total(price, grouped) * Min({Quantity(lines[i]) : i \in grouped})
        ELSE 0

BundleSubtotal(lines, settings) ==
    Total([b \in Bundles(lines) |-> BundleTotal(lines, settings, b)], Bundles(lines))

-----------------------------------------------------------------------------
(* The progressive discount: the dearest unit pays in full, the next ones   *)
(* get the percentage of their position                                     *)

NormalizeTiers(tiers) ==
    [i \in 1 .. Min({Len(tiers), MaxTiers}) |-> Clamp(tiers[i], 0, 90)]

PctForPosition(position, tiers, extendLast) ==
    CASE position <= 1 -> 0
      [] position > 1 /\ position - 1 <= Len(tiers) -> tiers[position - 1]
      [] OTHER -> IF extendLast /\ tiers # <<>> THEN tiers[Len(tiers)] ELSE 0

\* The units of the cart that take part: <<a line, one of its pieces>>.
EligibleUnits(lines, settings) ==
    LET takesPart(line) ==
            /\ settings.stack \/ (line.bundle = "" /\ ~(settings.individual /\ line.promo > 0))
            /\ ProductPrice(line, settings) > 0
    IN  {unit \in (DOMAIN lines) \X (1 .. 10) :
            takesPart(lines[unit[1]]) /\ unit[2] <= Quantity(lines[unit[1]])}

UnitPrices(lines, settings) ==
    [unit \in EligibleUnits(lines, settings) |-> ProductPrice(lines[unit[1]], settings)]

Earlier(unit, other) ==
    unit[1] < other[1] \/ (unit[1] = other[1] /\ unit[2] < other[2])

\* Mutant: the units keep the order of the cart.
CartOrder(price) ==
    CHOOSE units \in SetToSeqs(DOMAIN price) :
        \A i, j \in DOMAIN units : i < j => Earlier(units[i], units[j])

\* The order of the sort: the dearer first, ties in the order of the cart.
Precedes(price, unit, other) ==
    price[unit] > price[other] \/ (price[unit] = price[other] /\ Earlier(unit, other))

DearestFirst(price) ==
    CHOOSE units \in SetToSeqs(DOMAIN price) :
        \A i, j \in DOMAIN units : i < j => Precedes(price, units[i], units[j])

ProgressiveDiscount(lines, settings) ==
    LET tiers    == NormalizeTiers(settings.tiers)
        price    == UnitPrices(lines, settings)
        units    == DearestFirst(price)
        discount == [i \in DOMAIN units |->
            Round(price[units[i]] * PctForPosition(i, tiers, settings.extendLast), 100)]
    IN  IF ~settings.progressive \/ tiers = <<>> \/ Len(units) < 2
        THEN 0
        ELSE Total(discount, DOMAIN units)

-----------------------------------------------------------------------------
(* Subtotal, coupon, shipping, Pix *)

\* In hundredths of a cent.
Subtotal(lines, settings) ==
    LET totals  == [i \in DOMAIN lines |-> LineTotal(lines[i], settings)]
        gross   == Total(totals, DOMAIN lines)
        bundled == 100 * gross - BundleSubtotal(lines, settings) * BundlePct
    IN  bundled - Min({100 * ProgressiveDiscount(lines, settings), bundled})

NoTerms == [pct |-> 0, minimumCharge |-> FALSE, freeShipping |-> FALSE,
            minSubtotal |-> 0, maxUses |-> 0, perCustomer |-> 0]

\* In ten-thousandths of a cent.
ApplyCoupon(subtotal, terms) ==
    IF terms.minimumCharge
    THEN SpecialCouponTotal * 10000
    ELSE subtotal * (100 - Clamp(terms.pct, 0, 99))

EnforceMinimumCharge(total) ==
    IF total > 0 /\ total < MinimumCharge THEN MinimumCharge ELSE total

ProductTotal(subtotal, terms, method) ==
    LET pix == IF method = "Pix" /\ ~terms.minimumCharge THEN 100 - PixPct ELSE 100
        discounted == Round(subtotal * pix, 1000000)
    IN  IF method = "Pix" THEN EnforceMinimumCharge(discounted) ELSE discounted

ShippingPrice(subtotal, terms, quoted) ==
    IF terms.minimumCharge \/ terms.freeShipping \/ subtotal >= FreeShippingMinimum * 10000
    THEN 0
    ELSE Max({0, quoted})

\* What the order costs before the customer's credit.
BeforeCredit(cart, terms, settings) ==
    LET subtotal == ApplyCoupon(Subtotal(cart.lines, settings), terms)
    IN  ProductTotal(subtotal, terms, cart.method)
            + ShippingPrice(subtotal, terms, cart.shipping)

-----------------------------------------------------------------------------
(* A reference for the progressive discount *)

\* A unit pays by how many units of the cart precede it: no sorting, one unit at a
\* time.
RankDiscount(lines, settings) ==
    LET tiers    == NormalizeTiers(settings.tiers)
        price    == UnitPrices(lines, settings)
        dearer(unit) == {other \in DOMAIN price : Precedes(price, other, unit)}
        discount == [unit \in DOMAIN price |->
            Round(price[unit] * PctForPosition(1 + Cardinality(dearer(unit)), tiers,
                                               settings.extendLast), 100)]
    IN  IF settings.progressive /\ Cardinality(DOMAIN price) > 1
        THEN Total(discount, DOMAIN price)
        ELSE 0

=============================================================================
