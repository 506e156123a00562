------------------------------- MODULE Checkout -------------------------------
(***************************************************************************)
(* Orders as money: OrdersService.createPending and the operations that    *)
(* end an order (src/src/orders/orders.service.ts), with the coupons       *)
(* (CouponsService), the credits (Credits) and the counter of the order    *)
(* numbers they share.                                                     *)
(*                                                                         *)
(* A request runs from one await to the next, and the requests of          *)
(* different orders interleave.  One request at a time works on one order: *)
(* requests about one row are the subject of Payments.  The stock is taken *)
(* or not (Inventory decides); no process stops here.                      *)
(***************************************************************************)
EXTENDS Pricing, Credits

CONSTANTS
    Orders,     \* the orders customers try to place
    Customers,
    Cart,       \* [Orders -> carts], a cart having the customer, the lines, the
                \* method, the coupon, the quoted shipping and what was shown
    Coupons,
    NoCoupon,
    Terms,      \* [Coupons -> what the coupon grants and its limits]
    Patches     \* the promotion settings a manager may save

PromotionSettings == [individual : BOOLEAN, progressive : BOOLEAN, tiers : Seq(Int),
                      extendLast : BOOLEAN, stack : BOOLEAN]

ASSUME CheckoutAssumption ==
    /\ IsFiniteSet(Orders)
    /\ Reservations = Orders
    /\ Patches # {} /\ Patches \subseteq PromotionSettings
    /\ \A k \in Coupons : Terms[k].pct \in Int /\ Terms[k].maxUses \in Nat
    /\ NoCoupon \notin Coupons
    /\ \A o \in Orders : Cart[o].customer \in Customers
                         /\ Cart[o].coupon \in Coupons \cup {NoCoupon}
                         /\ IsList(Cart[o].lines) /\ Cart[o].shipping \in Int
    /\ OwnerOf \in [Credits -> Customers]

VARIABLES
    settings,  \* promotion_settings
    coupon,    \* rows of coupons; the counter "uses", which nothing reads, is left out
    lockedBy,  \* per coupon, the orders whose request holds withLock("coupon:CODE")
    counter,   \* counters.value of "orders"
    order,     \* rows of orders
    request    \* per order, the request at work on it

orderVars == <<order, request>>
couponVars == <<coupon, lockedBy>>
vars == <<settings, couponVars, counter, orderVars, walletVars>>

\* "gone": the row was deleted or the checkout failed; "refunded": stock_conflict, its payment refunded.
Statuses == {"absent", "pending", "expired", "paid", "canceled", "stock_conflict",
             "refunded", "gone"}

\* Two histories are kept with the row: price, what the cart cost before credit,
\* and late, that the order was paid after it had expired.
NoRow == [status |-> "absent", number |-> 0, total |-> 0, credit |-> 0,
          coupon |-> NoCoupon, price |-> 0, late |-> FALSE]

\* before: the price before credit; taken: the credit reserved; seen: what a read
\* returned and a save is about to use.
Idle == [pc |-> "idle", before |-> 0, taken |-> 0, seen |-> 0]

\* In the order of the code: createPending, rollbackPending, releaseStoreCredit,
\* deleteOrder.
Pcs == {"idle", "count", "counted", "credit", "trim", "lock", "check", "insert", "stock",
        "erase", "undo", "drop", "free", "giveBack", "clear", "deleteFree", "deleteRow"}

TypeOK ==
    /\ CreditsTypeOK
    /\ coupon \in [Coupons -> {"active", "paused", "removed"}]
    /\ lockedBy \in [Coupons -> SUBSET Orders]
    /\ counter \in Nat
    /\ \A o \in Orders :
        /\ order[o].status \in Statuses
        /\ order[o].total >= 0
        /\ order[o].credit >= 0
        /\ request[o].pc \in Pcs

Init ==
    /\ CreditsInit
    /\ settings = CHOOSE patch \in Patches : TRUE
    /\ coupon = [k \in Coupons |-> "active"]
    /\ lockedBy = [k \in Coupons |-> {}]
    /\ counter = 0
    /\ order = [o \in Orders |-> NoRow]
    /\ request = [o \in Orders |-> Idle]

-----------------------------------------------------------------------------
(* Requests and rows *)

At(o, pc) == request[o].pc = pc

Goto(o, pc) ==
    request' = [request EXCEPT ![o] = IF pc = "idle" THEN Idle ELSE [@ EXCEPT !.pc = pc]]

End(o) == Goto(o, "idle")

Exists(o) == order[o].status \notin {"absent", "gone"}

CouponOf(o) == Cart[o].coupon

TermsOf(o) == IF CouponOf(o) = NoCoupon THEN NoTerms ELSE Terms[CouponOf(o)]

-----------------------------------------------------------------------------
(* Coupons *)

\* The orders that count against the limits of the coupon k.
Uses(k) == {o \in Orders : order[o].coupon = k /\ order[o].status \in {"pending", "paid"}}

GetActive(o) ==
    LET k == CouponOf(o)
        byCustomer == {p \in Uses(k) : Cart[p].customer = Cart[o].customer}
    IN  /\ coupon[k] = "active"
        /\ Terms[k].maxUses > 0 => Cardinality(Uses(k)) < Terms[k].maxUses
        /\ Terms[k].perCustomer > 0 => Cardinality(byCustomer) < Terms[k].perCustomer

\* A bound: the manager edits only while an edit can matter to some checkout.
EditsMatter == \E o \in Orders : order[o].status = "absent"

\* The manager pauses a coupon, or resumes it.
UpdateCoupon(k) ==
    /\ EditsMatter
    /\ coupon[k] # "removed"
    /\ coupon' = [coupon EXCEPT ![k] = IF @ = "active" THEN "paused" ELSE "active"]
    /\ UNCHANGED <<settings, lockedBy, counter, orderVars, walletVars>>

\* ON DELETE SET NULL: the orders placed with the coupon lose their code.
RemoveCoupon(k) ==
    /\ EditsMatter
    /\ coupon[k] # "removed"
    /\ coupon' = [coupon EXCEPT ![k] = "removed"]
    /\ order' = [o \in Orders |-> IF order[o].coupon = k
                                  THEN [order[o] EXCEPT !.coupon = NoCoupon] ELSE order[o]]
    /\ UNCHANGED <<settings, lockedBy, counter, request, walletVars>>

\* updateSettings keeps some tier of an enabled discount above zero.  A bound: the
\* settings change before the first checkout reads them.
UpdateSettings ==
    /\ \A o \in Orders : order[o].status = "absent" /\ At(o, "idle")
    /\ \E patch \in Patches \ {settings} :
        LET tiers == NormalizeTiers(patch.tiers)
        IN  /\ patch.progressive => \E i \in DOMAIN tiers : tiers[i] > 0
            /\ settings' = [patch EXCEPT !.tiers = tiers]
    /\ UNCHANGED <<couponVars, counter, orderVars, walletVars>>

-----------------------------------------------------------------------------
(* createPending *)

UsesCoupon(o) == CouponOf(o) # NoCoupon

Shipping(o) ==
    ShippingPrice(ApplyCoupon(Subtotal(Cart[o].lines, settings), TermsOf(o)),
                  TermsOf(o), Cart[o].shipping)

\* The cart is priced and the coupon looked at, with no lock.
CreatePending(o) ==
    /\ At(o, "idle")
    /\ order[o].status = "absent"
    /\ UsesCoupon(o) =>
         /\ GetActive(o)
         /\ Subtotal(Cart[o].lines, settings) >= 100 * TermsOf(o).minSubtotal
    /\ ~(Cart[o].expectsFree /\ Shipping(o) > 0)
    /\ request' = [request EXCEPT ![o].pc = "count",
                      ![o].before = BeforeCredit(Cart[o], TermsOf(o), settings)]
    /\ UNCHANGED <<settings, couponVars, counter, order, walletVars>>

\* nextOrderNumber: a read and a save of the counter, no lock.
ReadCounter(o) ==
    /\ At(o, "count")
    /\ request' = [request EXCEPT ![o].pc = "counted", ![o].seen = counter]
    /\ UNCHANGED <<settings, couponVars, counter, order, walletVars>>

Proceed(o) == IF UsesCoupon(o) THEN "lock" ELSE "insert"

SaveCounter(o) ==
    /\ At(o, "counted")
    /\ counter' = request[o].seen + 1
    /\ request' = [request EXCEPT
            ![o].pc = IF Cart[o].useCredit /\ ~TermsOf(o).minimumCharge
                      THEN "credit" ELSE Proceed(o),
            ![o].seen = counter']
    /\ UNCHANGED <<settings, couponVars, order, walletVars>>

\* A Pix must be of at least the minimum charge.
TooSmall(o, total) == Cart[o].method = "Pix" /\ total > 0 /\ total < MinimumCharge

ReserveCredit(o) ==
    LET taken == Available(Cart[o].customer, request[o].before)
    IN  /\ At(o, "credit")
        /\ IF request[o].before > 0
           THEN ReserveBalance(o, Cart[o].customer, request[o].before)
           ELSE UNCHANGED walletVars
        /\ request' = [request EXCEPT
                ![o].pc = IF taken > 0 /\ TooSmall(o, request[o].before - taken)
                          THEN "trim" ELSE Proceed(o),
                ![o].taken = taken]
        /\ UNCHANGED <<settings, couponVars, counter, order>>

\* Mutant: the credit recorded is the one reserved first.
TrimUnrecorded(o) ==
    LET excess == Min({request[o].taken, MinimumCharge - (request[o].before - request[o].taken)})
    IN  /\ At(o, "trim")
        /\ Release(o, excess)
        /\ Goto(o, Proceed(o))
        /\ UNCHANGED <<settings, couponVars, counter, order>>

\* Some credit is given back so that a payment of the minimum is left.
TrimCredit(o) ==
    LET excess == Min({request[o].taken, MinimumCharge - (request[o].before - request[o].taken)})
    IN  /\ At(o, "trim")
        /\ Release(o, excess)
        /\ request' = [request EXCEPT ![o].pc = Proceed(o), ![o].taken = @ - excess]
        /\ UNCHANGED <<settings, couponVars, counter, order>>

\* Mutant: no lock.
NotLocked(k) == k \in Coupons

Lockable(k) == lockedBy[k] = {}

LockCoupon(o) ==
    /\ At(o, "lock")
    /\ Lockable(CouponOf(o))
    /\ lockedBy' = [lockedBy EXCEPT ![CouponOf(o)] = @ \cup {o}]
    /\ Goto(o, "check")
    /\ UNCHANGED <<settings, coupon, counter, order, walletVars>>

Unlock(o) == lockedBy' = [k \in Coupons |-> lockedBy[k] \ {o}]

CheckAgain(o) ==
    /\ At(o, "check")
    /\ IF GetActive(o)
       THEN Goto(o, "insert") /\ UNCHANGED lockedBy
       ELSE Goto(o, "undo") /\ Unlock(o)
    /\ UNCHANGED <<settings, coupon, counter, order, walletVars>>

\* The column number is unique and coupon_code a foreign key.
Insertable(o) ==
    /\ \A p \in Orders : Exists(p) => order[p].number # request[o].seen
    /\ UsesCoupon(o) => coupon[CouponOf(o)] # "removed"

TotalOf(o) ==
    LET total == request[o].before - request[o].taken
    IN  IF TooSmall(o, total) THEN MinimumCharge ELSE total

InsertOrder(o) ==
    /\ At(o, "insert")
    /\ IF Insertable(o)
       THEN /\ order' = [order EXCEPT ![o] =
                   [NoRow EXCEPT !.status = "pending", !.number = request[o].seen,
                                 !.total = TotalOf(o), !.credit = request[o].taken,
                                 !.coupon = CouponOf(o), !.price = request[o].before]]
            /\ Goto(o, "stock")
            /\ UNCHANGED lockedBy
       ELSE /\ Goto(o, "undo")
            /\ Unlock(o)
            /\ UNCHANGED order
    /\ UNCHANGED <<settings, coupon, counter, walletVars>>

\* reserveOrder finds the units, or throws.
ReserveOrder(o) ==
    /\ At(o, "stock")
    /\ \/ End(o) /\ Unlock(o)
       \/ Goto(o, "erase") /\ UNCHANGED lockedBy
    /\ UNCHANGED <<settings, coupon, counter, order, walletVars>>

EraseOrder(o) ==
    /\ At(o, "erase")
    /\ order' = [order EXCEPT ![o] = [NoRow EXCEPT !.status = "gone"]]
    /\ Goto(o, "undo")
    /\ Unlock(o)
    /\ UNCHANGED <<settings, coupon, counter, walletVars>>

\* Mutant: the credit of a checkout that failed is kept.
UndoKeepingCredit(o) ==
    /\ At(o, "undo")
    /\ order' = [order EXCEPT ![o].status = "gone"]
    /\ End(o)
    /\ UNCHANGED <<settings, couponVars, counter, walletVars>>

\* The catch: the credit that was reserved goes back.  (Another attempt is another
\* order.)
UndoCheckout(o) ==
    /\ At(o, "undo")
    /\ IF request[o].taken > 0 THEN Release(o, request[o].taken) ELSE UNCHANGED walletVars
    /\ order' = [order EXCEPT ![o].status = "gone"]
    /\ End(o)
    /\ UNCHANGED <<settings, couponVars, counter>>

-----------------------------------------------------------------------------
(* What becomes of a pending order *)

SetStatus(o, from, to) ==
    /\ At(o, "idle")
    /\ order[o].status \in from
    /\ order' = [order EXCEPT ![o].status = to,
                             ![o].late = @ \/ (to = "paid" /\ order[o].status = "expired")]

ExpireOrder(o) ==
    /\ SetStatus(o, {"pending"}, "expired")
    /\ UNCHANGED <<settings, couponVars, counter, request, walletVars>>

CommitOrder(o) ==
    /\ SetStatus(o, {"pending", "expired"}, "paid")
    /\ UNCHANGED <<settings, couponVars, counter, request, walletVars>>

\* A cancellation, or a payment without units, and then releaseStoreCredit.
CancelOrder(o) ==
    /\ SetStatus(o, {"pending", "expired", "paid"}, "canceled")
    /\ Goto(o, "giveBack")
    /\ UNCHANGED <<settings, couponVars, counter, walletVars>>

ConflictOrder(o) ==
    /\ SetStatus(o, {"pending", "expired"}, "stock_conflict")
    /\ Goto(o, "giveBack")
    /\ UNCHANGED <<settings, couponVars, counter, walletVars>>

MarkRefunded(o) ==
    /\ SetStatus(o, {"stock_conflict"}, "refunded")
    /\ UNCHANGED <<settings, couponVars, counter, request, walletVars>>

\* releaseStoreCredit: the credit goes back, then the row says so.
GiveBack(o) ==
    /\ At(o, "giveBack")
    /\ IF order[o].credit > 0
       THEN Release(o, order[o].credit) /\ Goto(o, "clear")
       ELSE UNCHANGED walletVars /\ End(o)
    /\ UNCHANGED <<settings, couponVars, counter, order>>

ClearCredit(o) ==
    /\ At(o, "clear")
    /\ order' = [order EXCEPT ![o].credit = 0]
    /\ End(o)
    /\ UNCHANGED <<settings, couponVars, counter, walletVars>>

DeleteRow(o, from, to) ==
    /\ At(o, from)
    /\ order' = [order EXCEPT ![o] = [NoRow EXCEPT !.status = "gone"]]
    /\ Goto(o, to)
    /\ UNCHANGED <<settings, couponVars, counter, walletVars>>

\* rollbackPending works on the record createPending returned.
RollbackPending(o) ==
    \/ /\ SetStatus(o, {"pending", "expired"}, "canceled")
       /\ request' = [request EXCEPT ![o].pc = "drop", ![o].taken = order[o].credit]
       /\ UNCHANGED <<settings, couponVars, counter, walletVars>>
    \/ DeleteRow(o, "drop", "free")
    \/ /\ At(o, "free")
       /\ IF request[o].taken > 0 THEN Release(o, request[o].taken) ELSE UNCHANGED walletVars
       /\ End(o)
       /\ UNCHANGED <<settings, couponVars, counter, order>>

\* deleteOrder: an order that was never completed is canceled first.
DeleteOrder(o) ==
    \/ /\ At(o, "idle")
       /\ order[o].status \in {"pending", "expired", "canceled", "refunded"}
       /\ order' = [order EXCEPT ![o].status =
                       IF @ \in {"pending", "expired"} THEN "canceled" ELSE @]
       /\ Goto(o, "deleteFree")
       /\ UNCHANGED <<settings, couponVars, counter, walletVars>>
    \/ /\ At(o, "deleteFree")
       /\ IF order[o].credit > 0 THEN Release(o, order[o].credit) ELSE UNCHANGED walletVars
       /\ Goto(o, "deleteRow")
       /\ UNCHANGED <<settings, couponVars, counter, order>>
    \/ DeleteRow(o, "deleteRow", "idle")

-----------------------------------------------------------------------------
Next ==
    \/ \E o \in Orders :
        \/ CreatePending(o) \/ ReadCounter(o) \/ SaveCounter(o) \/ ReserveCredit(o)
        \/ TrimCredit(o) \/ LockCoupon(o) \/ CheckAgain(o) \/ InsertOrder(o)
        \/ ReserveOrder(o) \/ EraseOrder(o) \/ UndoCheckout(o)
        \/ ExpireOrder(o) \/ CommitOrder(o) \/ CancelOrder(o) \/ ConflictOrder(o)
        \/ MarkRefunded(o) \/ GiveBack(o) \/ ClearCredit(o)
        \/ RollbackPending(o) \/ DeleteOrder(o)
    \/ \E k \in Coupons : UpdateCoupon(k) \/ RemoveCoupon(k)
    \/ UpdateSettings
    \/ \E c \in Credits :
        \/ CreditExpires(c) /\ UNCHANGED <<settings, couponVars, counter, orderVars>>
        \/ ReadOverdue(c) /\ UNCHANGED <<settings, couponVars, counter, orderVars>>
    \/ SaveOverdue /\ UNCHANGED <<settings, couponVars, counter, orderVars>>

Spec == Init /\ [][Next]_vars

-----------------------------------------------------------------------------
(* Safety *)

\* The credit that is off a customer's balance is the credit the order says it
\* was paid with: a checkout that failed at any of its steps, a deletion, a
\* rollback or a cancellation leaves none of it behind, whatever other orders of
\* the customer do with the same credits.
CreditFollowsOrder ==
    \A o \in Orders :
        At(o, "idle") => Outstanding(o) = IF Exists(o) THEN order[o].credit ELSE 0

\* maxUses bounds the orders placed with a coupon that are pending or paid, those
\* aside whose payment came after they had expired (they had stopped counting).
CouponLimit ==
    \A k \in Coupons :
        Terms[k].maxUses > 0 =>
            Cardinality({o \in Uses(k) : ~order[o].late}) <= Terms[k].maxUses

\* The customer pays what the cart cost when it was priced, in money and credit,
\* and a Pix that is not free is at least the minimum charge.
PriceIsPaid ==
    \A o \in Orders :
        order[o].status \in {"pending", "paid"} =>
            /\ \/ order[o].total + order[o].credit = order[o].price
               \/ order[o].total = MinimumCharge /\ order[o].credit = 0
            /\ Cart[o].method = "Pix" => order[o].total = 0 \/ order[o].total >= MinimumCharge

\* The discount that createPending has just taken, over the sorted units, is the one
\* in which a unit pays by the number of units dearer than it (or as dear and before
\* it in the cart), whatever the cart and the settings.
ProgressiveByRank ==
    \A o \in Orders :
        At(o, "count") =>
            ProgressiveDiscount(Cart[o].lines, settings) = RankDiscount(Cart[o].lines, settings)

=============================================================================
