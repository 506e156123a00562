-------------------------------- MODULE Returns --------------------------------
(***************************************************************************)
(* The returns and exchanges of one order, paid and delivered: Returns-    *)
(* Service (src/src/returns/returns.service.ts), the reverse shipment of   *)
(* MelhorEnvioService with its webhooks, refundOrderAmount of Payments-    *)
(* Service and what resolve does to the stock and to the credits.          *)
(*                                                                         *)
(* A handler goes from one call to another system to the next, carrying a  *)
(* copy of the row of return_requests, which each save writes back whole.  *)
(* Reads and saves with no such call between are one step.  Amounts are in *)
(* cents.  Notes, events and e-mails are left out.                         *)
(***************************************************************************)
EXTENDS Integers, FiniteSets, SequencesExt, Sums

CONSTANTS
    Requests,     \* the requests customers try to make for the order
    Kind,         \* [Requests -> "exchange", "return" or "defect"]
    Lines,        \* the lines of the order
    Sold,         \* [Lines -> quantity bought]
    UnitPrice,    \* [Lines -> price of a unit, before discounts]
    Items,        \* [Requests -> [Lines -> quantity to give back]]
    OrderTotal,   \* what the order cost in money, its shipping included
    OrderCredit,  \* what of it was paid with credit
    OrderShipping,
    Managers,     \* the managers at work
    Labels,       \* a bound: the labels the carrier may hand out
    None,
    ByHand,       \* a bound: the statuses a manager sets by hand
    ByCarrier,    \* a bound: the requests a reverse shipment is issued for
    Lost,         \* a bound: whether answers of the carrier may be lost
    Interrupted   \* a bound: the requests whose resolution may stop half way

ASSUME ReturnsAssumption ==
    /\ Kind \in [Requests -> {"exchange", "return", "defect"}]
    /\ Sold \in [Lines -> Nat \ {0}]
    /\ UnitPrice \in [Lines -> Nat \ {0}]
    /\ Items \in [Requests -> [Lines -> Nat]]
    /\ OrderTotal \in Nat /\ OrderCredit \in Nat /\ OrderShipping \in Nat
    /\ OrderShipping <= OrderTotal + OrderCredit
    /\ IsFiniteSet(Requests) /\ IsFiniteSet(Lines) /\ Lines # {}
    /\ \A r \in Requests : \E line \in Lines : Items[r][line] > 0
    /\ None \notin Labels \cup Requests
    /\ Lost \in BOOLEAN
    /\ ByHand \subseteq {"approved", "awaiting_posting", "returning", "received", "inspecting",
                        "rejected", "canceled"}

VARIABLES
    request,     \* the rows of return_requests
    lockedBy,    \* the requests that hold withLock("return-order:ID")
    days,        \* since the delivery
    parcel,      \* what the carrier holds of each reverse label
    heard,       \* the webhooks of the labels that were handled
    cash,        \* refunded to the order by the gateway
    creditBack,  \* given back of the credit the order was paid with
    refunded,    \* per request, a history of both
    voucher,     \* per request, the new store credit: return_request_id is unique
    restocked,   \* per request, the lines with a movement return:ID:restock
    job          \* what each manager is doing

moneyVars == <<cash, creditBack, refunded, voucher>>
carrierVars == <<parcel, heard>>
vars == <<request, lockedBy, days, carrierVars, moneyVars, restocked, job>>

Open == {"requested", "approved", "awaiting_posting", "returning", "received", "inspecting"}
Dead == {"rejected", "canceled"}
Closed == Dead \cup {"completed"}
Statuses == Open \cup Closed \cup {"absent"}

Conditions == {"pending", "resellable", "damaged"}

Wanted(r) == {line \in Lines : Items[r][line] > 0}

\* posting: a posting code is known; reverse: reverse_status.
NoRequest == [status |-> "absent", condition |-> [line \in Lines |-> "pending"],
              label |-> None, reverse |-> "none", posting |-> FALSE, amount |-> 0]

ParcelStates == {"none", "cart", "released", "generated", "posted", "delivered"}

Idle == [pc |-> "idle", request |-> None, row |-> NoRequest, resolution |-> "none",
         amount |-> 0]

Pcs == {"idle", "cart", "purchase", "generate", "refund", "release", "voucher", "restock",
        "complete"}

TypeOK ==
    /\ \A r \in Requests :
        /\ request[r].status \in Statuses
        /\ request[r].condition \in [Lines -> Conditions]
        /\ request[r].label \in Labels \cup {None}
        /\ request[r].reverse \in ParcelStates \cup {"purchased"}
        /\ restocked[r] \subseteq Lines
    /\ lockedBy \subseteq Requests
    /\ parcel \in [Labels -> ParcelStates]
    /\ \A m \in Managers : job[m].pc \in Pcs

Init ==
    /\ request = [r \in Requests |-> NoRequest]
    /\ lockedBy = {}
    /\ days = 0
    /\ parcel = [l \in Labels |-> "none"]
    /\ heard = {}
    /\ cash = 0
    /\ creditBack = 0
    /\ refunded = [r \in Requests |-> 0]
    /\ voucher = [r \in Requests |-> 0]
    /\ restocked = [r \in Requests |-> {}]
    /\ job = [m \in Managers |-> Idle]

-----------------------------------------------------------------------------
(* What a request is worth *)

Round(n, d) == (2 * n + d) \div (2 * d)

GrossItems == Total([line \in Lines |-> UnitPrice[line] * Sold[line]], Lines)
NetItems == Max({0, OrderTotal + OrderCredit - OrderShipping})

\* Mutant: what was asked for the unit, without the discounts of the order.
FullPrice(line) == UnitPrice[line]

UnitRefundValue(line) ==
    IF GrossItems > 0 THEN Round(UnitPrice[line] * Min({NetItems, GrossItems}), GrossItems)
    ELSE UnitPrice[line]

CalculatedAmount(r) ==
    LET items == Total([line \in Lines |-> UnitRefundValue(line) * Items[r][line]], Lines)
    IN  items + (IF Kind[r] = "return" /\ Items[r] = Sold THEN OrderShipping ELSE 0)

CreditPart(amount) ==
    Min({OrderCredit, Round(amount * OrderCredit, Max({OrderTotal + OrderCredit, 1}))})

CashPart(amount) == Max({0, amount - CreditPart(amount)})

-----------------------------------------------------------------------------
(* The customer *)

\* The days that matter: 7 for a regret, 30 for an exchange.  A bound: they pass while
\* there is something left to ask for.
DaysPass ==
    /\ days < 31
    /\ \E r \in Requests : request[r].status = "absent"
    /\ days' = IF days < 8 THEN 8 ELSE 31
    /\ UNCHANGED <<request, lockedBy, carrierVars, moneyVars, restocked, job>>

InTime(r) ==
    /\ Kind[r] = "return" => days <= 7
    /\ Kind[r] = "exchange" => days <= 30

\* Mutant: no lock.
NotLocked == TRUE

LockFree == lockedBy = {}

\* Under the lock, the requests of the order are read ...
Claimed(line) ==
    Total([r \in Requests |-> Items[r][line]],
          {r \in Requests : request[r].status \notin Dead \cup {"absent"}})

Available(r) == \A line \in Wanted(r) : Items[r][line] <= Sold[line] - Claimed(line)

ReadClaims(r) ==
    /\ request[r].status = "absent"
    /\ r \notin lockedBy
    /\ InTime(r)
    /\ LockFree
    /\ Available(r)
    /\ lockedBy' = lockedBy \cup {r}
    /\ UNCHANGED <<request, days, carrierVars, moneyVars, restocked, job>>

\* ... and the new one is inserted.
Create(r) ==
    /\ r \in lockedBy
    /\ request' = [request EXCEPT ![r].status = "requested"]
    /\ lockedBy' = lockedBy \ {r}
    /\ UNCHANGED <<days, carrierVars, moneyVars, restocked, job>>

Cancel(r) ==
    /\ request[r].status \in {"requested", "approved"}
    /\ request' = [request EXCEPT ![r].status = "canceled"]
    /\ UNCHANGED <<lockedBy, days, carrierVars, moneyVars, restocked, job>>

-----------------------------------------------------------------------------
(* The manager *)

At(m, pc) == job[m].pc = pc

Goto(m, pc) == job' = [job EXCEPT ![m].pc = pc]

End(m) == job' = [job EXCEPT ![m] = Idle]

\* Saves the whole row and goes on with it.
SaveRow(m, row, pc) ==
    /\ request' = [request EXCEPT ![job[m].request] = row]
    /\ job' = [job EXCEPT ![m].row = row, ![m].pc = pc]

\* The catch of issueReverseShipment saves the row it has, with the error.
SaveFailed(m) ==
    /\ request' = [request EXCEPT ![job[m].request] = job[m].row]
    /\ End(m)

\* A bound: the manager notes the condition of a piece once it has arrived.
Update(r) ==
    /\ request[r].status \in Open
    /\ \/ \E line \in Wanted(r), condition \in Conditions \ {"pending"} :
            /\ request[r].status \in {"received", "inspecting"}
            /\ request' = [request EXCEPT ![r].condition[line] = condition]
       \/ ~request[r].posting /\ request' = [request EXCEPT ![r].posting = TRUE]
       \/ \E status \in ByHand :
            /\ status = "awaiting_posting" => request[r].posting
            /\ request' = [request EXCEPT ![r].status = status]
    /\ UNCHANGED <<lockedBy, days, carrierVars, moneyVars, restocked, job>>

IssueReverseShipment(m, r) ==
    /\ r \in ByCarrier
    /\ At(m, "idle")
    /\ request[r].status = "approved"
    /\ job' = [job EXCEPT ![m] = [Idle EXCEPT
                 !.pc = CASE request[r].label = None -> "cart"
                          [] request[r].label # None /\ request[r].reverse = "cart" -> "purchase"
                          [] OTHER -> "generate",
                 !.request = r, !.row = request[r]]]
    /\ UNCHANGED <<request, lockedBy, days, carrierVars, moneyVars, restocked>>

CreateReverseCart(m) ==
    /\ At(m, "cart")
    /\ \E l \in Labels :
        /\ parcel[l] = "none"
        /\ parcel' = [parcel EXCEPT ![l] = "cart"]
        /\ \/ SaveRow(m, [job[m].row EXCEPT !.label = l, !.reverse = "cart", !.posting = FALSE],
                      "purchase")
           \/ Lost /\ SaveFailed(m)
    /\ UNCHANGED <<lockedBy, days, heard, moneyVars, restocked>>

\* Mutant: another label for every attempt.
PurchaseAnother(m) ==
    /\ At(m, "purchase")
    /\ \/ parcel' = [parcel EXCEPT ![job[m].row.label] = "released"]
          /\ SaveRow(m, [job[m].row EXCEPT !.reverse = "purchased"], "generate")
       \/ Lost /\ parcel' = [parcel EXCEPT ![job[m].row.label] = "released"]
          /\ request' = [request EXCEPT ![job[m].request] = [job[m].row EXCEPT !.label = None]]
          /\ End(m)
    /\ UNCHANGED <<lockedBy, days, heard, moneyVars, restocked>>

PurchaseReverseShipment(m) ==
    LET l == job[m].row.label
    IN  /\ At(m, "purchase")
        /\ \/ /\ parcel[l] = "cart"
              /\ parcel' = [parcel EXCEPT ![l] = "released"]
              /\ \/ SaveRow(m, [job[m].row EXCEPT !.reverse = "purchased"], "generate")
                 \/ Lost /\ SaveFailed(m)
           \/ /\ parcel[l] # "cart"
              /\ SaveFailed(m)
              /\ UNCHANGED parcel
        /\ UNCHANGED <<lockedBy, days, heard, moneyVars, restocked>>

GenerateReverseShipment(m) ==
    LET l == job[m].row.label
    IN  /\ At(m, "generate")
        /\ parcel' = [parcel EXCEPT ![l] = IF @ = "released" THEN "generated" ELSE @]
        /\ \/ /\ request' = [request EXCEPT ![job[m].request] =
                     [job[m].row EXCEPT !.reverse = "generated", !.posting = TRUE,
                                        !.status = "awaiting_posting"]]
              /\ End(m)
           \/ Lost /\ SaveFailed(m)
        /\ UNCHANGED <<lockedBy, days, heard, moneyVars, restocked>>

-----------------------------------------------------------------------------
(* The reverse parcel *)

CustomerPosts(l) ==
    /\ \/ parcel[l] = "generated" /\ parcel' = [parcel EXCEPT ![l] = "posted"]
       \/ parcel[l] = "posted" /\ parcel' = [parcel EXCEPT ![l] = "delivered"]
    /\ UNCHANGED <<request, lockedBy, days, heard, moneyVars, restocked, job>>

Reached(l) ==
    CASE parcel[l] = "released" -> {"released"}
      [] parcel[l] = "generated" -> {"released", "generated"}
      [] parcel[l] = "posted" -> {"released", "generated", "posted"}
      [] parcel[l] = "delivered" -> {"released", "generated", "posted", "delivered"}
      [] OTHER -> {}

\* Once generated, the label has a posting code, which the events carry.
ApplyReverse(row, event) ==
    LET posting == row.posting \/ event # "released"
    IN  [row EXCEPT !.reverse = event,
                    !.posting = posting,
                    !.status = CASE event = "posted" -> "returning"
                                 [] event = "delivered" -> "received"
                                 [] event = "generated" /\ @ = "approved" -> "awaiting_posting"
                                 [] OTHER -> @]

ApplyReverseWebhookEvent(l, event) ==
    /\ event \in Reached(l)
    /\ <<l, event>> \notin heard
    /\ heard' = heard \cup {<<l, event>>}
    /\ request' = [r \in Requests |-> IF request[r].label = l
                                      THEN ApplyReverse(request[r], event) ELSE request[r]]
    /\ UNCHANGED <<lockedBy, days, parcel, moneyVars, restocked, job>>

-----------------------------------------------------------------------------
(* resolve *)

\* A bound: the manager grants the calculated amount or half of it.
Amounts(r) == {CalculatedAmount(r), CalculatedAmount(r) \div 2} \ {0}

Resolve(m, r) ==
    /\ At(m, "idle")
    /\ request[r].status \in {"received", "inspecting"}
    /\ \A line \in Wanted(r) : request[r].condition[line] # "pending"
    /\ \E resolution \in {"credit", "refund"}, amount \in Amounts(r) :
        /\ Kind[r] = "exchange" => resolution = "credit"
        /\ job' = [job EXCEPT ![m] =
                     [pc |-> IF resolution = "credit" THEN "voucher" ELSE "refund",
                      request |-> r, row |-> request[r], resolution |-> resolution,
                      amount |-> amount]]
    /\ UNCHANGED <<request, lockedBy, days, carrierVars, moneyVars, restocked>>

\* The gateway refunds no more than what is left of the payment.
RefundOrderAmount(m) ==
    LET r == job[m].request
        asked == CashPart(job[m].amount)
        value == Min({OrderTotal, asked})
    IN  /\ At(m, "refund")
        /\ IF value <= OrderTotal - cash /\ (asked > 0 => value > 0)
           THEN /\ cash' = cash + value
                /\ refunded' = [refunded EXCEPT ![r] = @ + value]
                /\ Goto(m, "release")
           ELSE End(m) /\ UNCHANGED <<cash, refunded>>
        /\ UNCHANGED <<request, lockedBy, days, carrierVars, creditBack, voucher, restocked>>

ReleaseCredit(m) ==
    LET value == Min({CreditPart(job[m].amount), OrderCredit - creditBack})
    IN  /\ At(m, "release")
        /\ creditBack' = creditBack + value
        /\ refunded' = [refunded EXCEPT ![job[m].request] = @ + value]
        /\ Goto(m, "restock")
        /\ UNCHANGED <<request, lockedBy, days, carrierVars, cash, voucher, restocked>>

\* Mutant: return_request_id is not unique.
AnotherVoucher(m) ==
    /\ At(m, "voucher")
    /\ voucher' = [voucher EXCEPT ![job[m].request] = @ + job[m].amount]
    /\ Goto(m, "restock")
    /\ UNCHANGED <<request, lockedBy, days, carrierVars, cash, creditBack, refunded, restocked>>

SaveVoucher(m) ==
    LET r == job[m].request
    IN  /\ At(m, "voucher")
        /\ IF voucher[r] = 0
           THEN voucher' = [voucher EXCEPT ![r] = job[m].amount] /\ Goto(m, "restock")
           ELSE End(m) /\ UNCHANGED voucher
        /\ UNCHANGED <<request, lockedBy, days, carrierVars, cash, creditBack, refunded,
                       restocked>>

Resellable(row, r) == {line \in Wanted(r) : row.condition[line] = "resellable"}

RestockReturn(m) ==
    LET r == job[m].request
    IN  /\ At(m, "restock")
        /\ restocked' = [restocked EXCEPT ![r] = @ \cup Resellable(job[m].row, r)]
        /\ Goto(m, "complete")
        /\ UNCHANGED <<request, lockedBy, days, carrierVars, moneyVars>>

Complete(m) ==
    /\ At(m, "complete")
    /\ request' = [request EXCEPT ![job[m].request] =
            [job[m].row EXCEPT !.status = "completed", !.amount = job[m].amount]]
    /\ End(m)
    /\ UNCHANGED <<lockedBy, days, carrierVars, moneyVars, restocked>>

\* A step of resolve throws, or the process stops.
Interrupt(m) ==
    /\ job[m].pc \in {"restock", "complete"}
    /\ job[m].request \in Interrupted
    /\ End(m)
    /\ UNCHANGED <<request, lockedBy, days, carrierVars, moneyVars, restocked>>

-----------------------------------------------------------------------------
Next ==
    \/ DaysPass
    \/ \E r \in Requests : ReadClaims(r) \/ Create(r) \/ Cancel(r) \/ Update(r)
    \/ \E m \in Managers :
        \/ \E r \in Requests : IssueReverseShipment(m, r) \/ Resolve(m, r)
        \/ CreateReverseCart(m) \/ PurchaseReverseShipment(m) \/ GenerateReverseShipment(m)
        \/ RefundOrderAmount(m) \/ ReleaseCredit(m) \/ SaveVoucher(m) \/ RestockReturn(m)
        \/ Complete(m) \/ Interrupt(m)
    \/ \E l \in Labels :
        \/ CustomerPosts(l)
        \/ \E event \in ParcelStates : ApplyReverseWebhookEvent(l, event)

Spec == Init /\ [][Next]_vars

(* Schedules *)

\* Only exchanges, which are never paid back in money, are interrupted: the resolution of
\* another that stops half way is begun again, and refunds again.
InterruptedExchanges == \A r \in Requests \cap Interrupted : Kind[r] = "exchange"

\* No one else writes a request while a handler carries a copy of its row.
CopiesAreFresh ==
    \A m \in Managers :
        LET r == job[m].request
        IN  job'[m].request # None /\ r # None => request'[r] = job'[m].row

\* One manager at a time resolves a request, or issues its label; others may be at work
\* on other requests.
RequestsApart ==
    \A m, n \in Managers :
        m # n /\ job'[m].request # None => job'[n].request # job'[m].request

\* A webhook of the reverse parcel comes before the request is closed.
EventsInTime ==
    \A r \in Requests : request[r].status \in Closed => request'[r].status = request[r].status

CalmSpec == Init /\ [][Next /\ CopiesAreFresh /\ RequestsApart /\ EventsInTime]_vars

-----------------------------------------------------------------------------
(* Properties *)

\* The customer never claims more units of a line than were bought, over all the
\* requests that live, whatever was canceled, rejected or asked for at once.
ClaimsFitTheOrder ==
    \A line \in Lines : Claimed(line) <= Sold[line]

\* What the amounts of the pieces may differ from the order by.
RoundingOf(amount) == 2 * amount <= Total(Sold, Lines)

\* A completed request gave its customer the amount it records, in money and credit or
\* as a new credit (a cent for each unit of the order aside, which roundings may take: no
\* more than was paid is given back), and its resellable pieces are on the shelf; any
\* other gave nothing, unless its resolution is under way or was interrupted.
PaidBackOnce ==
    \A r \in Requests :
        LET given == refunded[r] + voucher[r]
            underWay == \E m \in Managers : job[m].request = r /\ job[m].resolution # "none"
        IN  /\ request[r].status = "completed" =>
                 /\ given <= request[r].amount
                 /\ request[r].amount - given <= Total(Sold, Lines)
                 /\ restocked[r] = Resellable(request[r], r)
            /\ request[r].status # "completed" /\ ~underWay /\ r \notin Interrupted =>
                 given = 0 /\ restocked[r] = {}
            /\ given <= CalculatedAmount(r)

\* All the requests of an order that live or were completed give back no more than it
\* cost, but for half a cent of rounding per unit.
RefundsFitTheOrder ==
    LET given == Total([r \in Requests |-> refunded[r] + voucher[r]],
                       {r \in Requests : request[r].status \notin Dead})
    IN  given <= OrderTotal + OrderCredit \/ RoundingOf(given - OrderTotal - OrderCredit)

\* One reverse label at most is paid for each request, however often it is issued.
OneReverseLabelPaid ==
    \A l \in Labels :
        parcel[l] \notin {"none", "cart"} => \E r \in Requests : request[r].label = l
=============================================================================
