# Verification of the Wear Bubble API

TLA+ models, TLC checks and TLAPS proofs for the back end of the Wear Bubble
shop (`src/`, NestJS + TypeORM + PostgreSQL, payments by Asaas, labels by Melhor
Envio). Every definition is translated from the source; `PROJECT.json` (`map`)
names the lines each one stands for.

## The system

Node runs one event loop: requests, webhooks and the interval timer interleave at
every `await`. Three mechanisms order them:

- **transactions with row locks** (`SELECT ... FOR UPDATE`): all of
  `InventoryService`, the balances of `CreditsService`;
- **session advisory locks** (`AdvisoryLockService.withLock`) on a coupon, an
  order or the returns of an order;
- **conditional updates** (`claimStockConflictRefund`).

Everything else is a read followed by a save of the entity that was read. A
`save` of TypeORM writes every column in which the entity differs from the row,
the ones somebody else changed since included.

| component | state | operations | what is hard |
|---|---|---|---|
| inventory | `products.stock`, `product_colors.size_stock`, reservations, movements, three status columns of `orders` | reserve, commit (or conflict), cancel, restock (cancellation, return), claim / release / mark a refund, sweep of expired reservations | the last unit; payments after the deadline; repetitions; two counters of one quantity (stock and cells) |
| payments | gateway, charge and payment columns of the order | checkout, switch to card, webhook, status poll, cancel (with or without a refund by hand), refund of a conflict, partial refund | stale entities; webhooks early, late, repeated or lost; a charge the shop does not know; crash between gateway and database |
| persistence | pool of connections, advisory locks | `withLock` | a request needs two connections |
| orders | `orders`, `order_items`, counter | create (with compensation), roll back, delete, address, ship stage, review | compensation in several steps, stale saves, unlocked counter |
| credits | balances and allocations | reserve, release, expire | double release, partial release, expiry |
| coupons | limits and uses | validate, count under the lock, update, remove | limit counted from orders that expire and can still be paid |
| promotions | settings | prices, progressive discount | rounding, settings changed during a checkout |
| returns | requests, items, credits | create, update, cancel, issue reverse shipment, resolve | resolve is not locked and has five effects; webhooks move a closed request |
| melhor-envio | labels, webhook events, token | quote, create / advance label, webhooks, completion of released labels | several paid steps, each of whose answers may be lost; events out of order |
| fraud | review flag | evaluate, clear | the flag is set after the payment is committed |
| products | catalogue, images and their files, pages | create, update, remove, gallery, bundle page, showcases | database and storage fail apart; choices outlive what was chosen |
| auth, users, account | the account of an address, codes, links, cookies | sign up, sign in, codes, reset, delete | stale saves of the user, tries counted without a lock |
| email | log of messages | quota per address | counted before it is written |
| admin, events, leads, hero, home-layout, health, config, scripts | their own tables | one or two queries each | little |

Interactions: the controllers call `PaymentsService` and `OrdersService`, both
call `InventoryService`; `ReturnsService` calls payments (partial refund), credits
and inventory; `MelhorEnvioService` writes orders and returns; Asaas and Melhor
Envio call back by webhook; the timer of `InventoryService` expires orders.

What makes each component correct: stock, movements, reservations and statuses
tell one story (inventory); every sum a customer paid belongs to an order that is
paid or owes a refund, and is refunded once (payments); one request of a key at a
time, and each gets its turn (persistence); credit neither lost nor made, limits
kept, the price of the cart paid (orders, credits, coupons, promotions); a return
paid back once and within what the order cost (returns); one label bought per
package, no delivery lost (melhor-envio); cookies that end with a reset, codes with
few tries (auth); images that exist, pages that are filled (products).
`PROJECT.json` (`hazards`) lists what threatens this, line by line.

## Modules

| module | models | checked by |
|---|---|---|
| `OrderLifecycle` | the abstract order: what the shop promises about goods and money | refinements below |
| `Inventory` | `InventoryService` for any set of orders, returns, products and variants | `MCInventory` |
| `InventoryOnTime` | `Inventory` when payments come while the reservation is live | `MCInventoryOnTime` |
| `Payments` | the payment of one order: requests, the row they share, the gateway | `MCPayments` |
| `AdvisoryLock` | `withLock`, the pool and the locks of PostgreSQL | `MCAdvisoryLock` |
| `Pricing` | the price of a cart and the progressive discount (operators only) | `MCCheckout` |
| `Credits` | balances and allocations; each operation a part of the caller's step | `MCCheckout` |
| `Checkout` | `createPending` with its compensation, what ends an order, coupons, counter; extends `Pricing` and `Credits` | `MCCheckout` |
| `Shipments` | labels of one order, webhooks, completions, the review | `MCShipments` |
| `Returns` | returns and exchanges of one order, reverse labels, resolution | `MCReturns` |
| `Accounts` | the account behind one address: auth, its messages, its deletion | `MCAccounts` |
| `Catalogue` | pieces, the gallery of one piece, the pages of the shop | `MCCatalogue` |
| `Sums` | `Total`, the fold that `Inventory`, `Returns`, `Pricing` and `Credits` add with | `MCInventory`, `MCReturns`, `MCCheckout` |
| `SumsProofs` | what `Total` gives for any finite set | TLAPS |
| `InventoryProofs` | theorems about `Inventory` and `InventoryOnTime` | TLAPS |
| `PaymentsProofs` | theorems about `Payments`: types, claims, units and refinement; the money | TLAPS |
| `CheckoutProofs` | theorems about `Checkout`, `Credits` and `Pricing`, and about `AdvisoryLock`, whose lock it takes | TLAPS |
| `ShipmentsProofs`, `AccountsProofs`, `ReturnsProofs`, `CatalogueProofs` | theorems about the module of that name | TLAPS |

How code becomes steps is the same everywhere: a transaction that locks what it
reads is one action; a handler without one is a task that goes from one `await`
that others can see (a query whose result is used later, a call to a gateway or to
the carrier, a hash) to the next, and keeps the copies it has read. Saving an
entity writes the copy back. Reads and saves with nothing in between that another
task could tell are one step; each module's header says which.

### Inventory and InventoryOnTime

Each operation of the service is one transaction that locks the order row first,
then products and colours in the order of their ids, so **one operation is one
action**. Its guard is the early returns and exceptions of the method: a call
that throws leaves the state as it was. `status`, `inventoryStatus`,
`paymentStatus`, `claimed` (`refund_requested_at` set) are columns of `orders`;
`reservation` is the common status of the reservation rows of an order and `live`
says that `expires_at` is still ahead; `stock` and `cell` are the two counters of
units; `sold`, `restocked`, `returned` are the idempotency keys present in
`inventory_movements` and `moved` the sum of its quantities.

A variant is the group key `product:colour:size`; lines of one order with the same
key are added up, as `groupInventoryLines` does. A legacy order was paid before
the movements existed: the migration made it `committed` without reservation or
movement rows, which is why restocking it gives units to `products.stock` only.

The environment is what the callers allow: `RestockCanceledOrder` only for a paid
order, `MarkRefunded` only with the claim or for a canceled order with a pending
refund, `RestockReturn` for any resellable subset of the lines of a return, as
often as it is retried. Interleavings *inside* the callers are in `Payments`.

### Payments

One order, up to `Workers` requests at a time. A step is one query, one
transaction of `Inventory`, or one HTTP call. The task keeps the entity it read
(`mine`), and `saveEntity` is `row' = mine`, which is what makes lost updates
visible. The gateway is external: charges are created, paid, deleted and refunded,
and an event stays in `events` until a handler answers 200, so webhooks are
delivered late, in any order and several times. Whether a commit finds the units is
left open here (both outcomes are tried); `Inventory` decides it.

`Kinds`, `Panel`, `Notified` and `Faults` choose what an instance contains: the
kinds of requests, what the manager does in the gateway's panel, the events sent,
and which failures occur (`post`, `refund`: the gateway acted but its answer is
lost; `mark`: `markRefunded` throws; `crash`: the process stops between two steps).

### AdvisoryLock

A request goes through `withLock`: a connection, the lock, `fn()` (whose queries
each take another connection), the unlock, the release. `owner` is what `pg_locks`
would show. Keys that collide under `hashtext` are one key of the model.

### Pricing, Credits, Checkout

`Pricing` is the arithmetic of `createPending` and `progressive-discount.ts`, in
cents; a sum the code does not round is carried as an exact fraction and rounded
where the code rounds. `RankDiscount` is an independent definition of the
progressive discount, by the rank of each unit instead of by sorting. `Credits`
has the two transactions (`ReserveBalance`, `Release`) and the unlocked expiry of
`validate()`. `Checkout` conjoins them with the steps of a checkout: count the
coupon, reserve credit, give the excess back, count again under
`withLock("coupon:...")`, draw the number, insert, reserve the stock, and every
step of the compensation when one of them fails; then expiry, payment,
cancellation, conflict, roll back and deletion. One request at a time works on one
order; several orders of one customer share credits, coupon and counter.

### Shipments

`createShipments` goes through cart, purchase, generation and print for each
package; a webhook updates the row and schedules `completeReleasedShipment`;
`syncOrderShipping` reads the order in one step and saves it in another. `carrier`
is what Melhor Envio holds, `sent` the events it repeats until answered, in any
order. Failures: an answer lost after the carrier acted, no balance, and no label.

### Returns

Customers create and cancel requests, managers change the status, issue the reverse
label (three calls) and resolve: gateway refund, credit given back, new credit,
restock, save, each a step that may be the last (`Interrupted`). `cash`,
`creditBack` and `voucher` are the money; `refunded` is a history of it per
request. Amounts are worked out as in the code, with its rounding.

### Accounts

One address, the accounts it has in turn, and the requests at work on it. A code
or link is a record in `secret`; `since`, `resets`, `tries` and `wins` are
histories. `Grow` is time, older secrets first. The quota of messages is read in one
step and the log written in another. Guesses are not counted by their chances: an
answer is right or wrong.

### Catalogue

Managers edit pieces (`update` saves the copy it read), choose pages and manage the
images of one piece, `Pictured`; each query of a handler is a step, in particular
those of `uploadImages` and `removeImage` between database and storage. `settled`
is a history that says no two requests overlapped.

## Schedules: what is assumed of interleavings

Where a handler reads, waits, and saves without a lock, `Spec` lets others write
in between. The safety of such modules is checked and proved
under a `CalmSpec` that removes **only** the steps in which a stale copy is written
back (or one more ordering of events, named below); tasks still interleave, act on
stale decisions, fail, and repeat each other. The code does not ensure these
conditions. The table says what is lost without them, as TLC shows under `Spec`:

| module | condition of `CalmSpec` | without it |
|---|---|---|
| `Payments` | `NoLostUpdate`: no save writes a column another task changed since the read | `UnitsMatchStatus`, `MoneyIsAccountedFor`: the webhook commits between read (payments.service.ts:381) and save (396) of the checkout, whose stale entity turns `paid` back to `pending` |
| `Shipments` | `OrderWritesApart`: nothing writes the order between the read and the save of `syncOrderShipping` | `DeliveredIsRecorded`: a stale save takes `delivered_at` away |
| `Returns` | `CopiesAreFresh`; `RequestsApart`: no two managers at work on one request; `EventsInTime`: no event of the parcel moves a closed request | `PaidBackOnce`, `RefundsFitTheOrder`, `ClaimsFitTheOrder` |
| `Accounts` | `SavesAreFresh`: saves of the user, and answers to one code, do not overlap | `SessionsFollowResets`, `TriesAreLimited`, `AliveWasMailed` (a stale answer makes a spent code usable again) |
| `Catalogue` | `SavesAreFresh`: what a request saves or has judged has not changed | `FilesBehindRows`, `BundleColumns`: an overlapping edit brings back what another removed or moved |

`Inventory`, `AdvisoryLock` and `Checkout` need no such condition: `Spec` is
checked as it is. Nor do `RowTellsTruth` and `OneLabelPaid` of `Shipments` and
`QuotaHolds` of `Accounts`, nor `PagesAreFilled` of `Catalogue`, which are proved
under `Spec`.

## What the runs show

| run | specification | result |
|---|---|---|
| `inventory` | `FairSpec` of `Inventory` | holds |
| `inventory_on_time` | `OnTimeSpec` | holds |
| `advisory_lock` | `FairLockSpec`, pool of 4 | holds |
| `payments` | `CalmSpec`, without the switch and deletions | holds |
| `payments_switch` | `CalmSpec`, switch, cancellation, deletion | holds |
| `card_switch` | `Spec` of `Payments` | `FailedMeansUnpaid` violated |
| `manual_refund` | `Spec` of `Payments` | `RefundsConclude` violated |
| `checkout` | `Spec` of `Checkout` | holds |
| `returns` | `CalmSpec` | holds |
| `shipments` | `FairSpec` of `Shipments` (with `CalmSpec`) | holds |
| `accounts` | `CalmSpec` | holds |
| `catalogue` | `CalmSpec` | holds |

**inventory.** The stock column, the movements, the reservations and the three
status columns agree in every reachable state, whatever the order of payments,
cancellations, returns, deadlines and deletions: `LedgerMatchesStock` (stock is the
sum of the movements although the units are taken unconditionally and the rows
inserted with `orIgnore`), `UnitsOutArePaid`, `DeadOrdersHoldNothing`,
`StatusesAgree`, `ColoursAddUp` (the divergence `scripts/inventory-report.ts` prints
only moves by legacy orders), `ImplementsLifecycle` (the rows live the life of
`OrderLifecycle`) and, under fairness, `ExpiredReservationsEnd`.

**inventory_on_time.** A live reservation is worth its units (`ReservationsAreCovered`,
`ReservedOrdersCommit`) if customers pay in time and the catalogue keeps the pools of
units apart (`SeparatePools`: every variant of a product has its cell, or the product
has one variant; the first finding below says what happens otherwise).

**advisory_lock.** Requests of a key exclude each other, and each ends, as long as
the pool has more connections than requests inside `withLock`.

**payments.** Every paid charge belongs to the order, which is paid or owes the
refund (`MoneyIsAccountedFor`); units are out exactly while the order is paid; at
most one task is refunding a conflict, and it holds the claim; the order lives one
life of `OrderLifecycle`.

**payments_switch.** One open or paid charge at a time, also when the switch is sent
twice or races with the customer's Pix; a quiet paid order has its money; "refunded"
is never said of money that stays; a canceled order keeps no credit.

**card_switch.** Asaas reports the deletion of the Pix that the switch asked for.
The webhook reads the order while it is pending, the card is charged and the order
committed, then the webhook saves its stale entity and cancels the order as failed:
the customer paid and has neither goods nor refund.

**manual_refund.** If the manager refunds in the panel first and cancels second, the
refund event finds a paid order, is acknowledged and ignored, and the order stays
`refund_pending`.

**checkout.** Wherever a checkout fails, and whatever orders of the customer expire,
are paid late, canceled, rolled back or deleted meanwhile, the credit off a balance is the
credit of living orders (`CreditFollowsOrder`, `CreditConserved`); `maxUses` bounds
the orders that are pending or paid, late payments aside (`CouponLimit`); the total
and the credit are what the cart cost (`PriceIsPaid`); the sorted progressive
discount is the one by rank (`ProgressiveByRank`).

**returns.** No piece is claimed by two living requests although the count and the
insert are apart (they are under a lock); a completed request paid what it records,
once, a cent per unit of the order aside, and restocked its resellable pieces; all
requests together give back no more than the order cost, half a cent of rounding per
unit aside; one reverse label per request is paid, although answers of the carrier are
lost and the manager tries again.

**shipments.** Every paid label is in the row of its package; rows never claim more
than the carrier did; a delivery that was heard of stays recorded whatever older
events come after it; a paid label is generated without a manager's help, even if
the answers to purchase and generation are lost, unless a stale save overtakes the
webhook (`Overtaken`).

**accounts.** A cookie that is accepted is from after the last reset; a code has its
tries and opens one session; a code whose message failed does not live on; the quota
of messages is exceeded by the requests under way besides one, and by no more.

**catalogue.** The file of a row exists, through uploads and removals that fail half
way; once requests are over, the piece shows its one primary image; a place of the
bundle page has one piece of a category; a page shows no piece twice, none that is
gone, and is empty only when the shop is.

### Bounds

- `MCInventory`: three orders of up to four units over two products, two cells and
  one variant without a cell, two returns (one of a legacy order). Every pair of
  orders competes for some variant, each has at least one competitor with several
  units, and every operation can precede and follow every other on the same order.
  Nothing in the code compares more than the order at hand with the sum of the others.
- `MCInventoryOnTime`: three buyers, two units at most of each variant, so a third
  buyer meets both an active reservation and a sale.
- `MCAdvisoryLock`: three requests, two of one key and one of another: the least
  with a waiter on a lock, a bystander, and a pool that can be exhausted by holders.
- `MCPayments`: three tasks and one charge (checkout makes one); `MCPaymentSwitch`:
  three charges (the first and two switches). Three tasks are a stale reader, a
  writer and a repetition. Tasks are interchangeable (`WorkerSymmetry`); the
  violated properties use two tasks and no symmetry.
- `MCCheckout`: a Pix and a card order of one customer, two credits of which one may
  expire, a coupon good for one order, two promotion settings. The Pix leaves less
  than the minimum charge after the credits, so that credit is trimmed; either order
  alone exhausts the coupon; the counter can collide.
- `MCReturns`: three units of one line, a return of all and an exchange of one (only
  one fits), two managers, two labels (one answer may be lost). The exchange may be
  interrupted half way, the return not, so that both clauses of `PaidBackOnce` are met.
- `MCShipments`: one manager (`OneManager`) and one handler of webhooks and
  completions, one package, two labels. Two managers at once are outside (a listed
  hazard, which costs `OneLabelPaid`, while `RowTellsTruth` is proved for any number).
- `MCAccounts`: two requests, two tries, a quota of one, two secrets, two accounts of
  the address in turn: the smallest in which a code is replaced, worn out and
  outlived by an account.
- `MCCatalogue`: two requests at a time, three in all, two pieces and one new id, two
  images, three uuids, and one fault of each kind but `sync` (see the hazards).

Deadlock is checked for `inventory`, `inventory_on_time` and `advisory_lock`. In the
others the system may have nothing left to do (the order is over, the bounds used
up), so their cfg has `CHECK_DEADLOCK FALSE`.

### Fairness

- `Inventory`: weak fairness of the passing of `expires_at` and of the sweep, which
  an interval timer calls every minute (`onModuleInit`) and whose errors are caught.
  No payment, cancellation or other request is assumed to come.
- `AdvisoryLock`: weak fairness of the steps a request takes by itself; strong
  fairness of the three it waits for, because pg-pool serves waiting `connect()`
  calls, and PostgreSQL lock requests, first come first served. `Start` is free.
- `Shipments`: weak fairness of the steps of a handler that has begun, of the handling
  of webhooks (the carrier repeats them until answered) and of the completions, which
  `setImmediate` schedules. Managers and parcels need not act.

## What is proved

For every value of the constants, by TLAPS. The sums of the code (`SUM` of SQL,
`reduce` of the services) are folds over finite sets. **Sums** (`SumsProofs`) proves what the
other proofs need of them: any element can be taken out first (`TotalRemove`), and
from it that equal functions have equal sums, that a larger set or larger summands
give a larger one, how a sum changes with one summand. The induction is over the size
of the set, by the least size for which the claim would fail.

**Inventory** (`InventoryProofs`), any orders, returns, products, variants,
quantities and initial stock: `TypeCorrect`, `LedgerHolds`, `UnitsOutArePaidHolds`,
`DeadOrdersHoldNothingHolds`, `StatusesAgreeHolds`, `DecisionsStandHolds` (no step
undoes a payment, a recorded refund or a conflict). None of these is inductive alone. The
ledger needs that an order about to be committed has no sale row yet (or the units
would go without a row), and a canceled one's units were put back under its key; that
in turn needs to know which statuses can have which keys. `RowInv` says this per
order, and `IInv` is `TypeOK`, `RowInv`, `DeadOrdersHoldNothing`, `StatusesAgree` and
`LedgerMatchesStock` together. `ImplementsLifecycleHolds`: from `IInv`, every action is
one step of the abstract order (`OrderLifecycle`) or changes nothing of it.

- `ColoursAddUpHolds` adds that legacy orders have no movement of sale, so that a unit
  given back for them, and only for them, goes to one counter of the two (`CInv`).
- `ReservationsAreCoveredHolds` and `ReservedOrdersCommitHolds` (`OnTimeSpec`): `Covered`
  says that the reservations of a pool fit the shelf, variant by variant. They need
  `SeparatePools`, which the code does not ensure for a product without colours
  (`products.service.ts:637-644` keeps one stock for all its sizes): the first finding.

**Payments** (`PaymentsProofs`), any number of requests and charges, any kinds,
panel, events and faults, under `CalmSpec`: `TypeCorrect`, `ClaimIsExclusiveHolds`,
`UnitsMatchStatusHolds`. Neither property is inductive. `Claims` adds that the row a
request is refunding is there, or was deleted, so that nobody claims it again;
`Units` adds that the lock of the order is held once, that the request which puts
units back keeps the order paid until it does, that what is about to be removed can
no longer be sold, and that units put back belong to a dead order. Most steps are
covered by one lemma (`RowCalm`, `TaskCalm`); a save of a copy is such a step because
`NoLostUpdate` makes the copy agree with the row. `PaymentsImplementLifecycle` adds
which payment statuses go with which status, and that an order once decided is not
open again (`LifeInv`). Each step is put in a normal form, a *turn* of the row, and
each turn is one step of the abstract order or none. Together with `Inventory`, both
detailed views of an order, the one by rows and the one by requests, keep one promise.

**The money** (also `PaymentsProofs`), under `CalmSpec`. `MoneyInv` is what all but the
first rest on: a row, and every copy of it, names only charges that were made, and says
"refunded" only of a charge that went back (`Honest`); the copy of a decided order has the
charge of the row (`Alike`); a checkout that links its charge is alone with it (`Linked`).

| theorem | adds to the invariant | asks |
|---|---|---|
| `CreditGivenBackHolds` | a canceled order with credit has a request about to give it back (`CreditOwed`) | no crash |
| `RefundedIsTrueHolds` | nothing | nothing |
| `PaidOrderHasItsMoneyHolds` | who commits knows of a charge that is paid; money is back only for a decided order (`PaidInv`) | no refund in the panel, no lost answer to a refund, no crash |
| `MoneyIsAccountedForHolds` | the webhook of a payment stays under way until the order knows; who cancels as failed has a dead charge or none (`AccountInv`) | no switch, no deletion of orders, an answer to every `POST /payments`, payments notified |
| `AtMostOneChargeHolds` | a pending order names its live charge unless it is being switched; a switch holds the lock and knows what is live (`SwitchInv`) | an answer to every `POST /payments`, no crash, no poll, no `PAYMENT_DELETED` |

What is asked is on the kinds, faults, events and panel of the instance, and holds in
the run of the property. Each item is needed: with any one of them dropped TLC finds
the property violated. For `AtMostOneCharge`, for instance, a stale save, or a crash
before the save, leaves the deleted Pix in the row, and the next switch deletes nothing
and makes a second charge. The code has no recovery for any of these.

**Shipments** (`ShipmentsProofs`), any packages, labels, workers and faults:
`TypeCorrect` and `RowTellsTruthHolds` under `Spec`, for any number of managers at once:
no row, no copy of a worker, no webhook and no scheduled completion says more of a label
than the carrier has done (`IInv`). `OneLabelPaidHolds` under `OneManager` (nothing in
`createShipments` locks the order): the labels of each worker's copy are those of the
rows (`LabelInv`). `DeliveredIsRecordedHolds` under `OneManager` and `OrderWritesApart`:
a delivery that was heard of is recorded, or a worker is about to (`RecordInv`).

**Returns** (`ReturnsProofs`), any order, lines, requests, managers and labels, under
`CalmSpec`: `TypeCorrect` (under `Spec`), `OneReverseLabelPaidHolds`,
`ClaimsFitTheOrderHolds`, `PaidBackOnceHolds`, `RefundsFitTheOrderHolds`. `Work`: a
manager's copy is the row, and each step comes with a status that allows it. `Claims`:
the one request that holds the lock of the order still fits. `Money`, for the last two:
what each resolution has paid at each step, and that the credit given back so far is at
most that of the requests resolved (`CreditCovered`), which is why the cap on the
credit never bites by more than the rounding. The two need `InterruptedExchanges` (a
resolution that stops between its payment and the save of the request can pay again:
a hazard), that the shipping is part of what was paid (`orders.service.ts:220-229`), and
that a request has an item (`@ArrayMinSize(1)`, `@Min(1)`). The amount of a request is
rounded per unit and its credit part once more; `LossIsSmall` bounds the difference by
a cent for each unit of the order. A smaller bound does not hold: an order of 42 cents,
41 of them by credit, of four units, returned in four requests.

**Accounts** (`AccountsProofs`), any finite set of requests and any limits:
`TypeCorrect` and `QuotaHoldsAlways` under `Spec` (the messages logged and the requests
that have counted and not logged yet are added up, by cardinality); under `CalmSpec`
`SessionsFollowResetsHolds` (`Versions`: a cookie, or a copy on its way to one, has the
`tokenVersion` of the account or an older one; `NewAccounts`: what a sign-up inserts is
nobody's yet), `TriesAreLimitedHolds` (`Tries`: the tries of a code that can be used are
in its row) and `AliveWasMailedHolds`.

**Checkout** (`CheckoutProofs`), any finite set of orders, any customers, credits,
coupons, carts and settings that a manager can save, under `Spec`: `TypeCorrect`,
`CreditConservedHolds`, `CreditFollowsOrderHolds`, `PriceIsPaidHolds`,
`CouponLimitHolds`, `ProgressiveByRankHolds`. `MoneyInv` is inductive: a credit's
balance and its allocations add up to what was granted (`CreditConserved`, for the
loops of reserve and release one credit at a time); what an order holds of the credits
is what its request, or its row, says at each step of `createPending`, of its
compensation and of the ends of an order (`Outstanding` and `Held`); an order not yet
inserted, or gone, holds nothing; total and credit of a row add up to the price it was
computed at (`Priced`, `Paying`). `CouponInv` is the other: at most one request is
between the second look at a coupon and the insert of its order, because the lock is
held from before the look until the insert, so the orders that count, paid late ones
aside, are at most `maxUses`. For `ProgressiveByRank`: the sort of
`progressive-discount.ts` and the order by rank agree place by place, since a list of a
given set that is sorted by price is unique up to units of one price; and a sum does not
depend on the names of its terms.

**Catalogue** (`CatalogueProofs`), any finite set of pieces at first, any pages, ids,
images and requests. Under `Spec`, stale saves included: `TypeCorrect` and
`PagesAreFilledHolds`, which needs no more than the types: a finite set of active pieces
has one list in the order of the catalogue; what a page keeps of a list has the same
pieces once each, in their order; the pieces of the kind and the others are all of them.
Under `CalmSpec`:

- `BundleColumnsHolds`. The property is inductive: a piece keeps its place unless its
  category, which says what else may be there, changes, and `update` takes it from the
  bundle then; a selection gives each piece its rank. That the pieces judged are still
  what they were when the ranks are written is `SavesAreFresh`.
- `FilesBehindRowsHolds`, if no `sync` fault happens. `Files` adds what each request still
  owes: the files of an upload (`Pending`) are there, belong to no row and to no other
  upload; the image whose removal has begun (`Marked`) has no row when its file goes.
- `GalleryFaceHolds`, under the same hypothesis. `Posed` says what the images and the
  address look like at each step of the one request there is: from the clearing of the
  primary mark to the new one, from the removal of the primary image to its replacement,
  from either to the new address.

The `sync` fault is excluded because with it both fail: the `catch` of `uploadImages`
removes the files of rows it has inserted (below, among what was noticed).

**AdvisoryLock** (`CheckoutProofs`), any finite set of requests, any keys and any
pool: `MutualExclusionHolds` (from `OwnersRun`: a request between lock and unlock is
the only owner of its key), `ConnectionsAccountedHolds` (by the cardinalities of the
sets of holders and of queries), `LockTypeCorrect`. Mutual exclusion does not depend on
the size of the pool, only progress does.

Assumptions on constants: their types (`TypeAssumption`, `PaymentsAssumption` and their
like), tables and sets of requests that are finite, what the DTOs and `createPending`
ensure of a return and its order (above) and of a cart (quantities, prices in cents,
percentages: `IsList`), pieces at first that are paired on the bundle page and edits that
send what the DTO accepts (`CatalogueAssumption`), settings that `promotions` has normalized (`PromotionSettings`), `"checkout" \in Kinds` for the refinement by
`Payments` (otherwise the order is there from the start), and the hypotheses that are
named in the theorems. TLC evaluates the assumptions on the constants of every run; the
cfg of the run, or an `ASSUME` of its MC module, shows that the hypotheses are met there.

Only model-checked: liveness (`ExpiredReservationsEnd`, `EveryRequestEnds`,
`PaidLabelIsGenerated`), which is out of the prover's reach. Every invariant and action
property of the passing runs is stated by a theorem.

## Findings

`PROJECT.json` (`findings`) quotes the lines. Shown by runs: `card_switch` and
`manual_refund`, above. Shown by changing an instance or a specification:

- two sizes of one product without colour cells, as all of `product.seed.ts` are, share
  `products.stock`, while reservations are counted per size: two orders reserve the
  last unit (`ReservationsAreCovered` with both in no cell);
- with as many requests inside `withLock` as the pool has connections, all wait for
  ever (`EveryRequestEnds` with `PoolSize = 3`);
- a late event of the reverse parcel opens a completed return again, which can then be
  paid a second time (`PaidBackOnce` under `Spec` of `Returns`);
- overlapping saves of a user undo the increase of `tokenVersion` by a password reset,
  and cookies from before it are accepted (`SessionsFollowResets` under `Spec`).

Noticed while modelling, and modelled as the code has them:

- a resolution that stops after its payment leaves the request open; a retry refunds
  again, or is refused for ever by the unique key of the credit;
- `uploadImages` removes the files of rows it has inserted when only the address of the
  piece fails to be saved (fault `sync`); `updateImage` never removes the file an
  address typed by hand replaces;
- an order that expires keeps its credit until it is canceled or deleted;
- a stale save of the counter (orders.service.ts:553) gives a number twice: the second
  insert fails, and the checkout is undone;
- the first of several packages delivered makes the whole order delivered;
- two `create` calls with one id overwrite each other, and `update` writes back the
  stock it read, whatever was sold since;
- two managers who advance one label before its id is stored buy two.

## Not modelled

- `updateAddress`, profiles and addresses of customers, notes, messages and their
  templates: texts that no other operation reads.
- Colours, sizes, measures and prices edited while orders are open: `Inventory` takes
  the cells of an order's variants as lasting.
- The OAuth token of Melhor Envio: whether a used refresh token is accepted is not
  known from the code. Quotes are pure input and output.
- A crash inside `cancelOrder` or the switch to card, a lost answer to
  `POST /payments` and `deleteOrder` of an order whose charge is open: the code has
  no recovery for them, so `MoneyIsAccountedFor` does not hold with them. The faults
  and the action exist in `Payments`; the hazards are listed. Likewise a webhook of
  the carrier that is marked as seen and fails to be applied.
- A deadlock of the sweep with a commit: PostgreSQL aborts one, which is a step that
  does not happen.
- Rounding of binary fractions: sums of money with two decimals are taken as exact.
- admin, events, leads, hero, home-layout, health, config, scripts: single queries,
  content or I/O; the gallery of `hero` is the same code as that of a piece.

## Plan

Done: all the modules above with their runs; proofs of every safety property the runs
check; two proved refinements of `OrderLifecycle`. Next, in order:

1. Edits of colours and sizes while orders are open, composed with `Inventory`.
2. `Returns` against an abstract request that is claimed, resolved once and paid once, as
   `OrderLifecycle` is for orders.
