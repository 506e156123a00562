------------------------------- MODULE Payments -------------------------------
(***************************************************************************)
(* The payment of one order: PaymentsService (src/src/payments/payments.   *)
(* service.ts) with the rows it shares with OrdersService and              *)
(* InventoryService, and the gateway (Asaas) with its charges and webhooks.*)
(*                                                                         *)
(* A request is a task of a worker: it runs from one await to the next, so *)
(* a step is one query, one transaction of Inventory or one HTTP call, and *)
(* the tasks interleave.  A task keeps the entity it read ("mine"); save() *)
(* of TypeORM writes every column in which that entity differs from the    *)
(* row, also those another task changed since, and inserts a deleted row   *)
(* again: row' = mine.                                                     *)
(*                                                                         *)
(* Whether the shelf still holds the units when a payment is committed is  *)
(* left open here (Inventory decides it); the order has one line.          *)
(***************************************************************************)
EXTENDS Integers, FiniteSets

CONSTANTS
    Workers,    \* requests handled at the same time
    Charges,    \* charges the gateway may create for the order
    None,       \* no charge
    Kinds,      \* the requests of this instance; without "checkout" the order
                \* is there already, with an open charge
    Panel,      \* what the manager does in the gateway's panel
    Notified,   \* the events the gateway is configured to send
    Faults      \* what may go wrong: subset of AllFaults

AllKinds == {"checkout", "webhook", "status", "switch", "cancel", "manual", "delete"}
AllFaults == {"post", "refund", "mark", "crash"}

ASSUME PaymentsAssumption ==
    /\ None \notin Charges
    /\ Charges # {}
    /\ Kinds \subseteq AllKinds
    /\ Panel \subseteq {"refund", "delete"}
    /\ Notified \subseteq {"PAID", "REFUNDED", "DELETED"}
    /\ Faults \subseteq AllFaults

VARIABLES
    row,        \* the row of the order
    task,       \* per worker, the request it is running
    unitsOut,   \* how often the units of the order were taken and not put back
    restocked,  \* the movement row order:ID:cancellation:item exists
    charge,     \* the gateway: state of each charge
    events      \* the gateway: webhooks not acknowledged with a 200 yet

inventoryVars == <<unitsOut, restocked>>
gatewayVars == <<charge, events>>
vars == <<row, task, inventoryVars, gatewayVars>>

Rows == [status  : {"absent", "pending", "paid", "canceled", "expired",
                    "stock_conflict", "deleted"},
         payment : {"pending", "confirmed", "refund_pending", "refunded", "failed"},
         gateway : {"none", "asaas", "store_credit"},
         charge  : Charges \cup {None},
         claimed : BOOLEAN,   \* refund_requested_at is set
         credit  : BOOLEAN]   \* store_credit_amount > 0

NoRow == [status |-> "absent", payment |-> "pending", gateway |-> "none",
          charge |-> None, claimed |-> FALSE, credit |-> FALSE]

Pcs == {"idle", "post", "free", "link", "save", "pay", "claim", "claimCredit",
        "claimCreditSave", "refund", "mark", "unclaim", "drop", "credit",
        "creditSave", "rollback", "remove", "poll", "delete", "repost", "relink",
        "hookRefunded", "refundPaid", "restock"}

\* What the gateway answered: the state of the charge it created or looked up,
\* or of the refund it accepted.
Outcomes == {"none", "open", "paid", "deleted", "refunding", "refunded"}

\* A webhook is a request of the kind of its event.
Events == {"PAID", "REFUNDED", "DELETED"}

Tasks == [kind    : AllKinds \cup Events \cup {"none"},
          pc      : Pcs,
          mine    : Rows,
          charge  : Charges \cup {None},
          outcome : Outcomes]

Idle == [kind |-> "none", pc |-> "idle", mine |-> NoRow, charge |-> None,
         outcome |-> "none"]

Exists == row.status \notin {"absent", "deleted"}

\* Mutant: a payment that comes after the conflict turns it into a sale.
UnpaidOrConflict(status) == status \in {"pending", "expired", "stock_conflict"}

Unpaid(status) == status \in {"pending", "expired"}

FirstCharge == CHOOSE c \in Charges : TRUE

TypeOK ==
    /\ row \in Rows
    /\ task \in [Workers -> Tasks]
    /\ unitsOut \in Int
    /\ restocked \in BOOLEAN
    /\ charge \in [Charges -> Outcomes]
    /\ events \subseteq Notified \X Charges

Init ==
    /\ IF "checkout" \in Kinds
       THEN row = NoRow
       ELSE \E credit \in BOOLEAN :
                row = [NoRow EXCEPT !.status = "pending", !.gateway = "asaas",
                                    !.charge = FirstCharge, !.credit = credit]
    /\ charge = [c \in Charges |-> IF c = row.charge THEN "open" ELSE "none"]
    /\ task = [w \in Workers |-> Idle]
    /\ unitsOut = 0
    /\ restocked = FALSE
    /\ events = {}

-----------------------------------------------------------------------------
(* Tasks *)

At(w, pc) == task[w].pc = pc

\* A request that ends, with or without an error, releases its lock.
Continue(t, pc) == IF pc = "idle" THEN Idle ELSE [t EXCEPT !.pc = pc]

Goto(w, pc) == task' = [task EXCEPT ![w] = Continue(@, pc)]

End(w) == Goto(w, "idle")

\* A webhook that ends well is acknowledged; one that throws is sent again.
EndWell(w) ==
    /\ End(w)
    /\ events' = events \ {<<task[w].kind, task[w].charge>>}
    /\ UNCHANGED charge

\* The requests that run inside withLock("order:ID").
Locking == {"switch", "cancel", "manual"}

\* Mutant: the requests that should exclude each other do not.
NoLock(kind) == kind \in AllKinds \cup Events

LockFree(kind) == kind \in Locking => \A w \in Workers : task[w].kind \notin Locking

\* The gateway sends the event e of charge c, if it is configured to.
Notify(e, c) == events \cup (IF e \in Notified THEN {<<e, c>>} ELSE {})

\* Whether an answer of the gateway or of the database reaches the task.
Heard(fault) == IF fault \in Faults THEN BOOLEAN ELSE {TRUE}

\* Begin a task that has read mine, about the charge c.
Begin(w, kind, pc, mine, c, outcome) ==
    /\ At(w, "idle")
    /\ LockFree(kind)
    /\ task' = [task EXCEPT ![w] = [kind |-> kind, pc |-> pc, mine |-> mine,
                                    charge |-> c, outcome |-> outcome]]

-----------------------------------------------------------------------------
(* POST /payments, in checkout and in the switch to card *)

\* The gateway creates a charge (paid at once with a card, waiting, or declined
\* with a 200), or refuses; an answer that is lost looks like a refusal.
PostCharge(w, done, failed) ==
    \/ /\ Goto(w, failed)
       /\ UNCHANGED gatewayVars
    \/ \E c \in Charges, s \in {"open", "paid", "deleted"}, heard \in Heard("post") :
        /\ charge[c] = "none"
        /\ charge' = [charge EXCEPT ![c] = s]
        /\ events' = IF s = "paid" THEN Notify("PAID", c) ELSE events
        /\ task' = [task EXCEPT ![w] =
                       IF heard THEN [@ EXCEPT !.pc = done, !.charge = c, !.outcome = s]
                       ELSE Continue(@, failed)]

\* POST /payments/ID/refund: accepted for a paid charge, at once or for later.
PostRefund(w, c, done, failed) ==
    \/ /\ Goto(w, failed)
       /\ UNCHANGED gatewayVars
    \/ \E s \in {"refunding", "refunded"}, heard \in Heard("refund") :
        /\ charge[c] = "paid"
        /\ charge' = [charge EXCEPT ![c] = s]
        /\ events' = IF s = "refunded" THEN Notify("REFUNDED", c) ELSE events
        /\ task' = [task EXCEPT ![w] =
                       IF heard THEN [@ EXCEPT !.pc = done, !.outcome = s]
                       ELSE Continue(@, failed)]

-----------------------------------------------------------------------------
(* Checkout *)

\* createPending: the row is inserted and its units reserved.  An order that the
\* customer's credit pays in full has no charge.
Checkout(w) ==
    /\ "checkout" \in Kinds
    /\ row.status = "absent"
    /\ \E credit, free \in BOOLEAN :
        /\ free => credit
        /\ row' = [NoRow EXCEPT !.status = "pending", !.credit = credit]
        /\ Begin(w, "checkout", IF free THEN "free" ELSE "post", NoRow, None, "none")
    /\ UNCHANGED <<inventoryVars, gatewayVars>>

Post(w) ==
    /\ At(w, "post")
    /\ PostCharge(w, "link", "rollback")
    /\ UNCHANGED <<row, inventoryVars>>

\* The order is read again, to be saved with its gateway and charge.
Link(w) ==
    /\ \/ At(w, "link") /\ Exists
          /\ task' = [task EXCEPT ![w].pc = "save",
                                  ![w].mine = [row EXCEPT !.gateway = "asaas",
                                                          !.charge = task[w].charge]]
       \/ At(w, "free") /\ Exists
          /\ task' = [task EXCEPT ![w].pc = "save", ![w].outcome = "paid",
                                  ![w].mine = [row EXCEPT !.gateway = "store_credit"]]
       \/ task[w].pc \in {"link", "free"} /\ ~Exists /\ End(w)
    /\ UNCHANGED <<row, inventoryVars, gatewayVars>>

\* saveEntity(mine), then what the outcome asks for.
Save(w) ==
    /\ At(w, "save")
    /\ row' = task[w].mine
    /\ CASE task[w].outcome = "paid" -> Goto(w, "pay")
         [] task[w].outcome = "deleted" -> Goto(w, "drop")
         [] OTHER -> End(w)
    /\ UNCHANGED <<inventoryVars, gatewayVars>>

\* rollbackPending: no charge is known, the order is canceled and deleted.
Rollback(w) ==
    /\ At(w, "rollback")
    /\ IF Unpaid(row.status)
       THEN /\ row' = [row EXCEPT !.status = "canceled", !.payment = "failed"]
            /\ Goto(w, "remove")
       ELSE /\ End(w)
            /\ UNCHANGED row
    /\ UNCHANGED <<inventoryVars, gatewayVars>>

Remove(w) ==
    /\ At(w, "remove")
    /\ row' = [NoRow EXCEPT !.status = "deleted"]
    /\ End(w)
    /\ UNCHANGED <<inventoryVars, gatewayVars>>

-----------------------------------------------------------------------------
(* markOrderPaid and refundStockConflict *)

\* commitOrder found the units (Inventory!CommitOrder), or not (ConflictOrder).
CommitOrder(w) ==
    /\ row' = [row EXCEPT !.status = "paid", !.payment = "confirmed",
                          !.charge = IF task[w].charge = None THEN @ ELSE task[w].charge]
    /\ unitsOut' = unitsOut + 1
    /\ EndWell(w)

\* Mutant: the conflict is recorded like a failed payment.
ConflictAsFailed(w) ==
    /\ row' = [row EXCEPT !.status = "stock_conflict", !.payment = "failed",
                          !.charge = IF task[w].charge = None THEN @ ELSE task[w].charge]
    /\ EndWell(w)
    /\ UNCHANGED unitsOut

ConflictOrder(w) ==
    /\ row' = [row EXCEPT !.status = "stock_conflict", !.payment = "refund_pending",
                          !.charge = IF task[w].charge = None THEN @ ELSE task[w].charge]
    /\ task' = [task EXCEPT ![w].pc = "claim", ![w].mine = row']
    /\ UNCHANGED <<unitsOut, gatewayVars>>

MarkOrderPaid(w) ==
    /\ At(w, "pay")
    /\ \/ /\ task[w].mine.status = "paid" \/ row.status = "paid"
          /\ EndWell(w)
          /\ UNCHANGED <<row, unitsOut>>
       \/ /\ task[w].mine.status # "paid"
          /\ Unpaid(row.status)
          /\ CommitOrder(w) \/ ConflictOrder(w)
       \/ /\ task[w].mine.status # "paid"
          /\ row.status \in {"canceled", "stock_conflict"}
          /\ task' = [task EXCEPT ![w].pc = "claim", ![w].mine = row]
          /\ UNCHANGED <<row, unitsOut, gatewayVars>>
       \/ /\ task[w].mine.status # "paid"
          /\ ~Exists
          /\ End(w)
          /\ UNCHANGED <<row, unitsOut, gatewayVars>>
    /\ UNCHANGED restocked

\* Mutant: the claim does not look at refund_requested_at.
ClaimableAgain == row.status = "stock_conflict" /\ row.payment = "refund_pending"

Claimable ==
    row.status = "stock_conflict" /\ row.payment = "refund_pending" /\ ~row.claimed

ClaimStockConflictRefund(w) ==
    /\ At(w, "claim")
    /\ IF task[w].mine.payment # "refunded" /\ Claimable
       THEN /\ row' = [row EXCEPT !.claimed = TRUE]
            /\ Goto(w, IF task[w].mine.credit THEN "claimCredit" ELSE "refund")
            /\ UNCHANGED gatewayVars
       ELSE /\ EndWell(w)
            /\ UNCHANGED row
    /\ UNCHANGED inventoryVars

\* Mutant: a refund the gateway refused counts as made.
RefundAssumed(w) ==
    /\ At(w, "refund")
    /\ PostRefund(w, task[w].mine.charge, "mark", "mark")
    /\ UNCHANGED <<row, inventoryVars>>

\* The refund of the conflict: nothing to send back, no charge known, or a POST.
RefundStockConflict(w) ==
    /\ At(w, "refund")
    /\ CASE task[w].mine.gateway = "store_credit" ->
              Goto(w, "mark") /\ UNCHANGED gatewayVars
         [] task[w].mine.gateway = "asaas" /\ task[w].mine.charge # None ->
              PostRefund(w, task[w].mine.charge, "mark", "unclaim")
         [] OTHER ->
              Goto(w, "unclaim") /\ UNCHANGED gatewayVars
    /\ UNCHANGED <<row, inventoryVars>>

\* markRefunded; when it throws, the catch releases the claim.
MarkConflictRefunded(w) ==
    /\ At(w, "mark")
    /\ \E heard \in Heard("mark") :
        IF heard
        THEN /\ row' = IF Exists THEN [row EXCEPT !.payment = "refunded"] ELSE row
             /\ EndWell(w)
        ELSE /\ Goto(w, "unclaim")
             /\ UNCHANGED <<row, gatewayVars>>
    /\ UNCHANGED inventoryVars

ReleaseClaim(w) ==
    /\ At(w, "unclaim")
    /\ row' = IF row.payment = "refund_pending" THEN [row EXCEPT !.claimed = FALSE] ELSE row
    /\ EndWell(w)
    /\ UNCHANGED inventoryVars

-----------------------------------------------------------------------------
(* releaseStoreCredit and cancelPendingOrder *)

\* releaseStoreCredit reads the row, ...
ReadCredit(w, from, to, after) ==
    /\ At(w, from)
    /\ IF Exists /\ row.credit
       THEN /\ task' = [task EXCEPT ![w].pc = to, ![w].mine = row]
            /\ UNCHANGED gatewayVars
       ELSE IF after = "idle"
            THEN EndWell(w)
            ELSE Goto(w, after) /\ UNCHANGED gatewayVars
    /\ UNCHANGED <<row, inventoryVars>>

\* ... gives the credit back to its allocations, and saves what it had read.
SaveCredit(w, from, after) ==
    /\ At(w, from)
    /\ row' = [task[w].mine EXCEPT !.credit = FALSE]
    /\ IF after = "idle"
       THEN EndWell(w)
       ELSE Goto(w, after) /\ UNCHANGED gatewayVars
    /\ UNCHANGED inventoryVars

ReleaseStoreCredit(w) ==
    \/ ReadCredit(w, "claimCredit", "claimCreditSave", "refund")
    \/ SaveCredit(w, "claimCreditSave", "refund")
    \/ ReadCredit(w, "credit", "creditSave", "idle")
    \/ SaveCredit(w, "creditSave", "idle")

\* cancelPendingOrder throws for an order that is paid, in conflict or deleted.
CancelPendingOrder(w) ==
    /\ At(w, "drop")
    /\ IF Exists /\ row.status \notin {"paid", "stock_conflict"}
       THEN /\ row' = IF row.status = "canceled" THEN row
                      ELSE [row EXCEPT !.status = "canceled", !.payment = "failed"]
            /\ Goto(w, "credit")
       ELSE /\ End(w)
            /\ UNCHANGED row
    /\ UNCHANGED <<inventoryVars, gatewayVars>>

-----------------------------------------------------------------------------
(* The webhook and the poll of the status *)

\* An event about another charge than the one of the order is acknowledged and
\* ignored; so is one that asks for nothing in the state the order was read in.
IgnoreWebhook(w) ==
    \E e \in Events, c \in Charges :
        /\ "webhook" \in Kinds
        /\ <<e, c>> \in events
        /\ At(w, "idle")
        /\ Exists
        /\ \/ row.charge \notin {None, c}
           \/ e = "REFUNDED" /\ ~(row.status = "canceled" /\ row.payment = "refund_pending")
           \/ e = "DELETED" /\ ~Unpaid(row.status)
        /\ events' = events \ {<<e, c>>}
        /\ UNCHANGED <<row, task, inventoryVars, charge>>

Webhook(w) ==
    \E e \in Events, c \in Charges :
        /\ "webhook" \in Kinds
        /\ <<e, c>> \in events
        /\ row.charge \in {None, c}
        /\ Exists
        /\ \/ e = "PAID" /\ Begin(w, e, "pay", row, c, "none")
           \/ /\ e = "REFUNDED" /\ row.status = "canceled" /\ row.payment = "refund_pending"
              /\ Begin(w, e, "hookRefunded", row, c, "none")
           \/ /\ e = "DELETED" /\ Unpaid(row.status)
              /\ Begin(w, e, "save", [row EXCEPT !.charge = c], c, "deleted")
        /\ UNCHANGED <<row, inventoryVars, gatewayVars>>

MarkRefunded(w) ==
    /\ At(w, "hookRefunded")
    /\ row' = IF Exists THEN [row EXCEPT !.payment = "refunded"] ELSE row
    /\ EndWell(w)
    /\ UNCHANGED inventoryVars

Status(w) ==
    /\ "status" \in Kinds
    /\ Unpaid(row.status)
    /\ row.charge # None
    /\ Begin(w, "status", "poll", row, row.charge, "none")
    /\ UNCHANGED <<row, inventoryVars, gatewayVars>>

\* GET /payments/ID
Poll(w) ==
    LET found == charge[task[w].charge]
    IN  /\ At(w, "poll")
        /\ CASE found = "paid" -> Goto(w, "pay")
             [] found \in {"deleted", "refunding", "refunded"} ->
                  task' = [task EXCEPT ![w].pc = "save", ![w].outcome = "deleted"]
             [] OTHER -> End(w)
        /\ UNCHANGED <<row, inventoryVars, gatewayVars>>

-----------------------------------------------------------------------------
(* The switch of a pending order to card *)

Switch(w) ==
    /\ "switch" \in Kinds
    /\ row.status = "pending"
    /\ row.gateway = "asaas"
    /\ row.charge # None
    /\ Begin(w, "switch", "delete", row, row.charge, "none")
    /\ UNCHANGED <<row, inventoryVars, gatewayVars>>

\* DELETE /payments/ID: an open charge goes, a deleted one is a 404, which is as
\* good; a paid one cannot be deleted, and the request fails.
DeleteCharge(w) ==
    /\ At(w, "delete")
    /\ CASE charge[task[w].charge] = "open" ->
              /\ charge' = [charge EXCEPT ![task[w].charge] = "deleted"]
              /\ events' = Notify("DELETED", task[w].charge)
              /\ Goto(w, "repost")
         [] charge[task[w].charge] = "deleted" ->
              Goto(w, "repost") /\ UNCHANGED gatewayVars
         [] OTHER ->
              End(w) /\ UNCHANGED gatewayVars
    /\ UNCHANGED <<row, inventoryVars>>

\* The new charge, and what is done with the entity read at the beginning.
Repost(w) ==
    /\ At(w, "repost")
    /\ PostCharge(w, "relink", "idle")
    /\ UNCHANGED <<row, inventoryVars>>

\* A charge that is paid is committed; the entity is saved only otherwise.
Relink(w) ==
    /\ At(w, "relink")
    /\ IF task[w].outcome = "paid"
       THEN Goto(w, "pay") /\ UNCHANGED row
       ELSE End(w) /\ row' = [task[w].mine EXCEPT !.charge = task[w].charge]
    /\ UNCHANGED <<inventoryVars, gatewayVars>>

-----------------------------------------------------------------------------
(* cancelOrder, with or without a refund made by hand, and deleteOrder *)

Cancel(w, kind) ==
    /\ kind \in Kinds
    /\ row.status = "paid"
    /\ \/ /\ row.gateway = "store_credit"
          /\ Begin(w, kind, "restock", row, row.charge, "refunded")
       \/ /\ row.gateway # "store_credit"
          /\ kind = "manual"
          /\ Begin(w, kind, "restock", row, row.charge, "refunding")
       \/ /\ row.gateway = "asaas"
          /\ row.charge # None
          /\ kind = "cancel"
          /\ Begin(w, kind, "refundPaid", row, row.charge, "none")
    /\ UNCHANGED <<row, inventoryVars, gatewayVars>>

RefundPaid(w) ==
    /\ At(w, "refundPaid")
    /\ PostRefund(w, task[w].mine.charge, "restock", "idle")
    /\ UNCHANGED <<row, inventoryVars>>

\* Mutants: a refund that is pending leaves the order paid; the credit is kept;
\* the units are not put back.
CancelOnceRefunded(w) ==
    /\ At(w, "restock")
    /\ IF task[w].outcome = "refunded"
       THEN /\ row' = [row EXCEPT !.status = "canceled", !.payment = "refunded"]
            /\ unitsOut' = unitsOut - 1
            /\ restocked' = TRUE
       ELSE UNCHANGED <<row, inventoryVars>>
    /\ Goto(w, "credit")
    /\ UNCHANGED gatewayVars

CancelKeepingCredit(w) ==
    /\ At(w, "restock")
    /\ row' = [row EXCEPT !.status = "canceled", !.payment = "refund_pending"]
    /\ unitsOut' = unitsOut - 1
    /\ restocked' = TRUE
    /\ End(w)
    /\ UNCHANGED gatewayVars

CancelWithoutUnits(w) ==
    /\ At(w, "restock")
    /\ row' = [row EXCEPT !.status = "canceled", !.payment = "refund_pending"]
    /\ Goto(w, "credit")
    /\ UNCHANGED <<inventoryVars, gatewayVars>>

\* restockCanceledOrder does not look at the status; its key counts once.
RestockCanceledOrder(w) ==
    /\ At(w, "restock")
    /\ IF Exists
       THEN /\ row' = [row EXCEPT !.status = "canceled",
                                  !.payment = IF task[w].outcome = "refunded"
                                              THEN "refunded" ELSE "refund_pending"]
            /\ unitsOut' = IF restocked THEN unitsOut ELSE unitsOut - 1
            /\ restocked' = TRUE
            /\ Goto(w, "credit")
       ELSE /\ End(w)
            /\ UNCHANGED <<row, inventoryVars>>
    /\ UNCHANGED gatewayVars

DeleteOrder(w) ==
    /\ "delete" \in Kinds
    /\ Exists
    /\ row.status # "paid"
    /\ row.status = "stock_conflict" => row.payment = "refunded"
    /\ row' = IF Unpaid(row.status)
              THEN [row EXCEPT !.status = "canceled", !.payment = "failed"] ELSE row
    /\ Begin(w, "delete", "remove", row, row.charge, "none")
    /\ UNCHANGED <<inventoryVars, gatewayVars>>

-----------------------------------------------------------------------------
(* The environment: the sweep of Inventory, the customer, the gateway *)

ExpireOrder ==
    /\ row.status = "pending"
    /\ row' = [row EXCEPT !.status = "expired"]
    /\ UNCHANGED <<task, inventoryVars, gatewayVars>>

GatewayStep(c, from, to, event) ==
    /\ charge[c] = from
    /\ charge' = [charge EXCEPT ![c] = to]
    /\ events' = Notify(event, c)
    /\ UNCHANGED <<row, task, inventoryVars>>

CustomerPays(c) == GatewayStep(c, "open", "paid", "PAID")

RefundSettles(c) == GatewayStep(c, "refunding", "refunded", "REFUNDED")

PanelRefund(c) == "refund" \in Panel /\ GatewayStep(c, "paid", "refunded", "REFUNDED")

PanelDelete(c) == "delete" \in Panel /\ GatewayStep(c, "open", "deleted", "DELETED")

\* The process stops: the requests are gone, what they wrote is there.
Crash ==
    /\ "crash" \in Faults
    /\ task' = [w \in Workers |-> Idle]
    /\ UNCHANGED <<row, inventoryVars, gatewayVars>>

-----------------------------------------------------------------------------
Next ==
    \/ \E w \in Workers :
        \/ Checkout(w) \/ Post(w) \/ Link(w) \/ Save(w) \/ Rollback(w) \/ Remove(w)
        \/ MarkOrderPaid(w) \/ ClaimStockConflictRefund(w) \/ RefundStockConflict(w)
        \/ MarkConflictRefunded(w) \/ ReleaseClaim(w)
        \/ ReleaseStoreCredit(w) \/ CancelPendingOrder(w)
        \/ IgnoreWebhook(w) \/ Webhook(w) \/ MarkRefunded(w) \/ Status(w) \/ Poll(w)
        \/ Switch(w) \/ DeleteCharge(w) \/ Repost(w) \/ Relink(w)
        \/ \E kind \in {"cancel", "manual"} : Cancel(w, kind)
        \/ RefundPaid(w) \/ RestockCanceledOrder(w) \/ DeleteOrder(w)
    \/ \E c \in Charges :
        \/ CustomerPays(c) \/ RefundSettles(c) \/ PanelRefund(c) \/ PanelDelete(c)
    \/ ExpireOrder
    \/ Crash

Spec == Init /\ [][Next]_vars

\* The schedules without a lost update: no save() writes back a column that
\* another task changed after the entity was read (the gateway and the charge are
\* what these saves are for).
NoLostUpdate ==
    \A w \in Workers :
        /\ task[w].pc \in {"save", "claimCreditSave", "creditSave", "relink"}
        /\ row' # row
        /\ task'[w] # task[w]
        => row = [task[w].mine EXCEPT !.charge = row.charge, !.gateway = row.gateway]

CalmSpec == Init /\ [][Next /\ NoLostUpdate]_vars

-----------------------------------------------------------------------------
(* Safety *)

\* Nothing is on its way: what the row says now is what stays.
Quiet == events = {} /\ \A w \in Workers : At(w, "idle")

\* The money of a customer never stays in a charge that no order accounts for: a
\* charge that is paid is the one of the order, and the order is paid, or its
\* money is on the list of refunds to make.
MoneyIsAccountedFor ==
    Quiet =>
        \A c \in Charges :
            charge[c] = "paid" =>
                /\ row.charge = c
                /\ \/ row.status = "paid"
                   \/ /\ row.status \in {"canceled", "stock_conflict"}
                      /\ row.payment = "refund_pending"

\* An order canceled as never paid has taken no money: the deletion of a charge
\* never cancels an order that another charge pays.
FailedMeansUnpaid ==
    Quiet /\ row.payment = "failed" => \A c \in Charges : charge[c] # "paid"

\* The units of the order are off the shelf exactly while it is paid: no two
\* requests take them twice, or put them back twice.
UnitsMatchStatus == unitsOut = IF row.status = "paid" THEN 1 ELSE 0

\* Only money that left the gateway is reported as refunded.
RefundedIsTrue ==
    row.payment = "refunded" /\ row.gateway = "asaas" =>
        charge[row.charge] \in {"refunding", "refunded"}

\* At most one request is refunding the conflict of the order, and it holds the
\* claim until the refund is recorded or given up.
ClaimIsExclusive ==
    \A v, w \in Workers :
        LET refunding(u) ==
                task[u].pc \in {"claimCredit", "claimCreditSave", "refund", "mark", "unclaim"}
        IN  /\ refunding(v) /\ refunding(w) => v = w
            /\ refunding(v) /\ Exists => row.claimed

\* The customer has one charge to pay or paid: the switch to card, tried twice or
\* while the Pix is being paid, never leaves a second one behind.
AtMostOneCharge == Cardinality({c \in Charges : charge[c] \in {"open", "paid"}}) <= 1

\* A paid order has the money: no request refunds it and leaves the order paid.
PaidOrderHasItsMoney ==
    Quiet /\ row.status = "paid" /\ row.gateway = "asaas" => charge[row.charge] = "paid"

\* A dead order keeps no credit of the customer.
CreditGivenBack ==
    Quiet /\ row.status = "canceled" => ~row.credit

\* A refund the gateway made and told of is recorded in the canceled order.
RefundsConclude ==
    Quiet /\ row.status = "canceled" /\ row.payment = "refund_pending" =>
        row.charge # None /\ charge[row.charge] # "refunded"

(* The abstract order, read off the row *)

StageOf == [absent |-> "none", pending |-> "open", expired |-> "lapsed", paid |-> "sold",
            stock_conflict |-> "refused", canceled |-> "dead", deleted |-> "gone"]

MoneyOf == [pending |-> "none", confirmed |-> "kept", refund_pending |-> "owed",
            refunded |-> "returned", failed |-> "none"]

theStage == [o \in {1} |-> StageOf[row.status]]
theGoods == [o \in {1} |-> IF unitsOut = 0 THEN "shelf" ELSE IF unitsOut = 1 THEN "out" ELSE "lost"]
theMoney == [o \in {1} |-> IF Exists THEN MoneyOf[row.payment] ELSE "none"]

TheOrder == INSTANCE OrderLifecycle WITH
    Orders <- {1},
    PaidBefore <- {},
    stage <- theStage,
    goods <- theGoods,
    money <- theMoney

\* Whatever requests interleave, the row of the order and its units go through
\* the life of one order: a payment that was decided stays decided, a paid order
\* is only undone with its units put back, a refund is not forgotten.
ImplementsLifecycle == TheOrder!Lifecycle

=============================================================================
