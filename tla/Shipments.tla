------------------------------- MODULE Shipments -------------------------------
(***************************************************************************)
(* The labels of one paid order: createShipments, the webhooks and the     *)
(* completion of released labels of MelhorEnvioService (src/src/           *)
(* integrations/melhor-envio/melhor-envio.service.ts), with the review of  *)
(* FraudService and the operations of OrdersService on the same row.       *)
(*                                                                         *)
(* A worker goes from one call to the carrier to the next, carrying a copy *)
(* of the row of order_shipments, which each save writes back whole.  Reads *)
(* and saves of one row with no call to the carrier between are one step,  *)
(* the order of syncOrderShipping aside.  Tokens, addresses, packages'     *)
(* contents and prices are left out.                                       *)
(***************************************************************************)
EXTENDS Integers, FiniteSets

CONSTANTS
    Workers,    \* what runs at a time: requests of managers, webhooks, completions
    Managers,   \* the workers that run createShipments
    NPackages,  \* the packages of the order
    Labels,     \* a bound: the labels the carrier may hand out
    None,
    ByHand,     \* a bound: the stages a manager sets by hand
    Faults      \* "lost": an answer of the carrier is lost; "balance": it sells no label;
                \* "generate": it generates and prints none

ASSUME ShipmentsAssumption ==
    /\ NPackages \in Nat \ {0}
    /\ Managers \subseteq Workers
    /\ None \notin Labels \cup Workers
    /\ Faults \subseteq {"lost", "balance", "generate"}
    /\ ByHand \subseteq 1 .. 5

VARIABLES
    order,     \* the row of orders: status, review_status, ship_stage, delivered_at
    shipment,  \* the rows of order_shipments, by package_index
    carrier,   \* what the carrier holds of each label
    sent,      \* the webhooks the carrier sends until they are answered
    seen,      \* the rows of melhor_envio_webhook_events
    released,  \* completeReleasedShipment, scheduled by setImmediate
    job        \* what each worker is doing

providerVars == <<carrier, sent>>
webhookVars == <<seen, released>>
vars == <<order, shipment, providerVars, webhookVars, job>>

Packages == 1 .. NPackages

\* The states of a label, in order; a label in the cart is not paid for.
Ranks == [none |-> 0, cart |-> 1, released |-> 2, generated |-> 3, posted |-> 4, delivered |-> 5]
Rank(state) == Ranks[state]

Statuses == DOMAIN Ranks \cup {"draft", "purchasing"}

NoShipment == [label |-> None, status |-> "none", paid |-> FALSE, generated |-> FALSE,
               printed |-> FALSE]
Draft == [NoShipment EXCEPT !.status = "draft"]

\* copy: the rows of order_shipments as the worker has them; read: the row of orders
\* that syncOrderShipping read; then: where it returns to.
NewOrder == [status |-> "paid", review |-> "none", stage |-> 1, delivered |-> FALSE]
Idle == [pc |-> "idle", package |-> 1, copy |-> [p \in Packages |-> NoShipment],
         event |-> "none", read |-> NewOrder, then |-> "idle"]

Pcs == {"idle", "draft", "cart", "buy", "bought", "unbought", "generate", "generated",
        "sync", "syncSave", "print"}

TypeOK ==
    /\ order.status \in {"paid", "canceled"}
    /\ order.review \in {"none", "pending", "cleared"}
    /\ order.stage \in 1 .. 5
    /\ \A p \in Packages : shipment[p].status \in Statuses
                           /\ shipment[p].label \in Labels \cup {None}
    /\ carrier \in [Labels -> DOMAIN Ranks]
    /\ seen \subseteq sent
    /\ sent \subseteq Labels \X DOMAIN Ranks
    /\ released \subseteq Labels
    /\ \A w \in Workers : job[w].pc \in Pcs

Init ==
    /\ order = NewOrder
    /\ shipment = [p \in Packages |-> NoShipment]
    /\ carrier = [l \in Labels |-> "none"]
    /\ sent = {}
    /\ seen = {}
    /\ released = {}
    /\ job = [w \in Workers |-> Idle]

-----------------------------------------------------------------------------
(* Workers *)

At(w, pc) == job[w].pc = pc

Goto(w, pc) == job' = [job EXCEPT ![w].pc = pc]

End(w) == job' = [job EXCEPT ![w] = Idle]

Row(w) == job[w].copy[job[w].package]

\* A manager's request goes on with the next package.
NextPackage(w) ==
    IF w \in Managers /\ job[w].package < NPackages
    THEN job' = [job EXCEPT ![w].pc = "draft", ![w].package = @ + 1]
    ELSE End(w)

WriteRow(w, row) == shipment' = [shipment EXCEPT ![job[w].package] = row]

\* Saves the whole row and goes on with it.
SaveRow(w, row, pc) ==
    /\ WriteRow(w, row)
    /\ job' = [job EXCEPT ![w].copy[job[w].package] = row, ![w].pc = pc]

\* The carrier moves the label l and tells of it.
Moves(l, state) ==
    /\ carrier' = [carrier EXCEPT ![l] = state]
    /\ sent' = IF state = "cart" THEN sent ELSE sent \cup {<<l, state>>}

-----------------------------------------------------------------------------
(* createShipments *)

Shippable == order.status = "paid" /\ order.review # "pending"

CreateShipments(w) ==
    /\ w \in Managers
    /\ At(w, "idle")
    /\ Shippable
    /\ job' = [job EXCEPT ![w] = [Idle EXCEPT !.pc = "draft", !.copy = shipment]]
    /\ UNCHANGED <<order, shipment, providerVars, webhookVars>>

\* A package without a row gets one; (order_id, package_index) is unique.
SaveDraft(w) ==
    /\ At(w, "draft")
    /\ CASE Row(w) # NoShipment -> Goto(w, "cart") /\ UNCHANGED shipment
         [] Row(w) = NoShipment /\ shipment[job[w].package] = NoShipment ->
                SaveRow(w, Draft, "cart")
         [] OTHER -> End(w) /\ UNCHANGED shipment
    /\ UNCHANGED <<order, providerVars, webhookVars>>

HasLabel(w) ==
    /\ At(w, "cart")
    /\ Row(w).label # None
    /\ Goto(w, "buy")
    /\ UNCHANGED <<order, shipment, providerVars, webhookVars>>

\* Mutant: the label is kept in memory only.
KeepLabel(w, l) ==
    /\ job' = [job EXCEPT ![w].copy[job[w].package].label = l, ![w].pc = "buy"]
    /\ UNCHANGED shipment

SaveLabel(w, l) == SaveRow(w, [Row(w) EXCEPT !.label = l, !.status = "cart"], "buy")

PutInCart(w) ==
    /\ At(w, "cart")
    /\ Row(w).label = None
    /\ \/ \E l \in Labels :
            /\ carrier[l] = "none"
            /\ Moves(l, "cart")
            /\ \/ SaveLabel(w, l)
               \/ "lost" \in Faults /\ End(w) /\ UNCHANGED shipment
       \/ "balance" \in Faults /\ End(w) /\ UNCHANGED <<shipment, providerVars>>
    /\ UNCHANGED <<order, webhookVars>>

Buy(w) ==
    LET row == Row(w)
    IN  /\ At(w, "buy")
        /\ \/ /\ row.status \in {"generated", "posted", "delivered"}
              /\ NextPackage(w)
              /\ UNCHANGED providerVars
           \/ /\ row.status \notin {"generated", "posted", "delivered"}
              /\ row.paid
              /\ Goto(w, "generate")
              /\ UNCHANGED providerVars
           \/ /\ row.status \notin {"generated", "posted", "delivered"}
              /\ ~row.paid
              /\ \/ /\ carrier[row.label] = "cart"
                    /\ Moves(row.label, "released")
                    /\ Goto(w, "bought") \/ ("lost" \in Faults /\ Goto(w, "unbought"))
                 \/ /\ "balance" \in Faults \/ carrier[row.label] # "cart"
                    /\ Goto(w, "unbought")
                    /\ UNCHANGED providerVars
        /\ UNCHANGED <<order, shipment, webhookVars>>

SaveBought(w) ==
    /\ At(w, "bought")
    /\ SaveRow(w, [Row(w) EXCEPT !.status = "released", !.paid = TRUE], "generate")
    /\ UNCHANGED <<order, providerVars, webhookVars>>

\* Mutant: an answer that was lost is taken for a purchase.
AssumeBought(w) ==
    /\ At(w, "unbought")
    /\ WriteRow(w, [Row(w) EXCEPT !.status = "released", !.paid = TRUE])
    /\ NextPackage(w)
    /\ UNCHANGED <<order, providerVars, webhookVars>>

SaveUnbought(w) ==
    /\ At(w, "unbought")
    /\ WriteRow(w, [Row(w) EXCEPT !.status = "purchasing"])
    /\ NextPackage(w)
    /\ UNCHANGED <<order, providerVars, webhookVars>>

-----------------------------------------------------------------------------
(* generateAndPrint *)

SaveFailed(w) ==
    /\ WriteRow(w, Row(w))
    /\ NextPackage(w)

\* A label generated before is generated again.
Generate(w) ==
    LET row == Row(w)
    IN  /\ At(w, "generate")
        /\ \/ row.generated /\ Goto(w, "print") /\ UNCHANGED <<shipment, providerVars>>
           \/ /\ ~row.generated
              /\ \/ /\ Rank(carrier[row.label]) >= Rank("released")
                    /\ IF carrier[row.label] = "released"
                       THEN Moves(row.label, "generated")
                       ELSE UNCHANGED providerVars
                    /\ \/ Goto(w, "generated") /\ UNCHANGED shipment
                       \/ "lost" \in Faults /\ SaveFailed(w)
                 \/ "generate" \in Faults /\ SaveFailed(w) /\ UNCHANGED providerVars
        /\ UNCHANGED <<order, webhookVars>>

SaveGenerated(w) ==
    /\ At(w, "generated")
    /\ LET row == [Row(w) EXCEPT !.status = "generated", !.generated = TRUE]
       IN  /\ WriteRow(w, row)
           /\ job' = [job EXCEPT ![w].copy[job[w].package] = row, ![w].pc = "sync",
                                 ![w].event = "generated", ![w].then = "print"]
    /\ UNCHANGED <<order, providerVars, webhookVars>>

PrintLabel(w) ==
    /\ At(w, "print")
    /\ \/ WriteRow(w, [Row(w) EXCEPT !.printed = TRUE])
       \/ Faults # {} /\ WriteRow(w, Row(w))
    /\ NextPackage(w)
    /\ UNCHANGED <<order, providerVars, webhookVars>>

-----------------------------------------------------------------------------
(* Webhooks *)

RowOf(l) == {p \in Packages : shipment[p].label = l}

\* The event is marked as seen and written into the row of its label.
Apply(row, event) ==
    [row EXCEPT !.status = event,
                !.paid = TRUE,
                !.generated = @ \/ Rank(event) >= Rank("generated")]

HandleWebhook(w, e) ==
    /\ w \notin Managers
    /\ At(w, "idle")
    /\ e \in sent \ seen
    /\ seen' = seen \cup {e}
    /\ IF RowOf(e[1]) = {}
       THEN UNCHANGED <<shipment, job, released>>
       ELSE LET p == CHOOSE q \in RowOf(e[1]) : TRUE
            IN  /\ shipment' = [shipment EXCEPT ![p] = Apply(@, e[2])]
                /\ job' = [job EXCEPT ![w] = [Idle EXCEPT !.pc = "sync", !.package = p,
                                               !.copy = shipment', !.event = e[2]]]
                /\ UNCHANGED released
    /\ UNCHANGED <<order, providerVars>>

\* Mutant: the stage of the last event.
StageOfEvent(current, event) ==
    CASE event = "generated" -> 2 [] event = "posted" -> 3 [] event = "delivered" -> 5
      [] OTHER -> current

ShippingStageForEvent(current, event) ==
    CASE event = "generated" /\ current < 2 -> 2
      [] event = "posted" /\ current < 3 -> 3
      [] event = "delivered" -> 5
      [] OTHER -> current

\* syncOrderShipping reads the order ...
ReadOrder(w) ==
    /\ At(w, "sync")
    /\ job' = [job EXCEPT ![w].pc = "syncSave", ![w].read = order]
    /\ UNCHANGED <<order, shipment, providerVars, webhookVars>>

\* Mutant: nothing is scheduled for a released label.
SaveOrderOnly(w) ==
    /\ At(w, "syncSave")
    /\ order' = [job[w].read EXCEPT !.stage = ShippingStageForEvent(@, job[w].event),
                                    !.delivered = @ \/ job[w].event = "delivered"]
    /\ IF job[w].then = "print" THEN Goto(w, "print") ELSE End(w)
    /\ UNCHANGED <<shipment, providerVars, webhookVars>>

\* ... and saves it.  A released label is completed afterwards.
SaveOrder(w) ==
    LET event == job[w].event
    IN  /\ At(w, "syncSave")
        /\ order' = [job[w].read EXCEPT !.stage = ShippingStageForEvent(@, event),
                                        !.delivered = @ \/ event = "delivered"]
        /\ released' = IF event = "released" THEN released \cup {Row(w).label} ELSE released
        /\ IF job[w].then = "print" THEN Goto(w, "print") ELSE End(w)
        /\ UNCHANGED <<shipment, providerVars, seen>>

CompleteReleasedShipment(w, l) ==
    /\ w \notin Managers
    /\ At(w, "idle")
    /\ l \in released
    /\ released' = released \ {l}
    /\ \E p \in RowOf(l) :
        /\ shipment' = [shipment EXCEPT ![p].status = "released", ![p].paid = TRUE]
        /\ job' = [job EXCEPT ![w] = [Idle EXCEPT !.pc = "generate", !.package = p,
                                                  !.copy = shipment']]
    /\ UNCHANGED <<order, providerVars, seen>>

-----------------------------------------------------------------------------
(* The parcel, the manager and the review *)

ParcelMoves(l) ==
    /\ \/ carrier[l] = "generated" /\ Moves(l, "posted")
       \/ carrier[l] = "posted" /\ Moves(l, "delivered")
    /\ UNCHANGED <<order, shipment, webhookVars, job>>

\* A manager who does not take a stage back.
UpdateShipStage(stage) ==
    /\ order.status = "paid"
    /\ stage > order.stage
    /\ ~(order.review = "pending" /\ stage >= 2)
    /\ order' = [order EXCEPT !.stage = stage, !.delivered = stage >= 5]
    /\ UNCHANGED <<shipment, providerVars, webhookVars, job>>

\* A bound: it comes before the first label.
EvaluatePaidOrder ==
    /\ order.status = "paid"
    /\ \A p \in Packages : shipment[p] = NoShipment
    /\ order.review = "none"
    /\ order' = [order EXCEPT !.review = "pending"]
    /\ UNCHANGED <<shipment, providerVars, webhookVars, job>>

ClearReview ==
    /\ order.review = "pending"
    /\ order' = [order EXCEPT !.review = "cleared"]
    /\ UNCHANGED <<shipment, providerVars, webhookVars, job>>

CancelOrder ==
    /\ order.status = "paid"
    /\ order' = [order EXCEPT !.status = "canceled"]
    /\ UNCHANGED <<shipment, providerVars, webhookVars, job>>

-----------------------------------------------------------------------------
WorkerStep(w) ==
    \/ SaveDraft(w) \/ HasLabel(w) \/ PutInCart(w)
    \/ Buy(w) \/ SaveBought(w) \/ SaveUnbought(w)
    \/ Generate(w) \/ SaveGenerated(w) \/ PrintLabel(w)
    \/ ReadOrder(w) \/ SaveOrder(w)

Next ==
    \/ \E w \in Workers :
        \/ CreateShipments(w) \/ WorkerStep(w)
        \/ \E e \in sent : HandleWebhook(w, e)
        \/ \E l \in Labels : CompleteReleasedShipment(w, l)
    \/ \E l \in Labels : ParcelMoves(l)
    \/ \E stage \in ByHand : UpdateShipStage(stage)
    \/ EvaluatePaidOrder \/ ClearReview \/ CancelOrder

Spec == Init /\ [][Next]_vars

(* Schedules *)

\* One request of createShipments at a time: no lock in the code makes it so.
OneManager == \A v, w \in Managers : v = w

\* The read and the save of one syncOrderShipping have no other write of the order
\* between them.
OrderWritesApart ==
    /\ Cardinality({w \in Workers : job'[w].pc = "syncSave"}) <= 1
    /\ order' # order => \A w \in Workers : At(w, "syncSave") => job'[w].pc # "syncSave"

CalmSpec == Init /\ [][Next /\ OrderWritesApart]_vars

Fairness ==
    /\ \A w \in Workers : WF_vars(WorkerStep(w))
    /\ WF_vars(\E w \in Workers, e \in sent : HandleWebhook(w, e))
    /\ WF_vars(\E w \in Workers, l \in Labels : CompleteReleasedShipment(w, l))

FairSpec == CalmSpec /\ Fairness

-----------------------------------------------------------------------------
(* Properties *)

\* No package is paid for twice: not after an answer of the carrier was lost, not
\* when a manager tries again, not while a released label is being completed.
\* There is one row for each package, and every label that was paid is in a row.
OneLabelPaid ==
    \A l \in Labels : Rank(carrier[l]) >= Rank("released") => RowOf(l) # {}

\* What the row says of its label is so at the carrier.
RowTellsTruth ==
    \A p \in Packages :
        LET row == shipment[p]
        IN  /\ row.paid => row.label # None /\ Rank(carrier[row.label]) >= Rank("released")
            /\ row.generated => Rank(carrier[row.label]) >= Rank("generated")

\* Whatever the order the events come in, once the delivery of a label was heard of the
\* customer's order is delivered, and a return can be asked for.
DeliveredIsRecorded ==
    \A l \in Labels :
        (<<l, "delivered">> \in seen /\ \A w \in Workers : job[w].pc \notin {"sync", "syncSave"})
            => order.stage = 5 /\ order.delivered

\* A webhook that was heard says more than the row: the answer to an earlier call
\* came, or was given up, after it, and was saved over it.
Overtaken(p) ==
    \E e \in seen :
        LET row == Apply(shipment[p], e[2])
        IN  /\ e[1] = shipment[p].label
            /\ <<row.paid, row.generated>> # <<shipment[p].paid, shipment[p].generated>>

\* A label that was paid is generated without a manager asking again, even if the
\* answers to the purchase and to the generation were both lost, unless a webhook
\* overtakes the answer it follows from.
PaidLabelIsGenerated ==
    \A p \in Packages :
        (shipment[p].label # None /\ Rank(carrier[shipment[p].label]) >= Rank("released"))
            ~> (shipment[p].generated \/ Overtaken(p))
=============================================================================
