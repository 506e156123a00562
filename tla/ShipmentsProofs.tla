---------------------------- MODULE ShipmentsProofs ----------------------------
(***************************************************************************)
(* Theorems about Shipments, for any number of packages, labels, managers, *)
(* webhooks and completions, and any of the failures of the carrier.       *)
(***************************************************************************)
EXTENDS Shipments, TLAPS

OrderRow == [status : {"paid", "canceled"}, review : {"none", "pending", "cleared"},
             stage : 1 .. 5, delivered : BOOLEAN]
ShipmentRow == [label : Labels \cup {None}, status : Statuses, paid : BOOLEAN,
                generated : BOOLEAN, printed : BOOLEAN]
States == DOMAIN Ranks
Job == [pc : Pcs, package : Packages, copy : [Packages -> ShipmentRow], event : States,
        read : OrderRow, then : {"idle", "print"}]

\* A row says nothing of its label that the carrier, in the states c, denies.
Truth(row, c) ==
    /\ row.paid => row.label # None /\ Rank(c[row.label]) >= 2
    /\ row.generated => row.label # None /\ Rank(c[row.label]) >= 3

RowOk(row, c) == row \in ShipmentRow /\ Truth(row, c)

\* What the step the job j of w is at tells of the label it works on.
PcOk(w, j, c) ==
    LET label == j.copy[j.package].label
    IN  /\ j.pc \in {"draft", "cart", "buy", "bought", "unbought"} => w \in Managers
        /\ j.pc \notin {"idle", "draft", "cart"} => label # None
        /\ j.pc = "bought" => Rank(c[label]) >= 2
        /\ j.pc = "generated" => Rank(c[label]) >= 3
        /\ j.pc \in {"sync", "syncSave"} => Rank(c[label]) >= Rank(j.event)

JobOk(w, j, c) ==
    /\ j \in Job
    /\ \A p \in Packages : Truth(j.copy[p], c)
    /\ PcOk(w, j, c)

RowsOk ==
    /\ shipment \in [Packages -> ShipmentRow]
    /\ \A p \in Packages : Truth(shipment[p], carrier)

CarrierOk ==
    /\ carrier \in [Labels -> States]
    /\ sent \subseteq Labels \X States
    /\ \A e \in sent : Rank(e[2]) >= 2 /\ Rank(carrier[e[1]]) >= Rank(e[2])

HeardOk ==
    /\ seen \subseteq sent
    /\ released \subseteq Labels
    /\ \A l \in released : Rank(carrier[l]) >= 2

JobsOk ==
    /\ job \in [Workers -> Job]
    /\ \A w \in Workers : JobOk(w, job[w], carrier)

\* The inductive invariant: no row, copy, webhook or scheduled completion says
\* more of a label than the carrier has done.
IInv ==
    /\ order \in OrderRow
    /\ RowsOk
    /\ CarrierOk
    /\ HeardOk
    /\ JobsOk

-----------------------------------------------------------------------------
(* The states of a label *)

LEMMA RankValues ==
    /\ States = {"none", "cart", "released", "generated", "posted", "delivered"}
    /\ Rank("none") = 0 /\ Rank("cart") = 1 /\ Rank("released") = 2
    /\ Rank("generated") = 3 /\ Rank("posted") = 4 /\ Rank("delivered") = 5
    /\ \A s \in States : Rank(s) \in 0 .. 5
  BY DEF States, Ranks, Rank

LEMMA StatesAreStatuses == States \subseteq Statuses /\ "purchasing" \in Statuses /\ "draft" \in Statuses
  BY DEF States, Statuses

Higher(c, d) == \A l \in Labels : Rank(c[l]) <= Rank(d[l])

LEMMA HigherKeepsTruth ==
    ASSUME NEW c \in [Labels -> States], NEW d \in [Labels -> States], Higher(c, d),
           NEW row \in ShipmentRow, Truth(row, c)
    PROVE  Truth(row, d)
  <1>1. \A l \in Labels : Rank(c[l]) \in 0 .. 5 /\ Rank(d[l]) \in 0 .. 5
    BY RankValues
  <1>. QED
    BY <1>1 DEF Truth, Higher, ShipmentRow

LEMMA HigherKeepsJob ==
    ASSUME NEW c \in [Labels -> States], NEW d \in [Labels -> States], Higher(c, d),
           NEW w, NEW j, JobOk(w, j, c)
    PROVE  JobOk(w, j, d)
  <1>1. \A l \in Labels : Rank(c[l]) \in 0 .. 5 /\ Rank(d[l]) \in 0 .. 5
    BY RankValues
  <1>2. j \in Job /\ \A p \in Packages : j.copy[p] \in ShipmentRow
    BY DEF JobOk, Job
  <1>3. \A p \in Packages : Truth(j.copy[p], d)
    BY <1>2, HigherKeepsTruth DEF JobOk
  <1>4. j.event \in States /\ Rank(j.event) \in 0 .. 5 /\ j.package \in Packages
    BY <1>2, RankValues DEF Job
  <1>5. j.copy[j.package].label \in Labels \cup {None}
    BY <1>2, <1>4 DEF ShipmentRow
  <1>6. PcOk(w, j, d)
    BY <1>1, <1>4, <1>5 DEF JobOk, PcOk, Higher
  <1>. QED
    BY <1>2, <1>3, <1>6 DEF JobOk

\* The carrier only moves a label forward.
LEMMA MovesUp ==
    ASSUME CarrierOk, NEW l \in Labels, NEW s \in States, Moves(l, s),
           Rank(carrier[l]) < Rank(s), s = "cart" \/ Rank(s) >= 2
    PROVE  CarrierOk' /\ Higher(carrier, carrier') /\ carrier'[l] = s
  <1>1. carrier' \in [Labels -> States] /\ carrier'[l] = s
    BY DEF CarrierOk, Moves
  <1>2. \A k \in Labels : Rank(carrier[k]) \in 0 .. 5
    BY RankValues DEF CarrierOk
  <1>3. Higher(carrier, carrier')
    <2>1. \A k \in Labels : carrier'[k] = IF k = l THEN s ELSE carrier[k]
      BY DEF CarrierOk, Moves
    <2>2. Rank(s) \in 0 .. 5
      BY RankValues
    <2>. QED
      BY <1>2, <2>1, <2>2 DEF Higher
  <1>4. sent' \subseteq Labels \X States
    BY DEF CarrierOk, Moves
  <1>5. ASSUME NEW e \in sent'
        PROVE  Rank(e[2]) >= 2 /\ Rank(carrier'[e[1]]) >= Rank(e[2])
    <2>1. CASE e \in sent
      <3>1. /\ e[1] \in Labels /\ e[2] \in States
            /\ Rank(e[2]) >= 2 /\ Rank(carrier[e[1]]) >= Rank(e[2])
        BY <2>1 DEF CarrierOk
      <3>2. /\ Rank(carrier[e[1]]) <= Rank(carrier'[e[1]])
            /\ Rank(carrier[e[1]]) \in 0 .. 5 /\ Rank(carrier'[e[1]]) \in 0 .. 5
            /\ Rank(e[2]) \in 0 .. 5
        BY <1>1, <1>2, <1>3, <3>1, RankValues DEF Higher
      <3>. QED
        BY <3>1, <3>2
    <2>2. CASE e \notin sent
      <3>1. e = <<l, s>> /\ s # "cart" /\ e[1] = l /\ e[2] = s
        BY <2>2 DEF Moves
      <3>2. Rank(s) \in 0 .. 5 /\ Rank(s) >= 2
        BY <3>1, RankValues
      <3>. QED
        BY <1>1, <3>1, <3>2
    <2>. QED
      BY <2>1, <2>2
  <1>. QED
    BY <1>1, <1>3, <1>4, <1>5 DEF CarrierOk

\* The events heard and the completions scheduled stay true.
LEMMA HeardStays ==
    ASSUME CarrierOk, CarrierOk', HeardOk, Higher(carrier, carrier'), sent \subseteq sent',
           UNCHANGED webhookVars
    PROVE  HeardOk'
  <1>1. \A l \in Labels : Rank(carrier[l]) \in 0 .. 5 /\ Rank(carrier'[l]) \in 0 .. 5
    BY RankValues DEF CarrierOk
  <1>. QED
    BY <1>1 DEF HeardOk, Higher, webhookVars

-----------------------------------------------------------------------------
(* Rows and jobs *)

LEMMA JobsKeep ==
    ASSUME JobsOk, CarrierOk, CarrierOk', Higher(carrier, carrier'), NEW w \in Workers, NEW j,
           job' = [job EXCEPT ![w] = j], JobOk(w, j, carrier')
    PROVE  JobsOk'
  <1>1. job' \in [Workers -> Job]
    BY DEF JobsOk, JobOk
  <1>2. ASSUME NEW v \in Workers
        PROVE  JobOk(v, job'[v], carrier')
    <2>1. CASE v = w
      BY <2>1 DEF JobsOk
    <2>2. CASE v # w
      <3>1. job'[v] = job[v] /\ JobOk(v, job[v], carrier)
        BY <2>2 DEF JobsOk
      <3>2. JobOk(v, job[v], carrier')
        BY <3>1, HigherKeepsJob DEF CarrierOk
      <3>. QED
        BY <3>1, <3>2
    <2>. QED
      BY <2>1, <2>2
  <1>. QED
    BY <1>1, <1>2 DEF JobsOk

LEMMA RowsKeep ==
    ASSUME RowsOk, CarrierOk, CarrierOk', Higher(carrier, carrier'), NEW p \in Packages, NEW row,
           shipment' = [shipment EXCEPT ![p] = row], RowOk(row, carrier')
    PROVE  RowsOk'
  <1>1. shipment' \in [Packages -> ShipmentRow]
    BY DEF RowsOk, RowOk
  <1>2. ASSUME NEW q \in Packages
        PROVE  Truth(shipment'[q], carrier')
    <2>1. CASE q = p
      BY <2>1 DEF RowsOk, RowOk
    <2>2. CASE q # p
      <3>1. shipment'[q] = shipment[q] /\ Truth(shipment[q], carrier) /\ shipment[q] \in ShipmentRow
        BY <2>2 DEF RowsOk
      <3>2. Truth(shipment[q], carrier')
        BY <3>1, HigherKeepsTruth DEF CarrierOk
      <3>. QED
        BY <3>1, <3>2
    <2>. QED
      BY <2>1, <2>2
  <1>. QED
    BY <1>1, <1>2 DEF RowsOk

LEMMA RowsStay ==
    ASSUME RowsOk, CarrierOk, CarrierOk', Higher(carrier, carrier'), UNCHANGED shipment
    PROVE  RowsOk'
  <1>1. ASSUME NEW q \in Packages
        PROVE  Truth(shipment[q], carrier')
    BY HigherKeepsTruth DEF CarrierOk, RowsOk
  <1>. QED
    BY <1>1 DEF RowsOk

LEMMA JobsStay ==
    ASSUME JobsOk, CarrierOk, CarrierOk', Higher(carrier, carrier'), UNCHANGED job
    PROVE  JobsOk'
  <1>1. ASSUME NEW w \in Workers
        PROVE  JobOk(w, job[w], carrier')
    BY HigherKeepsJob DEF CarrierOk, JobsOk
  <1>. QED
    BY <1>1 DEF JobsOk

LEMMA SameIsHigher ==
    ASSUME CarrierOk, UNCHANGED providerVars
    PROVE  CarrierOk' /\ Higher(carrier, carrier') /\ sent \subseteq sent'
  <1>1. \A l \in Labels : Rank(carrier[l]) \in 0 .. 5
    BY RankValues DEF CarrierOk
  <1>. QED
    BY <1>1 DEF CarrierOk, Higher, providerVars

LEMMA NoShipmentOk == \A c : RowOk(NoShipment, c) /\ RowOk(Draft, c)
  BY StatesAreStatuses, RankValues DEF RowOk, NoShipment, Draft, ShipmentRow, Truth

LEMMA IdleOk == \A w, c : JobOk(w, Idle, c)
  <1>1. NewOrder \in OrderRow
    BY DEF NewOrder, OrderRow
  <1>2. 1 \in Packages
    BY ShipmentsAssumption DEF Packages
  <1>3. Idle \in Job
    BY <1>1, <1>2, NoShipmentOk, RankValues DEF Idle, Job, Pcs, RowOk
  <1>4. \A c : \A p \in Packages : Truth(Idle.copy[p], c)
    BY NoShipmentOk DEF Idle, RowOk
  <1>5. \A w, c : PcOk(w, Idle, c)
    BY DEF PcOk, Idle
  <1>. QED
    BY <1>3, <1>4, <1>5 DEF JobOk

\* The row a worker works on.
LEMMA WorkedRow ==
    ASSUME JobsOk, NEW w \in Workers
    PROVE  /\ job[w] \in Job /\ job[w].package \in Packages
           /\ RowOk(Row(w), carrier) /\ JobOk(w, job[w], carrier)
  BY DEF JobsOk, JobOk, Job, RowOk, Row

\* Going on at pc with the same copies.
LEMMA GotoOk ==
    ASSUME JobsOk, CarrierOk, CarrierOk', Higher(carrier, carrier'), NEW w \in Workers,
           NEW pc \in Pcs, Goto(w, pc), PcOk(w, [job[w] EXCEPT !.pc = pc], carrier')
    PROVE  JobsOk'
  <1>. DEFINE j == [job[w] EXCEPT !.pc = pc]
  <1>1. job' = [job EXCEPT ![w] = j]
    BY DEF Goto, JobsOk
  <1>2. JobOk(w, job[w], carrier')
    BY HigherKeepsJob DEF JobsOk, CarrierOk
  <1>3. j \in Job /\ j.copy = job[w].copy
    BY <1>2 DEF JobOk, Job
  <1>4. JobOk(w, j, carrier')
    BY <1>2, <1>3 DEF JobOk
  <1>. HIDE DEF j
  <1>. QED
    BY <1>1, <1>4, JobsKeep

LEMMA EndOk ==
    ASSUME JobsOk, CarrierOk, CarrierOk', Higher(carrier, carrier'), NEW w \in Workers, End(w)
    PROVE  JobsOk'
  BY IdleOk, JobsKeep DEF End

LEMMA NextPackageOk ==
    ASSUME JobsOk, CarrierOk, CarrierOk', Higher(carrier, carrier'), NEW w \in Workers,
           NextPackage(w)
    PROVE  JobsOk'
  <1>1. CASE w \in Managers /\ job[w].package < NPackages
    <2>. DEFINE j == [job[w] EXCEPT !.pc = "draft", !.package = @ + 1]
    <2>1. job' = [job EXCEPT ![w] = j]
      BY <1>1 DEF NextPackage, JobsOk
    <2>2. JobOk(w, job[w], carrier')
      BY HigherKeepsJob DEF JobsOk, CarrierOk
    <2>3. job[w].package + 1 \in Packages
      BY <1>1, <2>2, ShipmentsAssumption DEF JobOk, Job, Packages
    <2>4. j \in Job /\ j.copy = job[w].copy /\ j.pc = "draft"
      BY <2>2, <2>3 DEF JobOk, Job, Pcs
    <2>5. JobOk(w, j, carrier')
      BY <1>1, <2>2, <2>4 DEF JobOk, PcOk
    <2>. HIDE DEF j
    <2>. QED
      BY <2>1, <2>5, JobsKeep
  <1>2. CASE ~(w \in Managers /\ job[w].package < NPackages)
    BY <1>2, EndOk DEF NextPackage
  <1>. QED
    BY <1>1, <1>2

\* Writing a true row, and going on with it.
LEMMA WriteRowOk ==
    ASSUME RowsOk, JobsOk, CarrierOk, CarrierOk', Higher(carrier, carrier'), NEW w \in Workers,
           NEW row, WriteRow(w, row), RowOk(row, carrier')
    PROVE  RowsOk'
  BY WorkedRow, RowsKeep DEF WriteRow

LEMMA SaveRowOk ==
    ASSUME RowsOk, JobsOk, CarrierOk, CarrierOk', Higher(carrier, carrier'), NEW w \in Workers,
           NEW row, NEW pc \in Pcs, SaveRow(w, row, pc), RowOk(row, carrier'),
           pc \in {"cart", "buy"} => w \in Managers,
           pc # "cart" => row.label # None,
           pc \in {"cart", "buy", "generate"}
    PROVE  RowsOk' /\ JobsOk'
  <1>. DEFINE j == [job[w] EXCEPT !.copy[job[w].package] = row, !.pc = pc]
  <1>0. job[w] \in Job /\ job[w].package \in Packages /\ JobOk(w, job[w], carrier')
    BY WorkedRow, HigherKeepsJob DEF CarrierOk
  <1>1. job' = [job EXCEPT ![w] = j]
    BY DEF SaveRow, JobsOk
  <1>2. j \in Job
    BY <1>0 DEF Job, RowOk
  <1>3. /\ \A p \in Packages : j.copy[p] = IF p = job[w].package THEN row ELSE job[w].copy[p]
        /\ j.pc = pc /\ j.package = job[w].package
    BY <1>0 DEF Job
  <1>4. \A p \in Packages : Truth(j.copy[p], carrier')
    BY <1>0, <1>3 DEF JobOk, RowOk
  <1>5. PcOk(w, j, carrier')
    BY <1>0, <1>3 DEF PcOk
  <1>6. JobOk(w, j, carrier')
    BY <1>2, <1>4, <1>5 DEF JobOk
  <1>. HIDE DEF j
  <1>7. JobsOk'
    BY <1>1, <1>6, JobsKeep
  <1>8. RowsOk'
    BY WriteRowOk DEF SaveRow
  <1>. QED
    BY <1>7, <1>8

-----------------------------------------------------------------------------
(* The steps *)

LEMMA CreateShipmentsStep ==
    ASSUME IInv, NEW w \in Workers, CreateShipments(w)
    PROVE  IInv'
  <1>. DEFINE j == [Idle EXCEPT !.pc = "draft", !.copy = shipment]
  <1>. USE DEF IInv
  <1>1. CarrierOk' /\ Higher(carrier, carrier') /\ sent \subseteq sent'
    BY SameIsHigher DEF CreateShipments
  <1>2. job' = [job EXCEPT ![w] = j] /\ w \in Managers
    BY DEF CreateShipments
  <1>3. JobOk(w, Idle, carrier')
    BY IdleOk
  <1>4. /\ j \in Job /\ j.copy = shipment /\ j.pc = "draft" /\ UNCHANGED carrier
    BY <1>3 DEF JobOk, Job, Pcs, RowsOk, CreateShipments, providerVars
  <1>5. JobOk(w, j, carrier')
    BY <1>2, <1>4 DEF JobOk, PcOk, RowsOk
  <1>. HIDE DEF j
  <1>6. JobsOk'
    BY <1>1, <1>2, <1>5, JobsKeep
  <1>7. RowsOk' /\ HeardOk'
    BY <1>1, RowsStay, HeardStays DEF CreateShipments
  <1>. QED
    BY <1>1, <1>6, <1>7 DEF CreateShipments

LEMMA SaveDraftStep ==
    ASSUME IInv, NEW w \in Workers, SaveDraft(w)
    PROVE  IInv'
  <1>. USE DEF IInv
  <1>1. CarrierOk' /\ Higher(carrier, carrier') /\ sent \subseteq sent' /\ HeardOk'
    BY SameIsHigher, HeardStays DEF SaveDraft
  <1>2. JobOk(w, job[w], carrier) /\ job[w].pc = "draft" /\ w \in Managers
    BY WorkedRow DEF SaveDraft, At, JobOk, PcOk
  <1>3. CASE Row(w) # NoShipment
    <2>1. Goto(w, "cart") /\ UNCHANGED shipment
      BY <1>3 DEF SaveDraft
    <2>2. PcOk(w, [job[w] EXCEPT !.pc = "cart"], carrier') /\ "cart" \in Pcs
      BY <1>2 DEF PcOk, JobOk, Job, Pcs
    <2>. QED
      BY <1>1, <2>1, <2>2, GotoOk, RowsStay DEF SaveDraft
  <1>4. CASE Row(w) = NoShipment /\ shipment[job[w].package] = NoShipment
    <2>1. SaveRow(w, Draft, "cart")
      BY <1>4 DEF SaveDraft
    <2>2. RowOk(Draft, carrier') /\ "cart" \in Pcs
      BY NoShipmentOk DEF Pcs
    <2>. QED
      BY <1>1, <1>2, <2>1, <2>2, SaveRowOk DEF SaveDraft
  <1>5. CASE Row(w) = NoShipment /\ shipment[job[w].package] # NoShipment
    <2>1. End(w) /\ UNCHANGED shipment
      BY <1>5 DEF SaveDraft
    <2>. QED
      BY <1>1, <2>1, EndOk, RowsStay DEF SaveDraft
  <1>. QED
    BY <1>3, <1>4, <1>5

LEMMA HasLabelStep ==
    ASSUME IInv, NEW w \in Workers, HasLabel(w)
    PROVE  IInv'
  <1>. USE DEF IInv
  <1>1. CarrierOk' /\ Higher(carrier, carrier') /\ sent \subseteq sent' /\ HeardOk'
    BY SameIsHigher, HeardStays DEF HasLabel
  <1>2. JobOk(w, job[w], carrier) /\ job[w].pc = "cart" /\ w \in Managers
    BY WorkedRow DEF HasLabel, At, JobOk, PcOk
  <1>3. PcOk(w, [job[w] EXCEPT !.pc = "buy"], carrier') /\ "buy" \in Pcs
    BY <1>2 DEF PcOk, JobOk, Job, Pcs, HasLabel, Row
  <1>. QED
    BY <1>1, <1>3, GotoOk, RowsStay DEF HasLabel

LEMMA PutInCartStep ==
    ASSUME IInv, NEW w \in Workers, PutInCart(w)
    PROVE  IInv'
  <1>. USE DEF IInv
  <1>0. UNCHANGED <<order, webhookVars>>
    BY DEF PutInCart
  <1>2. JobOk(w, job[w], carrier) /\ job[w].pc = "cart" /\ w \in Managers
    BY WorkedRow DEF PutInCart, At, JobOk, PcOk
  <1>3. ASSUME NEW l \in Labels, carrier[l] = "none", Moves(l, "cart"),
               SaveLabel(w, l) \/ (End(w) /\ UNCHANGED shipment)
        PROVE  IInv'
    <2>1. CarrierOk' /\ Higher(carrier, carrier')
      BY <1>3, MovesUp, RankValues
    <2>2. sent \subseteq sent'
      BY <1>3 DEF Moves
    <2>3. HeardOk'
      BY <1>0, <2>1, <2>2, HeardStays
    <2>4. CASE SaveLabel(w, l)
      <3>. DEFINE row == [Row(w) EXCEPT !.label = l, !.status = "cart"]
      <3>1. RowOk(Row(w), carrier) /\ Row(w).label = None
        BY WorkedRow DEF PutInCart
      <3>2. row \in ShipmentRow /\ row.label = l /\ row.paid = Row(w).paid
            /\ row.generated = Row(w).generated
        BY <3>1, StatesAreStatuses, RankValues DEF RowOk, ShipmentRow
      <3>3. RowOk(row, carrier') /\ row.label # None /\ "buy" \in Pcs
        BY <3>1, <3>2, ShipmentsAssumption DEF RowOk, Truth, Pcs
      <3>4. SaveRow(w, row, "buy")
        BY <2>4 DEF SaveLabel
      <3>. HIDE DEF row
      <3>5. RowsOk' /\ JobsOk'
        BY <1>2, <2>1, <3>3, <3>4, SaveRowOk
      <3>. QED
        BY <1>0, <2>1, <2>3, <3>5
    <2>5. CASE End(w) /\ UNCHANGED shipment
      BY <1>0, <2>1, <2>3, <2>5, EndOk, RowsStay
    <2>. QED
      BY <1>3, <2>4, <2>5
  <1>4. CASE End(w) /\ UNCHANGED <<shipment, providerVars>>
    <2>1. CarrierOk' /\ Higher(carrier, carrier') /\ sent \subseteq sent' /\ HeardOk'
      BY <1>0, <1>4, SameIsHigher, HeardStays
    <2>. QED
      BY <1>0, <1>4, <2>1, EndOk, RowsStay
  <1>. QED
    BY <1>3, <1>4 DEF PutInCart

LEMMA BuyStep ==
    ASSUME IInv, NEW w \in Workers, Buy(w)
    PROVE  IInv'
  <1>. USE DEF IInv
  <1>0. UNCHANGED <<order, shipment, webhookVars>>
    BY DEF Buy
  <1>1. /\ JobOk(w, job[w], carrier) /\ job[w].pc = "buy" /\ w \in Managers
        /\ Row(w).label \in Labels /\ Row(w).label = job[w].copy[job[w].package].label
        /\ job[w] \in Job
    BY WorkedRow DEF Buy, At, JobOk, PcOk, Row, RowOk, ShipmentRow
  <1>2. CASE NextPackage(w) /\ UNCHANGED providerVars
    <2>1. CarrierOk' /\ Higher(carrier, carrier') /\ sent \subseteq sent' /\ HeardOk'
      BY <1>0, <1>2, SameIsHigher, HeardStays
    <2>. QED
      BY <1>0, <1>2, <2>1, NextPackageOk, RowsStay
  <1>3. CASE (Goto(w, "generate") \/ Goto(w, "unbought")) /\ UNCHANGED providerVars
    <2>1. CarrierOk' /\ Higher(carrier, carrier') /\ sent \subseteq sent' /\ HeardOk'
      BY <1>0, <1>3, SameIsHigher, HeardStays
    <2>2. /\ PcOk(w, [job[w] EXCEPT !.pc = "generate"], carrier')
          /\ PcOk(w, [job[w] EXCEPT !.pc = "unbought"], carrier')
          /\ "generate" \in Pcs /\ "unbought" \in Pcs
      BY <1>1, ShipmentsAssumption DEF PcOk, Job, Pcs
    <2>. QED
      BY <1>0, <1>3, <2>1, <2>2, GotoOk, RowsStay
  <1>4. CASE /\ carrier[Row(w).label] = "cart" /\ Moves(Row(w).label, "released")
             /\ Goto(w, "bought") \/ Goto(w, "unbought")
    <2>1. CarrierOk' /\ Higher(carrier, carrier') /\ carrier'[Row(w).label] = "released"
      BY <1>1, <1>4, MovesUp, RankValues
    <2>2. sent \subseteq sent'
      BY <1>4 DEF Moves
    <2>3. HeardOk' /\ RowsOk'
      BY <1>0, <2>1, <2>2, HeardStays, RowsStay
    <2>4. /\ PcOk(w, [job[w] EXCEPT !.pc = "bought"], carrier')
          /\ PcOk(w, [job[w] EXCEPT !.pc = "unbought"], carrier')
          /\ "bought" \in Pcs /\ "unbought" \in Pcs
      BY <1>1, <2>1, ShipmentsAssumption, RankValues DEF PcOk, Job, Pcs
    <2>5. JobsOk'
      BY <1>4, <2>1, <2>4, GotoOk
    <2>. QED
      BY <1>0, <2>1, <2>3, <2>5
  <1>. QED
    BY <1>2, <1>3, <1>4 DEF Buy

LEMMA SaveBoughtStep ==
    ASSUME IInv, NEW w \in Workers, SaveBought(w)
    PROVE  IInv'
  <1>. USE DEF IInv
  <1>. DEFINE row == [Row(w) EXCEPT !.status = "released", !.paid = TRUE]
  <1>1. CarrierOk' /\ Higher(carrier, carrier') /\ sent \subseteq sent' /\ HeardOk'
        /\ UNCHANGED carrier
    BY SameIsHigher, HeardStays DEF SaveBought, providerVars
  <1>2. /\ RowOk(Row(w), carrier) /\ Row(w).label # None /\ Rank(carrier[Row(w).label]) >= 2
    BY WorkedRow DEF SaveBought, At, JobOk, PcOk, Row
  <1>3. row \in ShipmentRow /\ row.label = Row(w).label /\ row.generated = Row(w).generated
    BY <1>2, StatesAreStatuses, RankValues DEF RowOk, ShipmentRow
  <1>4. RowOk(row, carrier') /\ row.label # None /\ "generate" \in Pcs
    BY <1>1, <1>2, <1>3 DEF RowOk, Truth, Pcs
  <1>5. SaveRow(w, row, "generate")
    BY DEF SaveBought
  <1>. HIDE DEF row
  <1>6. RowsOk' /\ JobsOk'
    BY <1>1, <1>4, <1>5, SaveRowOk
  <1>. QED
    BY <1>1, <1>6 DEF SaveBought

LEMMA SaveUnboughtStep ==
    ASSUME IInv, NEW w \in Workers, SaveUnbought(w)
    PROVE  IInv'
  <1>. USE DEF IInv
  <1>. DEFINE row == [Row(w) EXCEPT !.status = "purchasing"]
  <1>1. CarrierOk' /\ Higher(carrier, carrier') /\ sent \subseteq sent' /\ HeardOk'
        /\ UNCHANGED carrier
    BY SameIsHigher, HeardStays DEF SaveUnbought, providerVars
  <1>2. RowOk(Row(w), carrier)
    BY WorkedRow
  <1>3. /\ row \in ShipmentRow /\ row.label = Row(w).label /\ row.generated = Row(w).generated
        /\ row.paid = Row(w).paid
    BY <1>2, StatesAreStatuses DEF RowOk, ShipmentRow
  <1>4. RowOk(row, carrier')
    BY <1>1, <1>2, <1>3 DEF RowOk, Truth
  <1>5. WriteRow(w, row) /\ NextPackage(w)
    BY DEF SaveUnbought
  <1>. HIDE DEF row
  <1>6. RowsOk' /\ JobsOk'
    BY <1>1, <1>4, <1>5, WriteRowOk, NextPackageOk
  <1>. QED
    BY <1>1, <1>6 DEF SaveUnbought

LEMMA SaveFailedOk ==
    ASSUME IInv, CarrierOk', Higher(carrier, carrier'), NEW w \in Workers, SaveFailed(w)
    PROVE  RowsOk' /\ JobsOk'
  <1>. USE DEF IInv
  <1>1. RowOk(Row(w), carrier')
    BY WorkedRow, HigherKeepsTruth DEF RowOk, CarrierOk
  <1>. QED
    BY <1>1, WriteRowOk, NextPackageOk DEF SaveFailed

LEMMA GenerateStep ==
    ASSUME IInv, NEW w \in Workers, Generate(w)
    PROVE  IInv'
  <1>. USE DEF IInv
  <1>0. UNCHANGED <<order, webhookVars>>
    BY DEF Generate
  <1>1. /\ JobOk(w, job[w], carrier) /\ job[w].pc = "generate"
        /\ Row(w).label \in Labels /\ Row(w).label = job[w].copy[job[w].package].label
        /\ job[w] \in Job
    BY WorkedRow DEF Generate, At, JobOk, PcOk, Row, RowOk, ShipmentRow
  <1>2. CASE Goto(w, "print") /\ UNCHANGED <<shipment, providerVars>>
    <2>1. CarrierOk' /\ Higher(carrier, carrier') /\ sent \subseteq sent' /\ HeardOk'
      BY <1>0, <1>2, SameIsHigher, HeardStays
    <2>2. PcOk(w, [job[w] EXCEPT !.pc = "print"], carrier') /\ "print" \in Pcs
      BY <1>1, ShipmentsAssumption DEF PcOk, Job, Pcs
    <2>. QED
      BY <1>0, <1>2, <2>1, <2>2, GotoOk, RowsStay
  <1>3. CASE SaveFailed(w) /\ UNCHANGED providerVars
    <2>1. CarrierOk' /\ Higher(carrier, carrier') /\ sent \subseteq sent' /\ HeardOk'
      BY <1>0, <1>3, SameIsHigher, HeardStays
    <2>. QED
      BY <1>0, <1>3, <2>1, SaveFailedOk
  <1>4. CASE /\ Rank(carrier[Row(w).label]) >= Rank("released")
             /\ IF carrier[Row(w).label] = "released" THEN Moves(Row(w).label, "generated")
                ELSE UNCHANGED providerVars
             /\ \/ Goto(w, "generated") /\ UNCHANGED shipment
                \/ SaveFailed(w)
    <2>1. /\ CarrierOk' /\ Higher(carrier, carrier') /\ sent \subseteq sent'
          /\ Rank(carrier'[Row(w).label]) >= 3
      <3>1. CASE carrier[Row(w).label] = "released"
        <4>1. CarrierOk' /\ Higher(carrier, carrier') /\ carrier'[Row(w).label] = "generated"
          BY <1>1, <1>4, <3>1, MovesUp, RankValues
        <4>. QED
          BY <1>4, <3>1, <4>1, RankValues DEF Moves
      <3>2. CASE carrier[Row(w).label] # "released"
        <4>1. CarrierOk' /\ Higher(carrier, carrier') /\ sent \subseteq sent'
          BY <1>4, <3>2, SameIsHigher
        <4>2. carrier' = carrier /\ carrier[Row(w).label] \in States
          BY <1>1, <1>4, <3>2 DEF providerVars, CarrierOk
        <4>3. Rank(carrier[Row(w).label]) >= 3
          BY <1>4, <3>2, <4>2, RankValues
        <4>. QED
          BY <4>1, <4>2, <4>3
      <3>. QED
        BY <3>1, <3>2
    <2>2. HeardOk'
      BY <1>0, <2>1, HeardStays
    <2>3. CASE Goto(w, "generated") /\ UNCHANGED shipment
      <3>1. PcOk(w, [job[w] EXCEPT !.pc = "generated"], carrier') /\ "generated" \in Pcs
        BY <1>1, <2>1, ShipmentsAssumption DEF PcOk, Job, Pcs
      <3>. QED
        BY <1>0, <2>1, <2>2, <2>3, <3>1, GotoOk, RowsStay
    <2>4. CASE SaveFailed(w)
      BY <1>0, <2>1, <2>2, <2>4, SaveFailedOk
    <2>. QED
      BY <1>4, <2>3, <2>4
  <1>. QED
    BY <1>2, <1>3, <1>4 DEF Generate

LEMMA SaveGeneratedStep ==
    ASSUME IInv, NEW w \in Workers, SaveGenerated(w)
    PROVE  IInv'
  <1>. USE DEF IInv
  <1>. DEFINE row == [Row(w) EXCEPT !.status = "generated", !.generated = TRUE]
              j == [job[w] EXCEPT !.copy[job[w].package] = row, !.pc = "sync",
                                  !.event = "generated", !.then = "print"]
  <1>1. CarrierOk' /\ Higher(carrier, carrier') /\ sent \subseteq sent' /\ HeardOk'
        /\ UNCHANGED carrier
    BY SameIsHigher, HeardStays DEF SaveGenerated, providerVars
  <1>2. /\ RowOk(Row(w), carrier) /\ Row(w).label # None /\ Rank(carrier[Row(w).label]) >= 3
        /\ job[w] \in Job /\ JobOk(w, job[w], carrier) /\ job[w].package \in Packages
    BY WorkedRow DEF SaveGenerated, At, JobOk, PcOk, Row
  <1>3. /\ row \in ShipmentRow /\ row.label = Row(w).label /\ row.paid = Row(w).paid
        /\ row.generated
    BY <1>2, StatesAreStatuses, RankValues DEF RowOk, ShipmentRow
  <1>4. RowOk(row, carrier')
    BY <1>1, <1>2, <1>3 DEF RowOk, Truth
  <1>5. WriteRow(w, row) /\ job' = [job EXCEPT ![w] = j]
    BY DEF SaveGenerated, JobsOk
  <1>6. RowsOk'
    <2>. HIDE DEF row, j
    <2>. QED
      BY <1>1, <1>4, <1>5, WriteRowOk
  <1>7. /\ j \in Job /\ j.pc = "sync" /\ j.event = "generated" /\ j.package = job[w].package
        /\ \A p \in Packages : j.copy[p] = IF p = job[w].package THEN row ELSE job[w].copy[p]
    <2>. HIDE DEF row
    <2>. QED
      BY <1>2, <1>4, RankValues DEF Job, Pcs, RowOk
  <1>8. JobOk(w, j, carrier')
    <2>. HIDE DEF j, row
    <2>1. \A p \in Packages : Truth(j.copy[p], carrier')
      BY <1>1, <1>2, <1>4, <1>7 DEF JobOk, RowOk
    <2>2. PcOk(w, j, carrier')
      BY <1>1, <1>2, <1>3, <1>7, RankValues DEF PcOk
    <2>. QED
      BY <1>7, <2>1, <2>2 DEF JobOk
  <1>. HIDE DEF row, j
  <1>9. JobsOk'
    BY <1>1, <1>5, <1>8, JobsKeep
  <1>. QED
    BY <1>1, <1>6, <1>9 DEF SaveGenerated

LEMMA PrintLabelStep ==
    ASSUME IInv, NEW w \in Workers, PrintLabel(w)
    PROVE  IInv'
  <1>. USE DEF IInv
  <1>1. CarrierOk' /\ Higher(carrier, carrier') /\ sent \subseteq sent' /\ HeardOk'
        /\ UNCHANGED carrier
    BY SameIsHigher, HeardStays DEF PrintLabel, providerVars
  <1>. DEFINE row == [Row(w) EXCEPT !.printed = TRUE]
  <1>2. RowOk(Row(w), carrier)
    BY WorkedRow
  <1>3. RowOk(row, carrier') /\ RowOk(Row(w), carrier')
    BY <1>1, <1>2 DEF RowOk, Truth, ShipmentRow
  <1>4. (WriteRow(w, row) \/ WriteRow(w, Row(w))) /\ NextPackage(w)
    BY DEF PrintLabel
  <1>. HIDE DEF row
  <1>5. RowsOk' /\ JobsOk'
    BY <1>1, <1>3, <1>4, WriteRowOk, NextPackageOk
  <1>. QED
    BY <1>1, <1>5 DEF PrintLabel

LEMMA ReadOrderStep ==
    ASSUME IInv, NEW w \in Workers, ReadOrder(w)
    PROVE  IInv'
  <1>. USE DEF IInv
  <1>. DEFINE j == [job[w] EXCEPT !.pc = "syncSave", !.read = order]
  <1>1. CarrierOk' /\ Higher(carrier, carrier') /\ sent \subseteq sent' /\ HeardOk'
        /\ UNCHANGED carrier
    BY SameIsHigher, HeardStays DEF ReadOrder, providerVars
  <1>2. JobOk(w, job[w], carrier) /\ job[w].pc = "sync" /\ job[w] \in Job
    BY WorkedRow DEF ReadOrder, At
  <1>3. job' = [job EXCEPT ![w] = j]
    BY DEF ReadOrder, JobsOk
  <1>4. /\ j \in Job /\ j.copy = job[w].copy /\ j.package = job[w].package
        /\ j.event = job[w].event /\ j.pc = "syncSave"
    BY <1>2 DEF Job, Pcs
  <1>5. JobOk(w, j, carrier')
    <2>. HIDE DEF j
    <2>. QED
      BY <1>1, <1>2, <1>4 DEF JobOk, PcOk
  <1>. HIDE DEF j
  <1>6. JobsOk'
    BY <1>1, <1>3, <1>5, JobsKeep
  <1>7. RowsOk'
    BY <1>1, RowsStay DEF ReadOrder
  <1>. QED
    BY <1>1, <1>6, <1>7 DEF ReadOrder

\* The row of orders after an event.
Synced(read, event) ==
    [read EXCEPT !.stage = ShippingStageForEvent(@, event),
                 !.delivered = @ \/ event = "delivered"]

LEMMA SyncedOk ==
    ASSUME NEW read \in OrderRow, NEW event \in States
    PROVE  Synced(read, event) \in OrderRow
  <1>1. ShippingStageForEvent(read.stage, event) \in 1 .. 5
    BY DEF ShippingStageForEvent, OrderRow
  <1>2. (read.delivered \/ event = "delivered") \in BOOLEAN
    BY DEF OrderRow
  <1>. QED
    BY <1>1, <1>2 DEF Synced, OrderRow

LEMMA SaveOrderStep ==
    ASSUME IInv, NEW w \in Workers, SaveOrder(w)
    PROVE  IInv'
  <1>. USE DEF IInv
  <1>1. CarrierOk' /\ Higher(carrier, carrier') /\ UNCHANGED <<carrier, seen, sent, shipment>>
    BY SameIsHigher DEF SaveOrder, providerVars
  <1>2. /\ JobOk(w, job[w], carrier) /\ job[w].pc = "syncSave" /\ job[w] \in Job
        /\ RowOk(Row(w), carrier) /\ Row(w) = job[w].copy[job[w].package]
    BY WorkedRow DEF SaveOrder, At, Row
  <1>3. job[w].event \in States /\ job[w].read \in OrderRow
    BY <1>2 DEF Job
  <1>4. order' = Synced(job[w].read, job[w].event)
    BY DEF SaveOrder, Synced
  <1>5. order' \in OrderRow
    BY <1>3, <1>4, SyncedOk
  <1>6. Row(w).label \in Labels /\ Rank(carrier[Row(w).label]) >= Rank(job[w].event)
    BY <1>2 DEF JobOk, PcOk, RowOk, ShipmentRow
  <1>7. HeardOk'
    BY <1>1, <1>6, RankValues DEF HeardOk, SaveOrder
  <1>8. CASE job[w].then = "print"
    <2>1. Goto(w, "print")
      BY <1>8 DEF SaveOrder
    <2>2. PcOk(w, [job[w] EXCEPT !.pc = "print"], carrier') /\ "print" \in Pcs
      BY <1>2 DEF JobOk, PcOk, Job, Pcs
    <2>. QED
      BY <1>1, <1>5, <1>7, <2>1, <2>2, GotoOk, RowsStay
  <1>9. CASE job[w].then # "print"
    <2>1. End(w)
      BY <1>9 DEF SaveOrder
    <2>. QED
      BY <1>1, <1>5, <1>7, <2>1, EndOk, RowsStay
  <1>. QED
    BY <1>8, <1>9

\* A worker that takes up a row.
LEMMA TakeUpOk ==
    ASSUME IInv, CarrierOk', Higher(carrier, carrier'), RowsOk', UNCHANGED carrier,
           NEW w \in Workers, NEW p \in Packages, NEW pc \in Pcs, NEW event \in States,
           job' = [job EXCEPT ![w] = [Idle EXCEPT !.pc = pc, !.package = p,
                                                  !.copy = shipment', !.event = event]],
           pc \in {"generate", "sync"},
           shipment'[p].label # None,
           pc = "sync" => Rank(carrier[shipment'[p].label]) >= Rank(event)
    PROVE  JobsOk'
  <1>. DEFINE j == [Idle EXCEPT !.pc = pc, !.package = p, !.copy = shipment', !.event = event]
  <1>1. Idle \in Job
    BY IdleOk DEF JobOk
  <1>2. /\ j \in Job /\ j.copy = shipment' /\ j.pc = pc /\ j.package = p /\ j.event = event
    BY <1>1 DEF Job, RowsOk
  <1>. HIDE DEF j
  <1>3. JobOk(w, j, carrier')
    BY <1>2 DEF JobOk, PcOk, RowsOk
  <1>4. job' = [job EXCEPT ![w] = j]
    BY DEF j
  <1>. QED
    BY <1>3, <1>4, JobsKeep DEF IInv

LEMMA HandleWebhookStep ==
    ASSUME IInv, NEW w \in Workers, NEW e \in sent, HandleWebhook(w, e)
    PROVE  IInv'
  <1>. USE DEF IInv
  <1>1. CarrierOk' /\ Higher(carrier, carrier') /\ UNCHANGED <<carrier, sent, order>>
    BY SameIsHigher DEF HandleWebhook, providerVars
  <1>2. /\ e[1] \in Labels /\ e[2] \in States
        /\ Rank(e[2]) >= 2 /\ Rank(carrier[e[1]]) >= Rank(e[2])
    BY DEF CarrierOk
  <1>3. seen' = seen \cup {e}
    BY DEF HandleWebhook
  <1>4. CASE RowOf(e[1]) = {}
    <2>1. UNCHANGED <<shipment, job, released>>
      BY <1>4 DEF HandleWebhook
    <2>2. HeardOk'
      BY <1>1, <1>3, <2>1 DEF HeardOk
    <2>. QED
      BY <1>1, <2>1, <2>2, RowsStay, JobsStay
  <1>5. CASE RowOf(e[1]) # {}
    <2>. DEFINE p == CHOOSE q \in RowOf(e[1]) : TRUE
                row == Apply(shipment[p], e[2])
    <2>1. p \in RowOf(e[1])
      BY <1>5
    <2>2. /\ shipment' = [shipment EXCEPT ![p] = row]
          /\ job' = [job EXCEPT ![w] = [Idle EXCEPT !.pc = "sync", !.package = p,
                                                    !.copy = shipment', !.event = e[2]]]
          /\ UNCHANGED released
      BY <1>5 DEF HandleWebhook
    <2>. HIDE DEF p
    <2>3. p \in Packages /\ shipment[p].label = e[1] /\ RowOk(shipment[p], carrier)
      BY <2>1 DEF RowOf, RowsOk, RowOk
    <2>4. /\ row \in ShipmentRow /\ row.label = e[1]
          /\ row.generated => shipment[p].generated \/ Rank(e[2]) >= 3
      BY <1>2, <2>3, StatesAreStatuses, RankValues DEF RowOk, ShipmentRow, Apply
    <2>5. Rank(carrier[e[1]]) \in 0 .. 5 /\ Rank(e[2]) \in 0 .. 5
      BY <1>2, RankValues DEF CarrierOk
    <2>6. RowOk(row, carrier') /\ row.label # None
      BY <1>1, <1>2, <2>3, <2>4, <2>5, ShipmentsAssumption DEF RowOk, Truth
    <2>. HIDE DEF row
    <2>7. RowsOk' /\ shipment'[p] = row
      BY <1>1, <2>2, <2>3, <2>6, RowsKeep DEF RowsOk
    <2>8. "sync" \in Pcs
      BY DEF Pcs
    <2>9. JobsOk'
      BY <1>1, <1>2, <2>2, <2>3, <2>4, <2>6, <2>7, <2>8, TakeUpOk
    <2>10. HeardOk'
      BY <1>1, <1>3, <2>2 DEF HeardOk
    <2>. QED
      BY <1>1, <2>7, <2>9, <2>10
  <1>. QED
    BY <1>4, <1>5

LEMMA CompleteStep ==
    ASSUME IInv, NEW w \in Workers, NEW l \in Labels, CompleteReleasedShipment(w, l)
    PROVE  IInv'
  <1>. USE DEF IInv
  <1>1. CarrierOk' /\ Higher(carrier, carrier') /\ UNCHANGED <<carrier, sent, order>>
    BY SameIsHigher DEF CompleteReleasedShipment, providerVars
  <1>2. Rank(carrier[l]) >= 2 /\ HeardOk'
    BY <1>1 DEF HeardOk, CompleteReleasedShipment
  <1>3. PICK p \in RowOf(l) :
            /\ shipment' = [shipment EXCEPT ![p].status = "released", ![p].paid = TRUE]
            /\ job' = [job EXCEPT ![w] = [Idle EXCEPT !.pc = "generate", !.package = p,
                                                      !.copy = shipment']]
    BY DEF CompleteReleasedShipment
  <1>. DEFINE row == [shipment[p] EXCEPT !.status = "released", !.paid = TRUE]
  <1>4. p \in Packages /\ shipment[p].label = l /\ RowOk(shipment[p], carrier)
    BY <1>3 DEF RowOf, RowsOk, RowOk
  <1>5. row \in ShipmentRow /\ row.label = l /\ row.generated = shipment[p].generated
    BY <1>4, StatesAreStatuses, RankValues DEF RowOk, ShipmentRow
  <1>6. RowOk(row, carrier') /\ row.label # None
    BY <1>1, <1>2, <1>4, <1>5, ShipmentsAssumption DEF RowOk, Truth
  <1>. DEFINE paid == [shipment EXCEPT ![p].status = "released", ![p].paid = TRUE]
  <1>7. shipment' = [shipment EXCEPT ![p] = row]
    <2>1. shipment \in [Packages -> ShipmentRow]
      BY DEF RowsOk
    <2>2. paid[p] = row
      BY <1>4, <2>1
    <2>3. \A q \in Packages : q # p => paid[q] = shipment[q]
      BY <1>4, <2>1
    <2>. QED
      BY <1>3, <1>4, <2>1, <2>2, <2>3
  <1>8. job' = [job EXCEPT ![w] = [Idle EXCEPT !.pc = "generate", !.package = p,
                                               !.copy = shipment', !.event = "none"]]
    <2>1. \A c, q : [Idle EXCEPT !.pc = "generate", !.package = q, !.copy = c]
                      = [Idle EXCEPT !.pc = "generate", !.package = q, !.copy = c,
                                     !.event = "none"]
      <3>. SUFFICES ASSUME NEW c, NEW q
                    PROVE  [Idle EXCEPT !.pc = "generate", !.package = q, !.copy = c]
                            = [Idle EXCEPT !.pc = "generate", !.package = q, !.copy = c,
                                           !.event = "none"]
        OBVIOUS
      <3>1. Idle \in Job /\ Idle.event = "none"
        BY IdleOk DEF JobOk, Idle
      <3>. QED
        BY <3>1 DEF Job
    <2>. QED
      BY <1>3, <2>1
  <1>. HIDE DEF row
  <1>9. RowsOk' /\ shipment'[p] = row
    BY <1>1, <1>4, <1>6, <1>7, RowsKeep DEF RowsOk
  <1>10. "generate" \in Pcs /\ "none" \in States
    BY RankValues DEF Pcs
  <1>11. JobsOk'
    BY <1>1, <1>4, <1>6, <1>8, <1>9, <1>10, TakeUpOk
  <1>. QED
    BY <1>1, <1>2, <1>9, <1>11

LEMMA ParcelMovesStep ==
    ASSUME IInv, NEW l \in Labels, ParcelMoves(l)
    PROVE  IInv'
  <1>. USE DEF IInv
  <1>1. CarrierOk' /\ Higher(carrier, carrier')
    BY MovesUp, RankValues DEF ParcelMoves
  <1>2. sent \subseteq sent' /\ UNCHANGED <<order, shipment, webhookVars, job>>
    BY DEF ParcelMoves, Moves
  <1>3. RowsOk' /\ JobsOk' /\ HeardOk'
    BY <1>1, <1>2, RowsStay, JobsStay, HeardStays
  <1>. QED
    BY <1>1, <1>2, <1>3

\* What only touches the row of orders, or nothing.
LEMMA OrderStep ==
    ASSUME IInv, UNCHANGED <<shipment, providerVars, webhookVars, job>>, order' \in OrderRow
    PROVE  IInv'
  <1>. USE DEF IInv
  <1>1. CarrierOk' /\ Higher(carrier, carrier') /\ sent \subseteq sent'
    BY SameIsHigher
  <1>. QED
    BY <1>1, RowsStay, JobsStay, HeardStays

LEMMA IInvStep == IInv /\ [Next]_vars => IInv'
  <1>. SUFFICES ASSUME IInv, [Next]_vars PROVE IInv'
    OBVIOUS
  <1>1. CASE UNCHANGED vars
    BY <1>1, OrderStep DEF vars, IInv
  <1>2. ASSUME NEW w \in Workers, WorkerStep(w)
        PROVE  IInv'
    <2>1. CASE SaveDraft(w) \/ HasLabel(w) \/ PutInCart(w)
      BY <2>1, SaveDraftStep, HasLabelStep, PutInCartStep
    <2>2. CASE Buy(w) \/ SaveBought(w) \/ SaveUnbought(w)
      BY <2>2, BuyStep, SaveBoughtStep, SaveUnboughtStep
    <2>3. CASE Generate(w) \/ SaveGenerated(w) \/ PrintLabel(w)
      BY <2>3, GenerateStep, SaveGeneratedStep, PrintLabelStep
    <2>4. CASE ReadOrder(w) \/ SaveOrder(w)
      BY <2>4, ReadOrderStep, SaveOrderStep
    <2>. QED
      BY <1>2, <2>1, <2>2, <2>3, <2>4 DEF WorkerStep
  <1>3. ASSUME NEW stage \in ByHand, UpdateShipStage(stage)
        PROVE  IInv'
    <2>1. order' \in OrderRow
      <3>1. stage \in 1 .. 5 /\ (stage >= 5) \in BOOLEAN
        BY ShipmentsAssumption
      <3>2. order' = [order EXCEPT !.stage = stage, !.delivered = (stage >= 5)]
        BY <1>3 DEF UpdateShipStage
      <3>. DEFINE late == stage >= 5
      <3>. HIDE DEF late
      <3>. QED
        BY <3>1, <3>2 DEF IInv, OrderRow
    <2>. QED
      BY <1>3, <2>1, OrderStep DEF UpdateShipStage
  <1>4. CASE EvaluatePaidOrder \/ ClearReview \/ CancelOrder
    <2>1. order' \in OrderRow
      BY <1>4 DEF EvaluatePaidOrder, ClearReview, CancelOrder, IInv, OrderRow
    <2>. QED
      BY <1>4, <2>1, OrderStep DEF EvaluatePaidOrder, ClearReview, CancelOrder
  <1>. QED
    BY <1>1, <1>2, <1>3, <1>4, CreateShipmentsStep, HandleWebhookStep, CompleteStep,
       ParcelMovesStep DEF Next

LEMMA IInvInit == Init => IInv
  <1>. SUFFICES ASSUME Init PROVE IInv
    OBVIOUS
  <1>1. order \in OrderRow
    BY DEF Init, NewOrder, OrderRow
  <1>2. RowsOk
    BY NoShipmentOk DEF Init, RowsOk, RowOk
  <1>3. CarrierOk /\ HeardOk
    BY RankValues DEF Init, CarrierOk, HeardOk
  <1>4. JobsOk
    BY IdleOk DEF Init, JobsOk, JobOk
  <1>. QED
    BY <1>1, <1>2, <1>3, <1>4 DEF IInv

LEMMA Inductive == Spec => []IInv
  BY IInvInit, IInvStep, PTL DEF Spec

\* The rows and what the workers carry keep their types.
THEOREM TypeCorrect == Spec => []TypeOK
  <1>1. IInv => TypeOK
    BY DEF IInv, TypeOK, RowsOk, CarrierOk, HeardOk, JobsOk, OrderRow, ShipmentRow, Job, States
  <1>. QED
    BY <1>1, Inductive, PTL

\* A row that says its label is paid, or generated, is right, for any number of
\* managers at once: no answer that was lost is taken for a success, and no copy
\* saved late claims what the carrier has not done.
THEOREM RowTellsTruthHolds == Spec => []RowTellsTruth
  <1>1. IInv => RowTellsTruth
    BY RankValues DEF IInv, RowsOk, Truth, RowTellsTruth
  <1>. QED
    BY <1>1, Inductive, PTL

-----------------------------------------------------------------------------
(* One label for each package *)

\* What a worker carries of the labels is what the rows say.
Agrees(w, j, rows) ==
    j.pc # "idle" =>
        IF w \in Managers THEN \A p \in Packages : j.copy[p].label = rows[p].label
        ELSE j.copy[j.package].label = rows[j.package].label

\* The inductive invariant: a label that was paid is in a row, since a worker buys
\* the label of its copy, and its copy agrees with the rows.
LabelInv ==
    /\ OneLabelPaid
    /\ \A w \in Workers : Agrees(w, job[w], shipment)

\* The job of w goes on with the labels it has, or ends.
JobKept(w) ==
    /\ \A v \in Workers : v # w => job'[v] = job[v]
    /\ \/ job'[w].pc = "idle"
       \/ /\ \A p \in Packages : job'[w].copy[p].label = job[w].copy[p].label
          /\ w \in Managers \/ job'[w].package = job[w].package

LabelsKept == \A p \in Packages : shipment'[p].label = shipment[p].label

LEMMA JobGoesOn ==
    ASSUME JobsOk, NEW w \in Workers, NEW pc, Goto(w, pc) \/ End(w) \/ NextPackage(w)
    PROVE  JobKept(w)
  <1>1. job \in [Workers -> Job] /\ job[w] \in Job
    BY DEF JobsOk
  <1>2. ASSUME NEW q, Goto(w, q)
        PROVE  JobKept(w)
    BY <1>1, <1>2 DEF Goto, JobKept, Job
  <1>3. CASE End(w)
    BY <1>1, <1>3 DEF End, JobKept, Idle
  <1>4. CASE NextPackage(w)
    <2>1. CASE w \in Managers /\ job[w].package < NPackages
      BY <1>1, <1>4, <2>1 DEF NextPackage, JobKept, Job
    <2>2. CASE ~(w \in Managers /\ job[w].package < NPackages)
      BY <1>3, <1>4, <2>2 DEF NextPackage
    <2>. QED
      BY <2>1, <2>2
  <1>. QED
    BY <1>2, <1>3, <1>4

\* The label of the row that a worker works on.
LEMMA WorkedLabel ==
    ASSUME IInv, LabelInv, NEW w \in Workers, job[w].pc # "idle"
    PROVE  /\ job[w].package \in Packages
           /\ Row(w).label = shipment[job[w].package].label
           /\ Row(w) \in ShipmentRow
  BY WorkedRow DEF IInv, LabelInv, Agrees, Row, RowOk

LEMMA WriteKeepsLabels ==
    ASSUME IInv, LabelInv, NEW w \in Workers, job[w].pc # "idle", NEW row,
           WriteRow(w, row), row.label = Row(w).label
    PROVE  LabelsKept
  BY WorkedLabel DEF WriteRow, LabelsKept, IInv, RowsOk

\* The jobs that agree still do when no label changes.
LEMMA StillAgree ==
    ASSUME LabelInv, LabelsKept, NEW v \in Workers, job[v] \in Job, job'[v] = job[v]
    PROVE  Agrees(v, job'[v], shipment')
  BY DEF LabelInv, LabelsKept, Agrees, Job

LEMMA RowsOfLabels ==
    ASSUME LabelsKept
    PROVE  \A l : RowOf(l)' = RowOf(l)
  BY DEF LabelsKept, RowOf

LEMMA LabelsStay ==
    ASSUME IInv, LabelInv, NEW w \in Workers, job[w].pc # "idle", JobKept(w), LabelsKept,
           \A l \in Labels : Rank(carrier'[l]) >= 2 => RowOf(l) # {}
    PROVE  LabelInv'
  <1>1. OneLabelPaid'
    BY RowsOfLabels, RankValues DEF OneLabelPaid
  <1>2. ASSUME NEW v \in Workers
        PROVE  Agrees(v, job'[v], shipment')
    <2>1. job[v] \in Job /\ job[w] \in Job
      BY DEF IInv, JobsOk
    <2>2. CASE v # w
      BY <2>1, <2>2, StillAgree DEF JobKept
    <2>3. CASE v = w
      BY <2>1, <2>3 DEF LabelInv, Agrees, JobKept, LabelsKept, Job
    <2>. QED
      BY <2>2, <2>3
  <1>. QED
    BY <1>1, <1>2 DEF LabelInv

\* A step of a worker that buys and saves no label.
LEMMA QuietStep ==
    ASSUME IInv, LabelInv, NEW w \in Workers, job[w].pc # "idle", JobKept(w), LabelsKept,
           UNCHANGED carrier
    PROVE  LabelInv'
  BY LabelsStay, RankValues DEF LabelInv, OneLabelPaid

LEMMA SaveKeepsJob ==
    ASSUME IInv, LabelInv, NEW w \in Workers, job[w].pc # "idle", NEW row, NEW pc,
           SaveRow(w, row, pc), row.label = Row(w).label
    PROVE  JobKept(w) /\ LabelsKept
  <1>1. LabelsKept
    BY WriteKeepsLabels DEF SaveRow
  <1>2. job \in [Workers -> Job] /\ job[w] \in Job /\ job[w].package \in Packages
    BY WorkedRow DEF IInv, JobsOk
  <1>. DEFINE j == [job[w] EXCEPT !.copy[job[w].package] = row, !.pc = pc]
  <1>3. job' = [job EXCEPT ![w] = j]
    BY <1>2 DEF SaveRow
  <1>4. /\ j.package = job[w].package
        /\ \A p \in Packages : j.copy[p] = IF p = job[w].package THEN row ELSE job[w].copy[p]
    BY <1>2 DEF Job
  <1>. HIDE DEF j
  <1>. QED
    BY <1>1, <1>2, <1>3, <1>4 DEF JobKept, Row

LEMMA DraftKeepsLabels ==
    ASSUME IInv, LabelInv, NEW w \in Workers, SaveDraft(w)
    PROVE  LabelInv'
  <1>1. job[w].pc # "idle" /\ UNCHANGED carrier /\ JobsOk
    BY DEF SaveDraft, At, IInv, providerVars
  <1>2. CASE Row(w) # NoShipment
    BY <1>1, <1>2, JobGoesOn, QuietStep DEF SaveDraft, LabelsKept
  <1>3. CASE Row(w) = NoShipment /\ shipment[job[w].package] = NoShipment
    <2>1. SaveRow(w, Draft, "cart") /\ Draft.label = Row(w).label
      BY <1>3 DEF SaveDraft, Draft, NoShipment
    <2>. QED
      BY <1>1, <2>1, SaveKeepsJob, QuietStep
  <1>4. CASE Row(w) = NoShipment /\ shipment[job[w].package] # NoShipment
    <2>1. End(w) /\ UNCHANGED shipment
      BY <1>4 DEF SaveDraft
    <2>. QED
      BY <1>1, <2>1, JobGoesOn, QuietStep DEF LabelsKept
  <1>. QED
    BY <1>2, <1>3, <1>4

\* The label that the carrier hands out is saved in a row without one.  No other
\* worker is at that package, since only a manager's is at a row without a label.
LEMMA SaveLabelKeeps ==
    ASSUME OneManager, IInv, LabelInv, NEW w \in Workers, At(w, "cart"), Row(w).label = None,
           NEW l \in Labels, Moves(l, "cart"), SaveLabel(w, l)
    PROVE  LabelInv'
  <1>. DEFINE row == [Row(w) EXCEPT !.label = l, !.status = "cart"]
              p == job[w].package
              j == [job[w] EXCEPT !.copy[p] = row, !.pc = "buy"]
  <1>1. /\ job[w] \in Job /\ p \in Packages /\ w \in Managers
        /\ shipment[p].label = None /\ Row(w) \in ShipmentRow
    BY WorkedLabel, WorkedRow DEF At, JobOk, PcOk, IInv
  <1>2. row.label = l
    BY <1>1 DEF ShipmentRow
  <1>3. shipment' = [shipment EXCEPT ![p] = row] /\ job' = [job EXCEPT ![w] = j]
    BY DEF SaveLabel, SaveRow, WriteRow, IInv, JobsOk
  <1>4. j.pc = "buy" /\ \A q \in Packages : j.copy[q] = IF q = p THEN row ELSE job[w].copy[q]
    BY <1>1 DEF Job
  <1>5. /\ job \in [Workers -> Job] /\ shipment \in [Packages -> ShipmentRow]
        /\ carrier \in [Labels -> States]
    BY DEF IInv, RowsOk, JobsOk, CarrierOk
  <1>. HIDE DEF row, j
  <1>6. ASSUME NEW v \in Workers
        PROVE  Agrees(v, job'[v], shipment')
    <2>1. CASE v = w
      BY <1>1, <1>2, <1>3, <1>4, <1>5, <2>1 DEF LabelInv, Agrees, At
    <2>2. CASE v # w /\ job[v].pc = "idle"
      BY <1>3, <1>5, <2>2 DEF Agrees
    <2>3. CASE v # w /\ job[v].pc # "idle"
      <3>1. v \notin Managers /\ job'[v] = job[v]
        BY <1>1, <1>3, <1>5, <2>3 DEF OneManager
      <3>2. Row(v).label # None
        BY <2>3, <3>1, WorkedRow DEF JobOk, PcOk, Row, IInv
      <3>3. job[v].package \in Packages /\ Row(v).label = shipment[job[v].package].label
        BY <2>3, WorkedLabel
      <3>4. shipment'[job[v].package] = shipment[job[v].package]
        BY <1>1, <1>3, <1>5, <3>2, <3>3
      <3>. QED
        BY <3>1, <3>3, <3>4 DEF Agrees, Row
    <2>. QED
      BY <2>1, <2>2, <2>3
  <1>7. ASSUME NEW k \in Labels, Rank(carrier'[k]) >= 2
        PROVE  RowOf(k)' # {}
    <2>1. Rank(carrier[k]) >= 2
      BY <1>5, <1>7, RankValues DEF Moves
    <2>2. PICK q \in Packages : shipment[q].label = k
      BY <2>1, RankValues DEF LabelInv, OneLabelPaid, RowOf
    <2>3. shipment'[q] = shipment[q]
      BY <1>1, <1>3, <1>5, <2>2, ShipmentsAssumption
    <2>. QED
      BY <2>2, <2>3 DEF RowOf
  <1>. QED
    BY <1>6, <1>7, RankValues DEF LabelInv, OneLabelPaid

LEMMA CartKeepsLabels ==
    ASSUME OneManager, IInv, LabelInv, NEW w \in Workers, PutInCart(w)
    PROVE  LabelInv'
  <1>1. At(w, "cart") /\ Row(w).label = None /\ job[w].pc # "idle" /\ JobsOk
    BY DEF PutInCart, At, IInv
  <1>2. CASE \E l \in Labels :
                carrier[l] = "none" /\ Moves(l, "cart") /\ End(w) /\ UNCHANGED shipment
    <2>1. PICK l \in Labels : carrier[l] = "none" /\ Moves(l, "cart")
      BY <1>2
    <2>2. \A k \in Labels : Rank(carrier'[k]) >= 2 => RowOf(k) # {}
      BY <2>1, RankValues DEF Moves, LabelInv, OneLabelPaid, IInv, CarrierOk
    <2>. QED
      BY <1>1, <1>2, <2>2, JobGoesOn, LabelsStay DEF LabelsKept
  <1>3. CASE End(w) /\ UNCHANGED <<shipment, providerVars>>
    BY <1>1, <1>3, JobGoesOn, QuietStep DEF LabelsKept, providerVars
  <1>4. CASE \E l \in Labels : Moves(l, "cart") /\ SaveLabel(w, l)
    BY <1>1, <1>4, SaveLabelKeeps
  <1>. QED
    BY <1>2, <1>3, <1>4 DEF PutInCart

\* A worker buys the label of its row.
LEMMA BuyKeepsLabels ==
    ASSUME IInv, LabelInv, NEW w \in Workers, Buy(w)
    PROVE  LabelInv'
  <1>1. job[w].pc # "idle" /\ JobsOk /\ LabelsKept
    BY DEF Buy, At, IInv, LabelsKept
  <1>2. JobKept(w)
    BY <1>1, JobGoesOn DEF Buy
  <1>3. CASE UNCHANGED providerVars
    BY <1>1, <1>2, <1>3, QuietStep DEF providerVars
  <1>4. CASE Moves(Row(w).label, "released")
    <2>1. RowOf(Row(w).label) # {}
      BY <1>1, WorkedLabel DEF RowOf
    <2>2. \A k \in Labels : k # Row(w).label => carrier'[k] = carrier[k]
      BY <1>4 DEF Moves, IInv, CarrierOk
    <2>3. \A k \in Labels : Rank(carrier'[k]) >= 2 => RowOf(k) # {}
      BY <2>1, <2>2, RankValues DEF LabelInv, OneLabelPaid
    <2>. QED
      BY <1>1, <1>2, <2>3, LabelsStay
  <1>. QED
    BY <1>3, <1>4 DEF Buy

LEMMA SavesKeepLabels ==
    ASSUME IInv, LabelInv, NEW w \in Workers, SaveBought(w) \/ SaveUnbought(w)
    PROVE  LabelInv'
  <1>1. job[w].pc # "idle" /\ JobsOk /\ UNCHANGED carrier /\ Row(w) \in ShipmentRow
    BY WorkedRow DEF SaveBought, SaveUnbought, At, IInv, providerVars, RowOk
  <1>2. CASE SaveBought(w)
    <2>. DEFINE row == [Row(w) EXCEPT !.status = "released", !.paid = TRUE]
    <2>1. row.label = Row(w).label
      BY <1>1 DEF ShipmentRow
    <2>2. SaveRow(w, row, "generate")
      BY <1>2 DEF SaveBought
    <2>. HIDE DEF row
    <2>. QED
      BY <1>1, <2>1, <2>2, SaveKeepsJob, QuietStep
  <1>3. CASE SaveUnbought(w)
    <2>. DEFINE row == [Row(w) EXCEPT !.status = "purchasing"]
    <2>1. row.label = Row(w).label
      BY <1>1 DEF ShipmentRow
    <2>2. WriteRow(w, row) /\ NextPackage(w)
      BY <1>3 DEF SaveUnbought
    <2>. HIDE DEF row
    <2>. QED
      BY <1>1, <2>1, <2>2, WriteKeepsLabels, JobGoesOn, QuietStep
  <1>. QED
    BY <1>2, <1>3

LEMMA GenerateKeepsLabels ==
    ASSUME IInv, LabelInv, NEW w \in Workers, Generate(w)
    PROVE  LabelInv'
  <1>1. job[w].pc # "idle" /\ JobsOk
    BY DEF Generate, At, IInv
  <1>2. LabelsKept /\ JobKept(w)
    <2>1. CASE Goto(w, "print") \/ Goto(w, "generated")
      BY <1>1, <2>1, JobGoesOn, WriteKeepsLabels DEF Generate, LabelsKept, SaveFailed
    <2>2. CASE SaveFailed(w)
      BY <1>1, <2>2, JobGoesOn, WriteKeepsLabels DEF SaveFailed
    <2>. QED
      BY <2>1, <2>2 DEF Generate
  <1>3. CASE UNCHANGED providerVars
    BY <1>1, <1>2, <1>3, QuietStep DEF providerVars
  <1>4. CASE carrier[Row(w).label] = "released" /\ Moves(Row(w).label, "generated")
    <2>1. RowOf(Row(w).label) # {}
      BY <1>1, WorkedLabel DEF RowOf
    <2>2. \A k \in Labels : k # Row(w).label => carrier'[k] = carrier[k]
      BY <1>4 DEF Moves, IInv, CarrierOk
    <2>3. \A k \in Labels : Rank(carrier'[k]) >= 2 => RowOf(k) # {}
      BY <2>1, <2>2, RankValues DEF LabelInv, OneLabelPaid
    <2>. QED
      BY <1>1, <1>2, <2>3, LabelsStay
  <1>. QED
    BY <1>3, <1>4 DEF Generate

LEMMA GeneratedKeepsLabels ==
    ASSUME IInv, LabelInv, NEW w \in Workers, SaveGenerated(w)
    PROVE  LabelInv'
  <1>. DEFINE row == [Row(w) EXCEPT !.status = "generated", !.generated = TRUE]
              j == [job[w] EXCEPT !.copy[job[w].package] = row, !.pc = "sync",
                                  !.event = "generated", !.then = "print"]
  <1>1. /\ job[w].pc # "idle" /\ UNCHANGED carrier /\ Row(w) \in ShipmentRow
        /\ job \in [Workers -> Job] /\ job[w] \in Job /\ job[w].package \in Packages
    BY WorkedRow DEF SaveGenerated, At, IInv, providerVars, RowOk, JobsOk
  <1>2. row.label = Row(w).label
    BY <1>1 DEF ShipmentRow
  <1>3. WriteRow(w, row) /\ job' = [job EXCEPT ![w] = j]
    BY <1>1 DEF SaveGenerated
  <1>4. /\ j.package = job[w].package
        /\ \A p \in Packages : j.copy[p] = IF p = job[w].package THEN row ELSE job[w].copy[p]
    BY <1>1 DEF Job
  <1>. HIDE DEF row, j
  <1>5. LabelsKept /\ JobKept(w)
    BY <1>1, <1>2, <1>3, <1>4, WriteKeepsLabels DEF JobKept, Row
  <1>. QED
    BY <1>1, <1>5, QuietStep

LEMMA PrintKeepsLabels ==
    ASSUME IInv, LabelInv, NEW w \in Workers, PrintLabel(w)
    PROVE  LabelInv'
  <1>1. /\ job[w].pc # "idle" /\ JobsOk /\ UNCHANGED carrier /\ Row(w) \in ShipmentRow
        /\ NextPackage(w)
    BY WorkedRow DEF PrintLabel, At, IInv, providerVars, RowOk
  <1>. DEFINE row == [Row(w) EXCEPT !.printed = TRUE]
  <1>2. row.label = Row(w).label
    BY <1>1 DEF ShipmentRow
  <1>3. WriteRow(w, row) \/ WriteRow(w, Row(w))
    BY DEF PrintLabel
  <1>. HIDE DEF row
  <1>. QED
    BY <1>1, <1>2, <1>3, WriteKeepsLabels, JobGoesOn, QuietStep

LEMMA OrderStepsKeepLabels ==
    ASSUME IInv, LabelInv, NEW w \in Workers, ReadOrder(w) \/ SaveOrder(w) \/ HasLabel(w)
    PROVE  LabelInv'
  <1>1. job[w].pc # "idle" /\ JobsOk /\ UNCHANGED carrier /\ LabelsKept
    BY DEF ReadOrder, SaveOrder, HasLabel, At, IInv, providerVars, LabelsKept
  <1>2. CASE ReadOrder(w)
    <2>1. job \in [Workers -> Job] /\ job[w] \in Job
      BY <1>1 DEF JobsOk
    <2>2. JobKept(w)
      BY <1>2, <2>1 DEF ReadOrder, JobKept, Job
    <2>. QED
      BY <1>1, <2>2, QuietStep
  <1>3. CASE SaveOrder(w) \/ HasLabel(w)
    BY <1>1, <1>3, JobGoesOn, QuietStep DEF SaveOrder, HasLabel
  <1>. QED
    BY <1>2, <1>3

\* A worker that takes up the rows as they are.
LEMMA TakeUpKeepsLabels ==
    ASSUME IInv, LabelInv, NEW w \in Workers, NEW j, job' = [job EXCEPT ![w] = j],
           LabelsKept, Agrees(w, j, shipment'), UNCHANGED carrier
    PROVE  LabelInv'
  <1>1. ASSUME NEW v \in Workers
        PROVE  Agrees(v, job'[v], shipment')
    <2>1. job \in [Workers -> Job]
      BY DEF IInv, JobsOk
    <2>2. CASE v = w
      BY <2>1, <2>2
    <2>3. CASE v # w
      BY <2>1, <2>3, StillAgree
    <2>. QED
      BY <2>2, <2>3
  <1>. QED
    BY <1>1, RowsOfLabels DEF LabelInv, OneLabelPaid

LEMMA CreateKeepsLabels ==
    ASSUME IInv, LabelInv, NEW w \in Workers, CreateShipments(w)
    PROVE  LabelInv'
  <1>. DEFINE j == [Idle EXCEPT !.pc = "draft", !.copy = shipment]
  <1>1. /\ job' = [job EXCEPT ![w] = j] /\ UNCHANGED <<shipment, carrier>>
        /\ j.copy = shipment /\ w \in Managers
    BY DEF CreateShipments, Idle, providerVars
  <1>. HIDE DEF j
  <1>. QED
    BY <1>1, TakeUpKeepsLabels DEF Agrees, LabelsKept

LEMMA WebhookKeepsLabels ==
    ASSUME IInv, LabelInv, NEW w \in Workers, NEW e \in sent, HandleWebhook(w, e)
    PROVE  LabelInv'
  <1>1. CASE RowOf(e[1]) = {}
    <2>1. UNCHANGED <<shipment, job, carrier>>
      BY <1>1 DEF HandleWebhook, providerVars
    <2>. QED
      BY <2>1 DEF LabelInv, OneLabelPaid, RowOf, Agrees
  <1>2. CASE RowOf(e[1]) # {}
    <2>. DEFINE p == CHOOSE q \in RowOf(e[1]) : TRUE
                row == Apply(shipment[p], e[2])
                j == [Idle EXCEPT !.pc = "sync", !.package = p, !.copy = shipment',
                                  !.event = e[2]]
    <2>1. p \in Packages /\ shipment[p] \in ShipmentRow
      BY <1>2 DEF RowOf, IInv, RowsOk
    <2>2. /\ shipment' = [shipment EXCEPT ![p] = row] /\ job' = [job EXCEPT ![w] = j]
          /\ UNCHANGED carrier
      BY <1>2 DEF HandleWebhook, providerVars
    <2>3. row.label = shipment[p].label
      BY <2>1 DEF Apply, ShipmentRow
    <2>4. j.copy = shipment' /\ j.package = p
      BY DEF Idle
    <2>. HIDE DEF p, row, j
    <2>5. LabelsKept
      BY <2>1, <2>2, <2>3 DEF LabelsKept, IInv, RowsOk
    <2>. QED
      BY <2>2, <2>4, <2>5, TakeUpKeepsLabels DEF Agrees
  <1>. QED
    BY <1>1, <1>2

LEMMA CompleteKeepsLabels ==
    ASSUME IInv, LabelInv, NEW w \in Workers, NEW l \in Labels, CompleteReleasedShipment(w, l)
    PROVE  LabelInv'
  <1>1. PICK p \in RowOf(l) :
            /\ shipment' = [shipment EXCEPT ![p].status = "released", ![p].paid = TRUE]
            /\ job' = [job EXCEPT ![w] = [Idle EXCEPT !.pc = "generate", !.package = p,
                                                      !.copy = shipment']]
    BY DEF CompleteReleasedShipment
  <1>. DEFINE j == [Idle EXCEPT !.pc = "generate", !.package = p, !.copy = shipment']
  <1>2. p \in Packages /\ shipment \in [Packages -> ShipmentRow] /\ UNCHANGED carrier
    BY <1>1 DEF RowOf, IInv, RowsOk, CompleteReleasedShipment, providerVars
  <1>3. LabelsKept
    BY <1>1, <1>2 DEF LabelsKept, ShipmentRow
  <1>4. job' = [job EXCEPT ![w] = j] /\ j.copy = shipment' /\ j.package = p
    BY <1>1 DEF Idle
  <1>. HIDE DEF j
  <1>. QED
    BY <1>2, <1>3, <1>4, TakeUpKeepsLabels DEF Agrees

LEMMA ParcelKeepsLabels ==
    ASSUME IInv, LabelInv, NEW l \in Labels, ParcelMoves(l)
    PROVE  LabelInv'
  <1>1. UNCHANGED <<shipment, job>>
    BY DEF ParcelMoves
  <1>2. ASSUME NEW k \in Labels, Rank(carrier'[k]) >= 2
        PROVE  Rank(carrier[k]) >= 2
    BY <1>2, RankValues DEF ParcelMoves, Moves, IInv, CarrierOk
  <1>. QED
    BY <1>1, <1>2, RankValues DEF LabelInv, OneLabelPaid, RowOf, Agrees

LEMMA LabelInvStep ==
    ASSUME OneManager, IInv, LabelInv, [Next]_vars
    PROVE  LabelInv'
  <1>1. CASE UNCHANGED <<shipment, carrier, job>>
    BY <1>1 DEF LabelInv, OneLabelPaid, RowOf, Agrees
  <1>2. ASSUME NEW w \in Workers, WorkerStep(w)
        PROVE  LabelInv'
    <2>1. CASE SaveDraft(w) \/ PutInCart(w) \/ Buy(w)
      BY <2>1, DraftKeepsLabels, CartKeepsLabels, BuyKeepsLabels
    <2>2. CASE SaveBought(w) \/ SaveUnbought(w) \/ Generate(w)
      BY <2>2, SavesKeepLabels, GenerateKeepsLabels
    <2>3. CASE SaveGenerated(w) \/ PrintLabel(w)
      BY <2>3, GeneratedKeepsLabels, PrintKeepsLabels
    <2>4. CASE ReadOrder(w) \/ SaveOrder(w) \/ HasLabel(w)
      BY <2>4, OrderStepsKeepLabels
    <2>. QED
      BY <1>2, <2>1, <2>2, <2>3, <2>4 DEF WorkerStep
  <1>3. CASE UNCHANGED vars \/ EvaluatePaidOrder \/ ClearReview \/ CancelOrder
    BY <1>1, <1>3 DEF vars, providerVars, EvaluatePaidOrder, ClearReview, CancelOrder
  <1>4. ASSUME NEW stage \in ByHand, UpdateShipStage(stage)
        PROVE  LabelInv'
    BY <1>1, <1>4 DEF providerVars, UpdateShipStage
  <1>. QED
    BY <1>2, <1>3, <1>4, CreateKeepsLabels, WebhookKeepsLabels, CompleteKeepsLabels,
       ParcelKeepsLabels DEF Next

LEMMA LabelInvInit == Init => LabelInv
  BY RankValues DEF Init, LabelInv, OneLabelPaid, Agrees, Idle

LEMMA LabelsHold ==
    ASSUME OneManager
    PROVE  Spec => []LabelInv
  <1>1. IInv /\ LabelInv /\ [Next]_vars => LabelInv'
    BY LabelInvStep
  <1>. QED
    BY <1>1, Inductive, LabelInvInit, PTL DEF Spec

\* With one request of a manager at a time, and with webhooks and completions at any
\* moment of it, every label that was paid is the label of a package, whatever answers
\* are lost and however often the manager tries again.
THEOREM OneLabelPaidHolds ==
    ASSUME OneManager
    PROVE  Spec => []OneLabelPaid
  <1>1. LabelInv => OneLabelPaid
    BY DEF LabelInv
  <1>. QED
    BY <1>1, LabelsHold, PTL

-----------------------------------------------------------------------------
(* A delivery that was heard is recorded *)

Recording(w) == job[w].pc \in {"sync", "syncSave"} /\ job[w].event = "delivered"
Recorded == order.stage = 5 /\ order.delivered

\* The inductive invariant: a worker is about to record the delivery, or it was; and
\* a worker that saves the order read it as it is.
RecordInv ==
    /\ \A l \in Labels : <<l, "delivered">> \in seen => (\E w \in Workers : Recording(w)) \/ Recorded
    /\ \A w \in Workers : At(w, "syncSave") => job[w].read = order

\* A step that neither hears of a label nor touches the order.
LEMMA RecordingGoesOn ==
    ASSUME IInv, RecordInv, NEW w \in Workers, ~Recording(w), UNCHANGED <<order, seen>>,
           \A v \in Workers : v # w => job'[v] = job[v],
           job'[w].pc # "syncSave"
    PROVE  RecordInv'
  BY DEF RecordInv, Recording, Recorded, At

\* What a worker that goes on does to its program counter.
LEMMA JobsApart ==
    ASSUME JobsOk, NEW w \in Workers, NEW pc,
           Goto(w, pc) \/ End(w) \/ NextPackage(w) \/ (\E row : SaveRow(w, row, pc))
    PROVE  /\ \A v \in Workers : v # w => job'[v] = job[v]
           /\ job'[w].pc \in {pc, "idle", "draft"}
  <1>1. job \in [Workers -> Job] /\ job[w] \in Job
    BY DEF JobsOk
  <1>2. ASSUME NEW row, SaveRow(w, row, pc)
        PROVE  (\A v \in Workers : v # w => job'[v] = job[v]) /\ job'[w].pc = pc
    BY <1>1, <1>2 DEF SaveRow, Job
  <1>3. CASE Goto(w, pc)
    BY <1>1, <1>3 DEF Goto, Job
  <1>4. CASE End(w)
    BY <1>1, <1>4 DEF End, Idle
  <1>5. CASE NextPackage(w)
    <2>1. CASE w \in Managers /\ job[w].package < NPackages
      BY <1>1, <1>5, <2>1 DEF NextPackage, Job
    <2>2. CASE ~(w \in Managers /\ job[w].package < NPackages)
      BY <1>4, <1>5, <2>2 DEF NextPackage
    <2>. QED
      BY <2>1, <2>2
  <1>. QED
    BY <1>2, <1>3, <1>4, <1>5

LEMMA LabelWorkKeepsRecord ==
    ASSUME IInv, RecordInv, NEW w \in Workers,
           SaveDraft(w) \/ HasLabel(w) \/ PutInCart(w) \/ Buy(w) \/ SaveBought(w)
             \/ SaveUnbought(w) \/ PrintLabel(w) \/ Generate(w)
    PROVE  RecordInv'
  <1>1. JobsOk /\ UNCHANGED <<order, seen>> /\ ~Recording(w)
    BY DEF IInv, Recording, At, webhookVars, SaveDraft, HasLabel, PutInCart, Buy, SaveBought,
           SaveUnbought, PrintLabel, Generate
  <1>2. \E pc \in {"cart", "buy", "bought", "unbought", "generate", "generated", "print"} :
            Goto(w, pc) \/ End(w) \/ NextPackage(w) \/ (\E row : SaveRow(w, row, pc))
    <2>1. CASE SaveDraft(w) \/ HasLabel(w) \/ PutInCart(w)
      BY <2>1 DEF SaveDraft, HasLabel, PutInCart, SaveLabel
    <2>2. CASE Buy(w) \/ SaveBought(w) \/ SaveUnbought(w)
      BY <2>2 DEF Buy, SaveBought, SaveUnbought
    <2>3. CASE PrintLabel(w) \/ Generate(w)
      BY <2>3 DEF PrintLabel, Generate, SaveFailed
    <2>. QED
      BY <2>1, <2>2, <2>3
  <1>3. (\A v \in Workers : v # w => job'[v] = job[v]) /\ job'[w].pc # "syncSave"
    BY <1>1, <1>2, JobsApart
  <1>. QED
    BY <1>1, <1>3, RecordingGoesOn

LEMMA TakeUpKeepsRecord ==
    ASSUME IInv, RecordInv, NEW w \in Workers,
           CreateShipments(w) \/ SaveGenerated(w)
             \/ (\E l \in Labels : CompleteReleasedShipment(w, l))
    PROVE  RecordInv'
  <1>1. /\ job \in [Workers -> Job] /\ job[w] \in Job /\ UNCHANGED <<order, seen>>
        /\ ~Recording(w)
    BY DEF IInv, JobsOk, Recording, At, webhookVars, CreateShipments, SaveGenerated,
           CompleteReleasedShipment
  <1>2. (\A v \in Workers : v # w => job'[v] = job[v]) /\ job'[w].pc # "syncSave"
    <2>1. CASE CreateShipments(w)
      BY <1>1, <2>1 DEF CreateShipments, Idle
    <2>2. CASE SaveGenerated(w)
      BY <1>1, <2>2 DEF SaveGenerated, Job
    <2>3. CASE \E l \in Labels : CompleteReleasedShipment(w, l)
      BY <1>1, <2>3 DEF CompleteReleasedShipment, Idle
    <2>. QED
      BY <2>1, <2>2, <2>3
  <1>. QED
    BY <1>1, <1>2, RecordingGoesOn

\* The label of a delivery was paid: a row has it, and a worker takes the event up.
LEMMA WebhookKeepsRecord ==
    ASSUME IInv, LabelInv, RecordInv, NEW w \in Workers, NEW e \in sent, HandleWebhook(w, e)
    PROVE  RecordInv'
  <1>1. /\ e[1] \in Labels /\ e[2] \in States /\ e = <<e[1], e[2]>>
        /\ Rank(e[2]) \in 0 .. 5 /\ Rank(carrier[e[1]]) \in 0 .. 5
        /\ Rank(e[2]) >= 2 /\ Rank(carrier[e[1]]) >= Rank(e[2])
    BY RankValues DEF IInv, CarrierOk
  <1>2. RowOf(e[1]) # {}
    BY <1>1, RankValues DEF LabelInv, OneLabelPaid
  <1>. DEFINE p == CHOOSE q \in RowOf(e[1]) : TRUE
              j == [Idle EXCEPT !.pc = "sync", !.package = p, !.copy = shipment',
                                !.event = e[2]]
  <1>3. job' = [job EXCEPT ![w] = j] /\ seen' = seen \cup {e} /\ UNCHANGED order
        /\ job[w].pc = "idle" /\ job \in [Workers -> Job]
    BY <1>2 DEF HandleWebhook, At, IInv, JobsOk
  <1>4. j.pc = "sync" /\ j.event = e[2]
    BY DEF Idle
  <1>. HIDE DEF j
  <1>5. ASSUME NEW l \in Labels, <<l, "delivered">> \in seen'
        PROVE  (\E v \in Workers : Recording(v)') \/ Recorded'
    <2>1. CASE <<l, "delivered">> \in seen
      BY <1>3, <2>1 DEF RecordInv, Recording, Recorded
    <2>2. CASE <<l, "delivered">> = e
      BY <1>3, <1>4, <2>2 DEF Recording
    <2>. QED
      BY <1>3, <1>5, <2>1, <2>2
  <1>6. ASSUME NEW v \in Workers, At(v, "syncSave")'
        PROVE  job'[v].read = order'
    BY <1>3, <1>4, <1>6 DEF RecordInv, At
  <1>. QED
    BY <1>5, <1>6 DEF RecordInv

LEMMA ReadKeepsRecord ==
    ASSUME IInv, RecordInv, NEW w \in Workers, ReadOrder(w)
    PROVE  RecordInv'
  <1>. DEFINE j == [job[w] EXCEPT !.pc = "syncSave", !.read = order]
  <1>1. /\ job \in [Workers -> Job] /\ job[w] \in Job /\ job[w].pc = "sync"
        /\ UNCHANGED <<order, seen>>
    BY DEF IInv, JobsOk, ReadOrder, At, webhookVars
  <1>2. job' = [job EXCEPT ![w] = j]
    BY <1>1 DEF ReadOrder
  <1>3. j.pc = "syncSave" /\ j.event = job[w].event /\ j.read = order
    BY <1>1 DEF Job
  <1>. HIDE DEF j
  <1>4. \A v \in Workers : Recording(v) => Recording(v)'
    BY <1>1, <1>2, <1>3 DEF Recording
  <1>. QED
    BY <1>1, <1>2, <1>3, <1>4 DEF RecordInv, Recorded, At

\* A save of the order leaves it recorded when it was, and records a delivery.
LEMMA SyncedRecords ==
    ASSUME NEW read \in OrderRow, NEW event \in States,
           event = "delivered" \/ (read.stage = 5 /\ read.delivered)
    PROVE  Synced(read, event).stage = 5 /\ Synced(read, event).delivered
  <1>1. ShippingStageForEvent(read.stage, event) = 5
    BY DEF ShippingStageForEvent, OrderRow
  <1>. QED
    BY <1>1 DEF Synced, OrderRow

LEMMA SaveKeepsRecord ==
    ASSUME IInv, RecordInv, NEW w \in Workers, SaveOrder(w), OrderWritesApart
    PROVE  RecordInv'
  <1>1. /\ job \in [Workers -> Job] /\ job[w] \in Job /\ job[w].pc = "syncSave"
        /\ UNCHANGED seen /\ JobsOk
    BY DEF IInv, JobsOk, SaveOrder, At
  <1>2. (\A v \in Workers : v # w => job'[v] = job[v]) /\ job'[w].pc # "syncSave"
    BY <1>1, JobsApart DEF SaveOrder
  <1>3. order' = Synced(order, job[w].event)
    BY <1>1 DEF SaveOrder, Synced, RecordInv, At
  <1>4. order \in OrderRow /\ job[w].event \in States
    BY <1>1 DEF IInv, Job
  <1>5. ASSUME NEW v \in Workers, At(v, "syncSave")'
        PROVE  job'[v].read = order'
    BY <1>2, <1>5 DEF OrderWritesApart, RecordInv, At
  <1>6. ASSUME NEW l \in Labels, <<l, "delivered">> \in seen'
        PROVE  (\E v \in Workers : Recording(v)') \/ Recorded'
    <2>1. CASE Recorded \/ Recording(w)
      BY <1>3, <1>4, <2>1, SyncedRecords DEF Recorded, Recording
    <2>2. CASE \E v \in Workers : v # w /\ Recording(v)
      BY <1>2, <2>2 DEF Recording
    <2>. QED
      BY <1>1, <1>6, <2>1, <2>2 DEF RecordInv
  <1>. QED
    BY <1>5, <1>6 DEF RecordInv

\* The manager's writes of the order keep a delivery.
LEMMA ManualKeepsRecord ==
    ASSUME IInv, RecordInv, UNCHANGED <<seen, job>>, OrderWritesApart, Recorded => Recorded'
    PROVE  RecordInv'
  BY DEF RecordInv, Recording, At, OrderWritesApart

LEMMA RecordInvStep ==
    ASSUME IInv, LabelInv, RecordInv, [Next /\ OrderWritesApart]_vars
    PROVE  RecordInv'
  <1>1. CASE UNCHANGED vars
    BY <1>1 DEF vars, webhookVars, RecordInv, Recording, Recorded, At
  <1>. SUFFICES ASSUME Next, OrderWritesApart
                PROVE  RecordInv'
    BY <1>1
  <1>2. ASSUME NEW w \in Workers, WorkerStep(w)
        PROVE  RecordInv'
    BY <1>2, LabelWorkKeepsRecord, TakeUpKeepsRecord, ReadKeepsRecord, SaveKeepsRecord
       DEF WorkerStep
  <1>3. ASSUME NEW stage \in ByHand, UpdateShipStage(stage)
        PROVE  RecordInv'
    <2>1. ~Recorded /\ UNCHANGED <<seen, job>>
      BY <1>3, ShipmentsAssumption DEF UpdateShipStage, Recorded, webhookVars
    <2>. QED
      BY <2>1, ManualKeepsRecord
  <1>4. CASE EvaluatePaidOrder \/ ClearReview \/ CancelOrder
    <2>1. UNCHANGED <<seen, job>> /\ (Recorded => Recorded')
      BY <1>4 DEF EvaluatePaidOrder, ClearReview, CancelOrder, Recorded, webhookVars, IInv,
                  OrderRow
    <2>. QED
      BY <2>1, ManualKeepsRecord
  <1>5. ASSUME NEW l \in Labels, ParcelMoves(l)
        PROVE  RecordInv'
    BY <1>5 DEF ParcelMoves, webhookVars, RecordInv, Recording, Recorded, At
  <1>. QED
    BY <1>2, <1>3, <1>4, <1>5, TakeUpKeepsRecord, WebhookKeepsRecord DEF Next

\* With one request of a manager at a time, and with nothing writing the order between
\* the read and the save of one syncOrderShipping, a delivery that was heard of is in
\* the order as soon as no webhook is being applied, in whatever order the events come.
THEOREM DeliveredIsRecordedHolds ==
    ASSUME OneManager
    PROVE  CalmSpec => []DeliveredIsRecorded
  <1>1. Init => RecordInv
    BY DEF Init, RecordInv, At, Idle
  <1>2. IInv /\ LabelInv /\ RecordInv /\ [Next /\ OrderWritesApart]_vars => RecordInv'
    BY RecordInvStep
  <1>3. [Next /\ OrderWritesApart]_vars => [Next]_vars
    OBVIOUS
  <1>4. CalmSpec => Spec
    BY <1>3, PTL DEF CalmSpec, Spec
  <1>5. RecordInv => DeliveredIsRecorded
    BY DEF RecordInv, DeliveredIsRecorded, Recording, Recorded
  <1>. QED
    BY <1>1, <1>2, <1>4, <1>5, Inductive, LabelsHold, PTL DEF CalmSpec

=============================================================================
