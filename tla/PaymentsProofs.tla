---------------------------- MODULE PaymentsProofs ----------------------------
(***************************************************************************)
(* What Payments guarantees in the schedules without a lost update, for    *)
(* any number of requests and charges, any kinds of requests and any       *)
(* faults, and that it implements OrderLifecycle.  Then the money of the   *)
(* order: the credit of a canceled order is given back, only money that    *)
(* left the gateway is reported as refunded, a paid order has its money,   *)
(* every paid charge is accounted for, and a customer has one charge to    *)
(* pay.                                                                    *)
(***************************************************************************)
EXTENDS Payments, FiniteSetTheorems, TLAPS

CalmStep == Next /\ NoLostUpdate

-----------------------------------------------------------------------------
(* Types *)

LEMMA EmptyRow == NoRow \in Rows
  BY DEF NoRow, Rows

LEMMA IdleTask == Idle \in Tasks
  BY EmptyRow DEF Idle, Tasks, Pcs, Outcomes

LEMMA TypeInit == Init => TypeOK
  <1>. SUFFICES ASSUME Init PROVE TypeOK
    OBVIOUS
  <1>1. FirstCharge \in Charges
    BY PaymentsAssumption DEF FirstCharge
  <1>2. row \in Rows
    <2>1. CASE "checkout" \in Kinds
      BY <2>1, EmptyRow DEF Init
    <2>2. CASE "checkout" \notin Kinds
      <3>1. PICK credit \in BOOLEAN :
              row = [NoRow EXCEPT !.status = "pending", !.gateway = "asaas",
                                  !.charge = FirstCharge, !.credit = credit]
        BY <2>2 DEF Init
      <3>. QED
        BY <1>1, <3>1, EmptyRow DEF Rows
    <2>. QED
      BY <2>1, <2>2
  <1>3. charge \in [Charges -> Outcomes]
    BY DEF Init, Outcomes
  <1>4. task \in [Workers -> Tasks]
    BY IdleTask DEF Init
  <1>5. restocked \in BOOLEAN
    BY DEF Init
  <1>6. unitsOut = 0 /\ events = {}
    BY DEF Init
  <1>. QED
    BY <1>2, <1>3, <1>4, <1>5, <1>6, SMT DEF TypeOK

\* The tasks a step leaves behind, for the shapes the actions are made of.
LEMMA GotoType ==
  ASSUME task \in [Workers -> Tasks], NEW w \in Workers, NEW pc \in Pcs, Goto(w, pc)
  PROVE  task' \in [Workers -> Tasks]
  <1>1. Continue(task[w], pc) \in Tasks
    BY IdleTask DEF Continue, Tasks
  <1>. QED
    BY <1>1 DEF Goto

LEMMA EndWellType ==
  ASSUME TypeOK, NEW w \in Workers, EndWell(w)
  PROVE  /\ task' \in [Workers -> Tasks]
         /\ charge' \in [Charges -> Outcomes]
         /\ events' \subseteq Notified \X Charges
  <1>1. "idle" \in Pcs
    BY DEF Pcs
  <1>. QED
    BY <1>1, GotoType DEF EndWell, End, TypeOK

LEMMA NotifyType ==
  ASSUME events \subseteq Notified \X Charges, NEW c \in Charges, NEW e
  PROVE  Notify(e, c) \subseteq Notified \X Charges
  BY DEF Notify

LEMMA PostChargeType ==
  ASSUME TypeOK, NEW w \in Workers, NEW done \in Pcs, NEW failed \in Pcs,
         PostCharge(w, done, failed)
  PROVE  /\ task' \in [Workers -> Tasks]
         /\ charge' \in [Charges -> Outcomes]
         /\ events' \subseteq Notified \X Charges
  <1>1. CASE Goto(w, failed) /\ UNCHANGED gatewayVars
    BY <1>1, GotoType DEF TypeOK, gatewayVars
  <1>2. ASSUME NEW c \in Charges, NEW s \in {"open", "paid", "deleted"}, NEW heard,
               charge' = [charge EXCEPT ![c] = s],
               events' = IF s = "paid" THEN Notify("PAID", c) ELSE events,
               task' = [task EXCEPT ![w] =
                          IF heard THEN [@ EXCEPT !.pc = done, !.charge = c, !.outcome = s]
                          ELSE Continue(@, failed)]
        PROVE  /\ task' \in [Workers -> Tasks]
               /\ charge' \in [Charges -> Outcomes]
               /\ events' \subseteq Notified \X Charges
    <2>1. Continue(task[w], failed) \in Tasks
      BY IdleTask DEF Continue, Tasks, TypeOK
    <2>2. [task[w] EXCEPT !.pc = done, !.charge = c, !.outcome = s] \in Tasks
      BY DEF Tasks, TypeOK, Outcomes
    <2>. QED
      BY <1>2, <2>1, <2>2, NotifyType DEF TypeOK, Outcomes
  <1>. QED
    BY <1>1, <1>2 DEF PostCharge

LEMMA PostRefundType ==
  ASSUME TypeOK, NEW w \in Workers, NEW done \in Pcs, NEW failed \in Pcs, NEW c \in Charges,
         PostRefund(w, c, done, failed)
  PROVE  /\ task' \in [Workers -> Tasks]
         /\ charge' \in [Charges -> Outcomes]
         /\ events' \subseteq Notified \X Charges
  <1>1. CASE Goto(w, failed) /\ UNCHANGED gatewayVars
    BY <1>1, GotoType DEF TypeOK, gatewayVars
  <1>2. ASSUME NEW s \in {"refunding", "refunded"}, NEW heard,
               charge' = [charge EXCEPT ![c] = s],
               events' = IF s = "refunded" THEN Notify("REFUNDED", c) ELSE events,
               task' = [task EXCEPT ![w] =
                          IF heard THEN [@ EXCEPT !.pc = done, !.outcome = s]
                          ELSE Continue(@, failed)]
        PROVE  /\ task' \in [Workers -> Tasks]
               /\ charge' \in [Charges -> Outcomes]
               /\ events' \subseteq Notified \X Charges
    <2>1. Continue(task[w], failed) \in Tasks
      BY IdleTask DEF Continue, Tasks, TypeOK
    <2>2. [task[w] EXCEPT !.pc = done, !.outcome = s] \in Tasks
      BY DEF Tasks, TypeOK, Outcomes
    <2>. QED
      BY <1>2, <2>1, <2>2, NotifyType DEF TypeOK, Outcomes
  <1>. QED
    BY <1>1, <1>2 DEF PostRefund

LEMMA BeginType ==
  ASSUME TypeOK, NEW w \in Workers, NEW kind \in AllKinds \cup Events, NEW pc \in Pcs,
         NEW mine \in Rows, NEW c \in Charges \cup {None}, NEW outcome \in Outcomes,
         Begin(w, kind, pc, mine, c, outcome)
  PROVE  task' \in [Workers -> Tasks]
  BY DEF Begin, Tasks, TypeOK

\* A charge is known where the code is about to ask the gateway for it.
ChargesKnown ==
    \A w \in Workers :
        /\ task[w].pc = "refundPaid" => task[w].mine.charge \in Charges
        /\ task[w].pc \in {"delete", "poll"} => task[w].charge \in Charges

\* One worker goes on; the others stay where they are.
LEMMA OthersStay ==
  ASSUME task \in [Workers -> Tasks], NEW w \in Workers, NEW t, task' = [task EXCEPT ![w] = t]
  PROVE  /\ task'[w] = t
         /\ \A v \in Workers \ {w} : task'[v] = task[v]
  OBVIOUS

TypeInv == TypeOK /\ ChargesKnown

LEMMA TypeStep == TypeInv /\ [Next]_vars => TypeOK'
  <1>. SUFFICES ASSUME TypeOK, ChargesKnown, [Next]_vars PROVE TypeOK'
    BY DEF TypeInv
  <1>. USE DEF inventoryVars, gatewayVars
  <1>0. /\ row \in Rows /\ task \in [Workers -> Tasks] /\ unitsOut \in Int
        /\ restocked \in BOOLEAN /\ charge \in [Charges -> Outcomes]
        /\ events \subseteq Notified \X Charges
    BY DEF TypeOK
  <1>1. CASE UNCHANGED vars
    BY <1>1 DEF vars, TypeOK
  <1>2. ASSUME NEW w \in Workers, Checkout(w)
        PROVE  TypeOK'
    <2>1. PICK credit \in BOOLEAN, free \in BOOLEAN :
            /\ row' = [NoRow EXCEPT !.status = "pending", !.credit = credit]
            /\ Begin(w, "checkout", IF free THEN "free" ELSE "post", NoRow, None, "none")
      BY <1>2 DEF Checkout
    <2>2. row' \in Rows
      BY <2>1, EmptyRow DEF Rows
    <2>3. task' \in [Workers -> Tasks]
      BY <2>1, EmptyRow, BeginType DEF AllKinds, Pcs, Outcomes
    <2>. QED
      BY <1>0, <1>2, <2>2, <2>3 DEF Checkout, TypeOK
  <1>3. ASSUME NEW w \in Workers, Post(w) \/ Repost(w)
        PROVE  TypeOK'
    BY <1>0, <1>3, PostChargeType DEF Post, Repost, Pcs, TypeOK
  <1>4. ASSUME NEW w \in Workers, RefundPaid(w)
        PROVE  TypeOK'
    <2>1. task[w].mine.charge \in Charges
      BY <1>4 DEF RefundPaid, At, ChargesKnown
    <2>2. "restock" \in Pcs /\ "idle" \in Pcs
      BY DEF Pcs
    <2>. QED
      BY <1>0, <1>4, <2>1, <2>2, PostRefundType DEF RefundPaid, TypeOK
  <1>5. ASSUME NEW w \in Workers, RefundStockConflict(w)
        PROVE  TypeOK'
    <2>1. "mark" \in Pcs /\ "unclaim" \in Pcs /\ task[w].mine.charge \in Charges \cup {None}
      BY <1>0 DEF Pcs, Tasks, Rows
    <2>2. /\ task' \in [Workers -> Tasks] /\ charge' \in [Charges -> Outcomes]
          /\ events' \subseteq Notified \X Charges
      BY <1>0, <1>5, <2>1, PostRefundType, GotoType DEF RefundStockConflict
    <2>. QED
      BY <1>0, <1>5, <2>2 DEF RefundStockConflict, TypeOK
  <1>6. ASSUME NEW w \in Workers, Link(w)
        PROVE  TypeOK'
    <2>1. "idle" \in Pcs /\ "save" \in Pcs /\ "paid" \in Outcomes
      BY DEF Pcs, Outcomes
    <2>2. task' \in [Workers -> Tasks]
      <3>1. CASE End(w)
        BY <1>0, <2>1, <3>1, GotoType DEF End
      <3>3. /\ [row EXCEPT !.gateway = "asaas", !.charge = task[w].charge] \in Rows
            /\ [row EXCEPT !.gateway = "store_credit"] \in Rows
            /\ task[w].outcome \in Outcomes
        BY <1>0 DEF Rows, Tasks
      <3>4. CASE task' = [task EXCEPT ![w].pc = "save",
                     ![w].mine = [row EXCEPT !.gateway = "asaas", !.charge = task[w].charge]]
        BY <1>0, <2>1, <3>3, <3>4 DEF Tasks
      <3>5. CASE task' = [task EXCEPT ![w].pc = "save", ![w].outcome = "paid",
                     ![w].mine = [row EXCEPT !.gateway = "store_credit"]]
        <4>1. [task[w] EXCEPT !.pc = "save", !.outcome = "paid",
                              !.mine = [row EXCEPT !.gateway = "store_credit"]] \in Tasks
          BY <1>0, <2>1, <3>3 DEF Tasks
        <4>2. task' = [task EXCEPT ![w] =
                [task[w] EXCEPT !.pc = "save", !.outcome = "paid",
                                !.mine = [row EXCEPT !.gateway = "store_credit"]]]
          BY <1>0, <3>5
        <4>. QED
          BY <1>0, <4>1, <4>2
      <3>. QED
        BY <1>6, <3>1, <3>4, <3>5 DEF Link
    <2>. QED
      BY <1>0, <1>6, <2>2 DEF Link, TypeOK
  <1>7. ASSUME NEW w \in Workers, Save(w) \/ Rollback(w) \/ Remove(w) \/ CancelPendingOrder(w)
                                  \/ Relink(w)
        PROVE  TypeOK'
    <2>1. {"pay", "drop", "idle", "remove", "credit"} \subseteq Pcs
      BY DEF Pcs
    <2>2. task[w].mine \in Rows /\ task[w].charge \in Charges \cup {None}
      BY <1>0 DEF Tasks
    <2>3. task' \in [Workers -> Tasks]
      BY <1>0, <1>7, <2>1, GotoType
         DEF Save, Rollback, Remove, CancelPendingOrder, Relink, End
    <2>4. row' \in Rows
      <3>1. /\ [row EXCEPT !.status = "canceled", !.payment = "failed"] \in Rows
            /\ [NoRow EXCEPT !.status = "deleted"] \in Rows
        BY <1>0, EmptyRow DEF Rows
      <3>7. ASSUME NEW mine \in Rows, NEW c \in Charges \cup {None}
            PROVE  [mine EXCEPT !.charge = c] \in Rows
        BY DEF Rows
      <3>2. CASE Save(w)
        BY <2>2, <3>2 DEF Save
      <3>3. CASE Rollback(w)
        BY <1>0, <3>1, <3>3 DEF Rollback
      <3>4. CASE Remove(w)
        BY <3>1, <3>4 DEF Remove
      <3>5. CASE CancelPendingOrder(w)
        BY <1>0, <3>1, <3>5 DEF CancelPendingOrder
      <3>6. CASE Relink(w)
        BY <1>0, <2>2, <3>7, <3>6 DEF Relink
      <3>. QED
        BY <1>7, <3>2, <3>3, <3>4, <3>5, <3>6
    <2>. QED
      BY <1>0, <1>7, <2>3, <2>4 DEF Save, Rollback, Remove, CancelPendingOrder, Relink, TypeOK
  <1>8. ASSUME NEW w \in Workers, MarkOrderPaid(w)
        PROVE  TypeOK'
    <2>1. /\ "idle" \in Pcs /\ "claim" \in Pcs
          /\ task[w].charge \in Charges \cup {None}
      BY <1>0 DEF Pcs, Tasks
    <2>2. /\ [row EXCEPT !.status = "paid", !.payment = "confirmed",
                 !.charge = IF task[w].charge = None THEN @ ELSE task[w].charge] \in Rows
          /\ [row EXCEPT !.status = "stock_conflict", !.payment = "refund_pending",
                 !.charge = IF task[w].charge = None THEN @ ELSE task[w].charge] \in Rows
      BY <1>0, <2>1 DEF Rows
    <2>3. /\ row' \in Rows /\ unitsOut' \in Int
          /\ task' \in [Workers -> Tasks] /\ charge' \in [Charges -> Outcomes]
          /\ events' \subseteq Notified \X Charges
      <3>1. CASE EndWell(w) /\ UNCHANGED <<row, unitsOut>>
        BY <1>0, <3>1, EndWellType
      <3>2. CASE CommitOrder(w)
        BY <1>0, <2>2, <3>2, EndWellType DEF CommitOrder
      <3>3. CASE ConflictOrder(w)
        <4>1. row' \in Rows /\ unitsOut' \in Int /\ UNCHANGED gatewayVars
          BY <1>0, <2>2, <3>3 DEF ConflictOrder
        <4>2. [task[w] EXCEPT !.pc = "claim", !.mine = row'] \in Tasks
          BY <1>0, <2>1, <4>1 DEF Tasks
        <4>3. task' = [task EXCEPT ![w] = [task[w] EXCEPT !.pc = "claim", !.mine = row']]
          BY <1>0, <3>3 DEF ConflictOrder
        <4>. QED
          BY <1>0, <4>1, <4>2, <4>3
      <3>4. CASE task' = [task EXCEPT ![w].pc = "claim", ![w].mine = row]
                 /\ UNCHANGED <<row, unitsOut, gatewayVars>>
        BY <1>0, <2>1, <3>4 DEF Tasks
      <3>5. CASE End(w) /\ UNCHANGED <<row, unitsOut, gatewayVars>>
        BY <1>0, <2>1, <3>5, GotoType DEF End
      <3>. QED
        BY <1>8, <3>1, <3>2, <3>3, <3>4, <3>5 DEF MarkOrderPaid
    <2>. QED
      BY <1>0, <1>8, <2>3 DEF MarkOrderPaid, TypeOK
  <1>9. ASSUME NEW w \in Workers, ClaimStockConflictRefund(w) \/ MarkConflictRefunded(w)
                                  \/ ReleaseClaim(w) \/ MarkRefunded(w)
        PROVE  TypeOK'
    <2>1. {"claimCredit", "refund", "unclaim", "idle"} \subseteq Pcs
      BY DEF Pcs
    <2>2. /\ [row EXCEPT !.claimed = TRUE] \in Rows /\ [row EXCEPT !.claimed = FALSE] \in Rows
          /\ [row EXCEPT !.payment = "refunded"] \in Rows
      BY <1>0 DEF Rows
    <2>3. row' \in Rows
      BY <1>0, <1>9, <2>2 DEF ClaimStockConflictRefund, MarkConflictRefunded, ReleaseClaim,
                              MarkRefunded
    <2>4. /\ task' \in [Workers -> Tasks] /\ charge' \in [Charges -> Outcomes]
          /\ events' \subseteq Notified \X Charges
      BY <1>0, <1>9, <2>1, GotoType, EndWellType
         DEF ClaimStockConflictRefund, MarkConflictRefunded, ReleaseClaim, MarkRefunded
    <2>. QED
      BY <1>0, <1>9, <2>3, <2>4
         DEF ClaimStockConflictRefund, MarkConflictRefunded, ReleaseClaim, MarkRefunded, TypeOK
  <1>10. ASSUME NEW w \in Workers, ReleaseStoreCredit(w)
         PROVE  TypeOK'
    <2>1. ASSUME NEW from, NEW to \in Pcs, NEW after \in Pcs, ReadCredit(w, from, to, after)
          PROVE  TypeOK'
      <3>1. task' \in [Workers -> Tasks] /\ charge' \in [Charges -> Outcomes]
            /\ events' \subseteq Notified \X Charges
        <4>1. CASE Exists /\ row.credit
          BY <1>0, <2>1, <4>1 DEF ReadCredit, Tasks
        <4>2. CASE ~(Exists /\ row.credit)
          BY <1>0, <2>1, <4>2, GotoType, EndWellType DEF ReadCredit
        <4>. QED
          BY <4>1, <4>2
      <3>. QED
        BY <1>0, <2>1, <3>1 DEF ReadCredit, TypeOK
    <2>2. ASSUME NEW from, NEW after \in Pcs, SaveCredit(w, from, after)
          PROVE  TypeOK'
      <3>1. row' \in Rows
        BY <1>0, <2>2 DEF SaveCredit, Tasks, Rows
      <3>2. task' \in [Workers -> Tasks] /\ charge' \in [Charges -> Outcomes]
            /\ events' \subseteq Notified \X Charges
        BY <1>0, <2>2, GotoType, EndWellType DEF SaveCredit
      <3>. QED
        BY <1>0, <2>2, <3>1, <3>2 DEF SaveCredit, TypeOK
    <2>3. {"claimCreditSave", "refund", "creditSave", "idle"} \subseteq Pcs
      BY DEF Pcs
    <2>. QED
      BY <1>10, <2>1, <2>2, <2>3 DEF ReleaseStoreCredit
  <1>11. ASSUME NEW w \in Workers, IgnoreWebhook(w)
         PROVE  TypeOK'
    BY <1>0, <1>11 DEF IgnoreWebhook, TypeOK
  <1>12. ASSUME NEW w \in Workers, Webhook(w)
         PROVE  TypeOK'
    <2>1. PICK e \in Events, c \in Charges :
            \/ Begin(w, e, "pay", row, c, "none")
            \/ Begin(w, e, "hookRefunded", row, c, "none")
            \/ Begin(w, e, "save", [row EXCEPT !.charge = c], c, "deleted")
      BY <1>12 DEF Webhook
    <2>2. [row EXCEPT !.charge = c] \in Rows
      BY <1>0 DEF Rows
    <2>3. {"pay", "hookRefunded", "save"} \subseteq Pcs /\ {"none", "deleted"} \subseteq Outcomes
      BY DEF Pcs, Outcomes
    <2>4. task' \in [Workers -> Tasks]
      BY <1>0, <2>1, <2>2, <2>3, BeginType
    <2>. QED
      BY <1>0, <1>12, <2>4 DEF Webhook, TypeOK
  <1>13. ASSUME NEW w \in Workers, Status(w) \/ Switch(w)
         PROVE  TypeOK'
    <2>1. {"poll", "delete"} \subseteq Pcs /\ "none" \in Outcomes
          /\ {"status", "switch"} \subseteq AllKinds /\ row.charge \in Charges \cup {None}
      BY <1>0 DEF Pcs, Outcomes, AllKinds, Rows
    <2>2. task' \in [Workers -> Tasks]
      BY <1>0, <1>13, <2>1, BeginType DEF Status, Switch
    <2>. QED
      BY <1>0, <1>13, <2>2 DEF Status, Switch, TypeOK
  <1>14. ASSUME NEW w \in Workers, Poll(w)
         PROVE  TypeOK'
    <2>1. {"pay", "save", "idle"} \subseteq Pcs /\ "deleted" \in Outcomes
      BY DEF Pcs, Outcomes
    <2>2. CASE task' = [task EXCEPT ![w].pc = "save", ![w].outcome = "deleted"]
      BY <1>0, <1>14, <2>1, <2>2 DEF Poll, Tasks, TypeOK
    <2>3. CASE Goto(w, "pay") \/ End(w)
      BY <1>0, <1>14, <2>1, <2>3, GotoType DEF Poll, End, TypeOK
    <2>. QED
      BY <1>14, <2>2, <2>3 DEF Poll
  <1>15. ASSUME NEW w \in Workers, DeleteCharge(w)
         PROVE  TypeOK'
    <2>1. task[w].charge \in Charges
      BY <1>15 DEF DeleteCharge, At, ChargesKnown
    <2>2. {"repost", "idle"} \subseteq Pcs /\ "deleted" \in Outcomes
      BY DEF Pcs, Outcomes
    <2>3. task' \in [Workers -> Tasks]
      BY <1>0, <1>15, <2>2, GotoType DEF DeleteCharge, End
    <2>4. charge' \in [Charges -> Outcomes] /\ events' \subseteq Notified \X Charges
      BY <1>0, <1>15, <2>1, <2>2, NotifyType DEF DeleteCharge
    <2>. QED
      BY <1>0, <1>15, <2>3, <2>4 DEF DeleteCharge, TypeOK
  <1>16. ASSUME NEW w \in Workers, NEW kind \in {"cancel", "manual"}, Cancel(w, kind)
         PROVE  TypeOK'
    <2>1. {"restock", "refundPaid"} \subseteq Pcs /\ kind \in AllKinds
          /\ {"none", "refunded", "refunding"} \subseteq Outcomes
          /\ row.charge \in Charges \cup {None}
      BY <1>0 DEF Pcs, Outcomes, AllKinds, Rows
    <2>2. task' \in [Workers -> Tasks]
      BY <1>0, <1>16, <2>1, BeginType DEF Cancel
    <2>. QED
      BY <1>0, <1>16, <2>2 DEF Cancel, TypeOK
  <1>17. ASSUME NEW w \in Workers, RestockCanceledOrder(w)
         PROVE  TypeOK'
    <2>1. {"credit", "idle"} \subseteq Pcs
      BY DEF Pcs
    <2>2. task' \in [Workers -> Tasks]
      BY <1>0, <1>17, <2>1, GotoType DEF RestockCanceledOrder, End
    <2>3. row' \in Rows
      BY <1>0, <1>17 DEF RestockCanceledOrder, Rows
    <2>4. unitsOut' \in Int
      BY <1>0, <1>17 DEF RestockCanceledOrder
    <2>5. restocked' \in BOOLEAN
      BY <1>0, <1>17 DEF RestockCanceledOrder
    <2>. QED
      BY <1>0, <1>17, <2>2, <2>3, <2>4, <2>5 DEF RestockCanceledOrder, TypeOK
  <1>18. ASSUME NEW w \in Workers, DeleteOrder(w)
         PROVE  TypeOK'
    <2>1. "remove" \in Pcs /\ "delete" \in AllKinds /\ "none" \in Outcomes
          /\ row.charge \in Charges \cup {None}
      BY <1>0 DEF Pcs, Outcomes, AllKinds, Rows
    <2>2. task' \in [Workers -> Tasks]
      BY <1>0, <1>18, <2>1, BeginType DEF DeleteOrder
    <2>3. row' \in Rows
      BY <1>0, <1>18 DEF DeleteOrder, Rows
    <2>. QED
      BY <1>0, <1>18, <2>2, <2>3 DEF DeleteOrder, TypeOK
  <1>19. ASSUME NEW c \in Charges, CustomerPays(c) \/ RefundSettles(c) \/ PanelRefund(c)
                                    \/ PanelDelete(c)
         PROVE  TypeOK'
    BY <1>0, <1>19, NotifyType
       DEF CustomerPays, RefundSettles, PanelRefund, PanelDelete, GatewayStep, Outcomes, TypeOK
  <1>20. CASE ExpireOrder
    <2>1. row' \in Rows
      BY <1>0, <1>20 DEF ExpireOrder, Rows
    <2>. QED
      BY <1>0, <1>20, <2>1 DEF ExpireOrder, TypeOK
  <1>21. CASE Crash
    BY <1>0, <1>21, IdleTask DEF Crash, TypeOK
  <1>. QED
    BY <1>1, <1>2, <1>3, <1>4, <1>5, <1>6, <1>7, <1>8, <1>9, <1>10, <1>11, <1>12, <1>13, <1>14,
       <1>15, <1>16, <1>17, <1>18, <1>19, <1>20, <1>21 DEF Next

-----------------------------------------------------------------------------
(* The inductive invariant of the calm schedules *)

Refunding(w) == task[w].pc \in {"claimCredit", "claimCreditSave", "refund", "mark", "unclaim"}

Undoing(w) == task[w].pc \in {"refundPaid", "restock"}

\* Whoever refunds a conflict is alone, and the row says so while it is there.
Claims ==
    /\ \A v, w \in Workers : Refunding(v) /\ Refunding(w) => v = w
    /\ \A w \in Workers : Refunding(w) => row.status # "absent" /\ (Exists => row.claimed)

Dead == {"canceled", "deleted"}
Final == Dead \cup {"stock_conflict"}

\* The lock of the order is held once; it keeps the order paid under the request
\* that puts its units back; what was put back, or is removed, is never sold.
Units ==
    /\ \A v, w \in Workers : task[v].kind \in Locking /\ task[w].kind \in Locking => v = w
    /\ \A w \in Workers : Undoing(w) => task[w].kind \in Locking /\ row.status = "paid"
    /\ \A w \in Workers : At(w, "remove") => row.status \in Final
    /\ restocked => row.status \in Dead
    /\ UnitsMatchStatus

CalmInv == TypeInv /\ Claims /\ Units

\* What most steps do to the row, ...
RowCalm ==
    /\ row'.status = "absent" => row.status = "absent"
    /\ Exists' => Exists /\ (row.claimed => row'.claimed)
    /\ row'.status = "paid" <=> row.status = "paid"
    /\ row.status \in Dead => row'.status \in Dead
    /\ row.status \in Final => row'.status \in Final
    /\ UNCHANGED inventoryVars

\* ... and to the task of their worker.
TaskCalm(w) ==
    /\ \A v \in Workers \ {w} : task'[v] = task[v]
    /\ task'[w].kind \in Locking => task[w].kind \in Locking \/ LockFree(task'[w].kind)
    /\ Refunding(w)' => Refunding(w)
    /\ Undoing(w)' => task'[w].kind \in Locking /\ row.status = "paid"
    /\ At(w, "remove")' => row'.status \in Final
    /\ task'[w].pc = "refundPaid" => task'[w].mine.charge \in Charges
    /\ task'[w].pc \in {"delete", "poll"} => task'[w].charge \in Charges

LEMMA CalmKeeps ==
  ASSUME CalmInv, NEW w \in Workers, RowCalm, TaskCalm(w)
  PROVE  ChargesKnown' /\ Claims' /\ Units'
  <1>. USE DEF CalmInv
  <1>1. ChargesKnown'
    BY DEF TypeInv, ChargesKnown, TaskCalm
  <1>2. Claims'
    <2>1. \A v \in Workers : Refunding(v)' => Refunding(v)
      BY DEF TaskCalm, Refunding
    <2>. QED
      BY <2>1 DEF Claims, RowCalm
  <1>3. Units'
    <2>1. \A u, v \in Workers : task'[u].kind \in Locking /\ task'[v].kind \in Locking => u = v
      BY DEF TaskCalm, Units, LockFree
    <2>2. \A v \in Workers : Undoing(v)' => task'[v].kind \in Locking /\ row'.status = "paid"
      BY DEF TaskCalm, RowCalm, Units, Undoing
    <2>3. \A v \in Workers : At(v, "remove")' => row'.status \in Final
      BY DEF TaskCalm, RowCalm, Units, At
    <2>4. restocked' => row'.status \in Dead
      BY DEF RowCalm, Units, inventoryVars
    <2>5. UnitsMatchStatus'
      BY DEF RowCalm, Units, inventoryVars, UnitsMatchStatus
    <2>. QED
      BY <2>1, <2>2, <2>3, <2>4, <2>5 DEF Units
  <1>. QED
    BY <1>1, <1>2, <1>3

\* A row that keeps its status and its claim is calm.
LEMMA SameRow ==
  ASSUME row'.status = row.status, row'.claimed = row.claimed, UNCHANGED inventoryVars
  PROVE  RowCalm
  BY DEF RowCalm, Exists

\* A worker that goes on where nothing is at stake is calm.
LEMMA GotoCalm ==
  ASSUME TypeOK, NEW w \in Workers, NEW pc, Goto(w, pc),
         pc \notin {"refundPaid", "restock", "delete", "poll"},
         pc = "remove" => row'.status \in Final,
         pc \in {"claimCredit", "claimCreditSave", "refund", "mark", "unclaim"} => Refunding(w)
  PROVE  TaskCalm(w)
  <1>1. \A v \in Workers \ {w} : task'[v] = task[v]
    BY DEF Goto, TypeOK
  <1>2. task'[w] = Continue(task[w], pc)
    BY DEF Goto, TypeOK
  <1>3. CASE pc = "idle"
    BY <1>1, <1>2, <1>3 DEF TaskCalm, Continue, Idle, Refunding, Undoing, At, Locking
  <1>4. CASE pc # "idle"
    <2>1. task'[w].pc = pc /\ task'[w].kind = task[w].kind
      BY <1>2, <1>4 DEF Continue, Tasks, TypeOK
    <2>. QED
      BY <1>1, <2>1 DEF TaskCalm, Refunding, Undoing, At
  <1>. QED
    BY <1>3, <1>4

\* A task that changes what it knows, and goes on where nothing is at stake.
LEMMA TaskCalmAt ==
  ASSUME NEW w \in Workers, NEW t, task \in [Workers -> Tasks], task' = [task EXCEPT ![w] = t],
         t.kind = task[w].kind,
         t.pc \notin {"refundPaid", "restock", "delete", "poll", "remove"},
         t.pc \in {"claimCredit", "claimCreditSave", "refund", "mark", "unclaim"} => Refunding(w)
  PROVE  TaskCalm(w)
  BY DEF TaskCalm, Refunding, Undoing, At

\* The requests that begin hold the lock if they need it.
LEMMA BeginCalm ==
  ASSUME TypeOK, NEW w \in Workers, NEW kind, NEW pc, NEW mine, NEW c, NEW outcome,
         Begin(w, kind, pc, mine, c, outcome),
         pc \notin {"claimCredit", "claimCreditSave", "refund", "mark", "unclaim"},
         pc \in {"refundPaid", "restock"} => kind \in Locking /\ row.status = "paid",
         pc = "remove" => row'.status \in Final,
         pc = "refundPaid" => mine.charge \in Charges,
         pc \in {"delete", "poll"} => c \in Charges
  PROVE  TaskCalm(w)
  BY DEF Begin, TaskCalm, Refunding, Undoing, At, TypeOK

\* A save of a calm schedule writes the status and the claim that are there.
LEMMA SaveKeeps ==
  ASSUME TypeOK, NoLostUpdate, NEW w \in Workers,
         task[w].pc \in {"save", "claimCreditSave", "creditSave", "relink"},
         task'[w] # task[w], UNCHANGED inventoryVars,
         row'.status = task[w].mine.status, row'.claimed = task[w].mine.claimed
  PROVE  RowCalm
  <1>1. CASE row' = row
    BY <1>1, SameRow
  <1>2. CASE row' # row
    <2>1. row = [task[w].mine EXCEPT !.charge = row.charge, !.gateway = row.gateway]
      BY <1>2 DEF NoLostUpdate
    <2>2. task[w].mine \in Rows
      BY DEF TypeOK, Tasks
    <2>3. row.status = task[w].mine.status /\ row.claimed = task[w].mine.claimed
      BY <2>1, <2>2 DEF Rows
    <2>. QED
      BY <2>3, SameRow
  <1>. QED
    BY <1>1, <1>2

LEMMA GotoMoves ==
  ASSUME TypeOK, NEW w \in Workers, NEW pc, Goto(w, pc), task[w].pc # pc
  PROVE  task'[w] # task[w]
  <1>1. task'[w] = Continue(task[w], pc)
    BY DEF Goto, TypeOK
  <1>2. task'[w].pc = pc
    BY <1>1 DEF Continue, Idle, TypeOK, Tasks
  <1>. QED
    BY <1>2

LEMMA PostChargeCalm ==
  ASSUME TypeOK, NEW w \in Workers, NEW done, NEW failed, PostCharge(w, done, failed),
         done \in {"link", "relink"}, failed \in {"rollback", "idle"}
  PROVE  TaskCalm(w)
  <1>1. CASE Goto(w, failed)
    BY <1>1, GotoCalm
  <1>2. ASSUME NEW c \in Charges, NEW s, NEW heard,
               task' = [task EXCEPT ![w] =
                          IF heard THEN [@ EXCEPT !.pc = done, !.charge = c, !.outcome = s]
                          ELSE Continue(@, failed)]
        PROVE  TaskCalm(w)
    <2>1. CASE heard
      <3>1. task' = [task EXCEPT ![w] =
                        [task[w] EXCEPT !.pc = done, !.charge = c, !.outcome = s]]
        BY <1>2, <2>1
      <3>2. /\ [task[w] EXCEPT !.pc = done, !.charge = c, !.outcome = s].kind = task[w].kind
            /\ [task[w] EXCEPT !.pc = done, !.charge = c, !.outcome = s].pc = done
        BY DEF TypeOK, Tasks
      <3>. QED
        BY <3>1, <3>2, TaskCalmAt DEF TypeOK
    <2>2. CASE ~heard
      <3>1. Goto(w, failed)
        BY <1>2, <2>2 DEF Goto
      <3>. QED
        BY <3>1, GotoCalm
    <2>. QED
      BY <2>1, <2>2
  <1>. QED
    BY <1>1, <1>2 DEF PostCharge

LEMMA PostRefundCalm ==
  ASSUME TypeOK, NEW w \in Workers, NEW c, NEW done, NEW failed, PostRefund(w, c, done, failed),
         \/ done = "mark" /\ failed = "unclaim" /\ Refunding(w)
         \/ /\ done = "restock" /\ failed = "idle"
            /\ task[w].kind \in Locking /\ row.status = "paid"
  PROVE  TaskCalm(w)
  <1>1. CASE Goto(w, failed)
    BY <1>1, GotoCalm
  <1>2. ASSUME NEW s, NEW heard,
               task' = [task EXCEPT ![w] =
                          IF heard THEN [@ EXCEPT !.pc = done, !.outcome = s]
                          ELSE Continue(@, failed)]
        PROVE  TaskCalm(w)
    <2>1. CASE heard
      <3>1. task' = [task EXCEPT ![w] = [task[w] EXCEPT !.pc = done, !.outcome = s]]
        BY <1>2, <2>1
      <3>2. /\ task'[w].kind = task[w].kind /\ task'[w].pc = done
            /\ \A v \in Workers \ {w} : task'[v] = task[v]
        BY <3>1 DEF TypeOK, Tasks
      <3>. QED
        BY <3>2 DEF TaskCalm, Refunding, Undoing, At
    <2>2. CASE ~heard
      <3>1. Goto(w, failed)
        BY <1>2, <2>2 DEF Goto
      <3>. QED
        BY <3>1, GotoCalm
    <2>. QED
      BY <2>1, <2>2
  <1>. QED
    BY <1>1, <1>2 DEF PostRefund

-----------------------------------------------------------------------------
(* Every step keeps the invariant *)

\* Five steps are not calm: they are what the invariant is about.
LEMMA CheckoutKeeps ==
  ASSUME CalmInv, NEW w \in Workers, Checkout(w)
  PROVE  ChargesKnown' /\ Claims' /\ Units'
  <1>. USE DEF CalmInv, TypeInv, TypeOK, inventoryVars
  <1>1. row.status = "absent" /\ row'.status = "pending" /\ UNCHANGED inventoryVars
    BY DEF Checkout, NoRow
  <1>2. /\ \A v \in Workers \ {w} : task'[v] = task[v]
        /\ task'[w].pc \in {"free", "post"} /\ task'[w].kind = "checkout"
    BY DEF Checkout, Begin
  <1>3. ChargesKnown'
    BY <1>2 DEF ChargesKnown
  <1>4. Claims'
    BY <1>1, <1>2 DEF Claims, Refunding
  <1>5. Units'
    BY <1>1, <1>2 DEF Units, Undoing, At, UnitsMatchStatus, Locking, Final, Dead
  <1>. QED
    BY <1>3, <1>4, <1>5

LEMMA CommitKeeps ==
  ASSUME CalmInv, NEW w \in Workers, CommitOrder(w), Unpaid(row.status), UNCHANGED restocked
  PROVE  ChargesKnown' /\ Claims' /\ Units'
  <1>. USE DEF CalmInv, TypeInv
  <1>1. row'.status = "paid" /\ row'.claimed = row.claimed
    BY DEF CommitOrder, TypeOK, Rows
  <1>2. TaskCalm(w)
    BY GotoCalm DEF CommitOrder, EndWell, End
  <1>3. ChargesKnown'
    BY <1>2 DEF ChargesKnown, TaskCalm
  <1>4. Claims'
    <2>1. \A v \in Workers : Refunding(v)' => Refunding(v)
      BY <1>2 DEF TaskCalm, Refunding
    <2>. QED
      BY <1>1, <2>1 DEF Claims, Unpaid, Exists
  <1>5. Units'
    <2>1. \A u, v \in Workers : task'[u].kind \in Locking /\ task'[v].kind \in Locking => u = v
      BY <1>2 DEF TaskCalm, Units, LockFree
    <2>2. \A v \in Workers : ~Undoing(v)'
      BY <1>2 DEF TaskCalm, Units, Undoing, Unpaid
    <2>3. \A v \in Workers : ~At(v, "remove")'
      BY <1>2 DEF TaskCalm, CommitOrder, EndWell, End, Goto, Continue, Idle, Units, At, Unpaid,
                  Final, Dead, TypeOK
    <2>4. ~restocked'
      BY DEF Units, Unpaid, Dead
    <2>5. UnitsMatchStatus'
      BY <1>1 DEF Units, UnitsMatchStatus, Unpaid, CommitOrder
    <2>. QED
      BY <2>1, <2>2, <2>3, <2>4, <2>5 DEF Units
  <1>. QED
    BY <1>3, <1>4, <1>5

LEMMA ClaimKeeps ==
  ASSUME CalmInv, NEW w \in Workers, ClaimStockConflictRefund(w)
  PROVE  ChargesKnown' /\ Claims' /\ Units'
  <1>. USE DEF CalmInv, TypeInv
  <1>1. CASE EndWell(w) /\ row' = row /\ UNCHANGED inventoryVars
    BY <1>1, SameRow, GotoCalm, CalmKeeps DEF EndWell, End
  <1>2. ASSUME NEW pc \in {"claimCredit", "refund"}, Claimable, Goto(w, pc),
               row' = [row EXCEPT !.claimed = TRUE], UNCHANGED inventoryVars
        PROVE  ChargesKnown' /\ Claims' /\ Units'
    <2>1. row'.status = row.status /\ row.status = "stock_conflict" /\ row'.claimed
      BY <1>2 DEF TypeOK, Rows, Claimable
    <2>2. /\ \A v \in Workers \ {w} : task'[v] = task[v]
          /\ task'[w].pc = pc /\ task'[w].kind = task[w].kind
      BY <1>2 DEF Goto, Continue, TypeOK, Tasks
    <2>3. \A v \in Workers : ~Refunding(v)
      BY <1>2, <2>1 DEF Claimable, Claims, Exists
    <2>4. ChargesKnown'
      BY <2>2 DEF ChargesKnown
    <2>5. Claims'
      BY <2>1, <2>2, <2>3 DEF Claims, Refunding
    <2>6. Units'
      BY <1>2, <2>1, <2>2 DEF Units, Undoing, At, UnitsMatchStatus, inventoryVars, Final, Dead
    <2>. QED
      BY <2>4, <2>5, <2>6
  <1>. QED
    BY <1>1, <1>2 DEF ClaimStockConflictRefund

LEMMA ReleaseKeeps ==
  ASSUME CalmInv, NEW w \in Workers, ReleaseClaim(w)
  PROVE  ChargesKnown' /\ Claims' /\ Units'
  <1>. USE DEF CalmInv, TypeInv
  <1>1. row'.status = row.status /\ UNCHANGED inventoryVars
    BY DEF ReleaseClaim, TypeOK, Rows
  <1>8. Goto(w, "idle")
    BY DEF ReleaseClaim, EndWell, End
  <1>9. TaskCalm(w)
    BY <1>8, GotoCalm
  <1>2. TaskCalm(w) /\ task'[w].pc = "idle"
    BY <1>8, <1>9 DEF Goto, Continue, Idle, TypeOK
  <1>3. Refunding(w)
    BY DEF ReleaseClaim, At, Refunding
  <1>4. \A v \in Workers : ~Refunding(v)'
    BY <1>2, <1>3 DEF TaskCalm, Refunding, Claims
  <1>5. ChargesKnown'
    BY <1>2 DEF ChargesKnown, TaskCalm
  <1>6. Claims'
    BY <1>4 DEF Claims
  <1>7. Units'
    BY <1>1, <1>2 DEF TaskCalm, Units, LockFree, Undoing, At, UnitsMatchStatus, inventoryVars
  <1>. QED
    BY <1>5, <1>6, <1>7

LEMMA RestockKeeps ==
  ASSUME CalmInv, NEW w \in Workers, RestockCanceledOrder(w)
  PROVE  ChargesKnown' /\ Claims' /\ Units'
  <1>. USE DEF CalmInv, TypeInv
  <1>1. /\ row.status = "paid" /\ task[w].kind \in Locking /\ Exists /\ ~restocked
        /\ unitsOut = 1
    BY DEF RestockCanceledOrder, At, Undoing, Units, UnitsMatchStatus, Exists, Dead
  <1>2. /\ row'.status = "canceled" /\ row'.claimed = row.claimed
        /\ unitsOut' = unitsOut - 1 /\ restocked' = TRUE /\ Goto(w, "credit")
    BY <1>1 DEF RestockCanceledOrder, TypeOK, Rows
  <1>7. TaskCalm(w)
    BY <1>2, GotoCalm
  <1>3. TaskCalm(w) /\ task'[w].pc = "credit"
    BY <1>2, <1>7 DEF Goto, Continue, TypeOK, Tasks
  <1>4. ChargesKnown'
    BY <1>3 DEF ChargesKnown, TaskCalm
  <1>5. Claims'
    <2>1. \A v \in Workers : Refunding(v)' => Refunding(v)
      BY <1>3 DEF TaskCalm, Refunding
    <2>. QED
      BY <1>1, <1>2, <2>1 DEF Claims, Exists
  <1>6. Units'
    <2>1. \A u, v \in Workers : task'[u].kind \in Locking /\ task'[v].kind \in Locking => u = v
      BY <1>3 DEF TaskCalm, Units, LockFree
    <2>2. \A v \in Workers : ~Undoing(v)'
      BY <1>1, <1>3 DEF TaskCalm, Units, Undoing
    <2>3. row'.status \in Final /\ row'.status \in Dead
      BY <1>2 DEF Final, Dead
    <2>4. UnitsMatchStatus'
      BY <1>1, <1>2 DEF UnitsMatchStatus
    <2>. QED
      BY <2>1, <2>2, <2>3, <2>4 DEF Units
  <1>. QED
    BY <1>4, <1>5, <1>6

LEMMA CalmInvStep == CalmInv /\ [CalmStep]_vars => CalmInv'
  <1>. SUFFICES ASSUME CalmInv, [CalmStep]_vars PROVE ChargesKnown' /\ Claims' /\ Units'
    BY TypeStep DEF CalmInv, TypeInv, CalmStep
  <1>0. /\ TypeOK /\ ChargesKnown /\ Claims /\ Units
        /\ row \in Rows /\ task \in [Workers -> Tasks]
    BY DEF CalmInv, TypeInv, TypeOK
  <1>1. CASE UNCHANGED vars
    BY <1>0, <1>1 DEF vars, inventoryVars, ChargesKnown, Claims, Units, Refunding, Undoing, Exists,
                      At, UnitsMatchStatus
  <1>2. ASSUME NEW w \in Workers, Checkout(w)
        PROVE  ChargesKnown' /\ Claims' /\ Units'
    BY <1>2, CheckoutKeeps
  <1>3. ASSUME NEW w \in Workers, Post(w) \/ Repost(w)
        PROVE  ChargesKnown' /\ Claims' /\ Units'
    <2>1. TaskCalm(w)
      BY <1>0, <1>3, PostChargeCalm DEF Post, Repost
    <2>2. RowCalm
      BY <1>3, SameRow DEF Post, Repost
    <2>. QED
      BY <2>1, <2>2, CalmKeeps
  <1>4. ASSUME NEW w \in Workers, RefundPaid(w)
        PROVE  ChargesKnown' /\ Claims' /\ Units'
    <2>1. task[w].kind \in Locking /\ row.status = "paid"
      BY <1>0, <1>4 DEF RefundPaid, At, Units, Undoing
    <2>2. TaskCalm(w)
      BY <1>0, <1>4, <2>1, PostRefundCalm DEF RefundPaid
    <2>3. RowCalm
      BY <1>4, SameRow DEF RefundPaid
    <2>. QED
      BY <2>2, <2>3, CalmKeeps
  <1>5. ASSUME NEW w \in Workers, RefundStockConflict(w)
        PROVE  ChargesKnown' /\ Claims' /\ Units'
    <2>1. Refunding(w)
      BY <1>5 DEF RefundStockConflict, At, Refunding
    <2>2. TaskCalm(w)
      BY <1>0, <1>5, <2>1, PostRefundCalm, GotoCalm DEF RefundStockConflict
    <2>3. RowCalm
      BY <1>5, SameRow DEF RefundStockConflict
    <2>. QED
      BY <2>2, <2>3, CalmKeeps
  <1>6. ASSUME NEW w \in Workers, Link(w)
        PROVE  ChargesKnown' /\ Claims' /\ Units'
    <2>1. TaskCalm(w)
      <3>1. CASE End(w)
        BY <1>0, <3>1, GotoCalm DEF End
      <3>3. CASE task' = [task EXCEPT ![w].pc = "save",
                     ![w].mine = [row EXCEPT !.gateway = "asaas", !.charge = task[w].charge]]
        <4>1. /\ task'[w].kind = task[w].kind /\ task'[w].pc = "save"
              /\ \A v \in Workers \ {w} : task'[v] = task[v]
          BY <1>0, <3>3 DEF Tasks
        <4>. QED
          BY <4>1 DEF TaskCalm, Refunding, Undoing, At
      <3>4. CASE task' = [task EXCEPT ![w].pc = "save", ![w].outcome = "paid",
                     ![w].mine = [row EXCEPT !.gateway = "store_credit"]]
        <4>1. /\ task'[w].kind = task[w].kind /\ task'[w].pc = "save"
              /\ \A v \in Workers \ {w} : task'[v] = task[v]
          BY <1>0, <3>4 DEF Tasks
        <4>. QED
          BY <4>1 DEF TaskCalm, Refunding, Undoing, At
      <3>. QED
        BY <1>6, <3>1, <3>3, <3>4 DEF Link
    <2>2. RowCalm
      BY <1>6, SameRow DEF Link
    <2>. QED
      BY <2>1, <2>2, CalmKeeps
  <1>7. ASSUME NEW w \in Workers, Save(w) \/ Relink(w)
        PROVE  ChargesKnown' /\ Claims' /\ Units'
    <2>1. PICK pc \in {"pay", "drop", "idle"} : Goto(w, pc)
      BY <1>7 DEF Save, Relink, End
    <2>2. TaskCalm(w)
      BY <1>0, <2>1, GotoCalm
    <2>3. task[w].pc \in {"save", "relink"} /\ UNCHANGED inventoryVars
      BY <1>7 DEF Save, Relink, At
    <2>4. task'[w] # task[w]
      BY <1>0, <2>1, <2>3, GotoMoves
    <2>5. NoLostUpdate
      BY <1>7, <2>4 DEF CalmStep, vars
    <2>6. task[w].mine \in Rows
      BY <1>0 DEF Tasks
    <2>7. row' = row \/ (row'.status = task[w].mine.status /\ row'.claimed = task[w].mine.claimed)
      BY <1>7, <2>6 DEF Save, Relink, Rows
    <2>8. RowCalm
      BY <1>0, <2>3, <2>4, <2>5, <2>7, SaveKeeps, SameRow
    <2>. QED
      BY <2>2, <2>8, CalmKeeps
  <1>8. ASSUME NEW w \in Workers, Rollback(w) \/ Remove(w) \/ CancelPendingOrder(w)
        PROVE  ChargesKnown' /\ Claims' /\ Units'
    <2>1. RowCalm
      <3>1. CASE Rollback(w)
        BY <1>0, <3>1 DEF Rollback, RowCalm, Rows, Unpaid, Exists, Dead, Final, Units
      <3>2. CASE Remove(w)
        BY <1>0, <3>2 DEF Remove, RowCalm, NoRow, Units, Exists, Dead, Final, At
      <3>3. CASE CancelPendingOrder(w)
        BY <1>0, <3>3 DEF CancelPendingOrder, RowCalm, Rows, Exists, Dead, Final
      <3>. QED
        BY <1>8, <3>1, <3>2, <3>3
    <2>2. PICK pc \in {"remove", "idle", "credit"} :
            Goto(w, pc) /\ (pc = "remove" => row'.status \in Final)
      BY <1>0, <1>8 DEF Rollback, Remove, CancelPendingOrder, End, Rows, Final, Dead
    <2>3. TaskCalm(w)
      BY <1>0, <2>2, GotoCalm
    <2>. QED
      BY <2>1, <2>3, CalmKeeps
  <1>9. ASSUME NEW w \in Workers, MarkOrderPaid(w)
        PROVE  ChargesKnown' /\ Claims' /\ Units'
    <2>1. UNCHANGED restocked
      BY <1>9 DEF MarkOrderPaid
    <2>2. CASE End(w) /\ UNCHANGED <<row, unitsOut>>
      BY <1>0, <2>1, <2>2, GotoCalm, SameRow, CalmKeeps DEF End, inventoryVars
    <2>3. CASE CommitOrder(w) /\ Unpaid(row.status)
      BY <2>1, <2>3, CommitKeeps
    <2>4. ASSUME NEW mine, task' = [task EXCEPT ![w].pc = "claim", ![w].mine = mine],
                 UNCHANGED unitsOut,
                 \/ row' = row
                 \/ Unpaid(row.status) /\ row'.status = "stock_conflict" /\ row'.claimed = row.claimed
          PROVE  ChargesKnown' /\ Claims' /\ Units'
      <3>1. /\ task'[w].kind = task[w].kind /\ task'[w].pc = "claim"
            /\ \A v \in Workers \ {w} : task'[v] = task[v]
        BY <1>0, <2>4 DEF Tasks
      <3>2. TaskCalm(w)
        BY <3>1 DEF TaskCalm, Refunding, Undoing, At
      <3>3. RowCalm
        BY <2>1, <2>4, SameRow DEF RowCalm, Unpaid, Exists, Dead, Final, inventoryVars
      <3>. QED
        BY <3>2, <3>3, CalmKeeps
    <2>5. CASE ConflictOrder(w) /\ Unpaid(row.status)
      <3>1. row'.status = "stock_conflict" /\ row'.claimed = row.claimed
        BY <1>0, <2>5 DEF ConflictOrder, Rows
      <3>. QED
        BY <2>4, <2>5, <3>1 DEF ConflictOrder
    <2>6. CASE task' = [task EXCEPT ![w].pc = "claim", ![w].mine = row]
               /\ UNCHANGED <<row, unitsOut>>
      BY <2>4, <2>6
    <2>. QED
      BY <1>9, <2>2, <2>3, <2>5, <2>6 DEF MarkOrderPaid, EndWell
  <1>10. ASSUME NEW w \in Workers, ClaimStockConflictRefund(w)
         PROVE  ChargesKnown' /\ Claims' /\ Units'
    BY <1>10, ClaimKeeps
  <1>11. ASSUME NEW w \in Workers, MarkConflictRefunded(w) \/ MarkRefunded(w)
         PROVE  ChargesKnown' /\ Claims' /\ Units'
    <2>1. RowCalm
      <3>1. row'.status = row.status /\ row'.claimed = row.claimed /\ UNCHANGED inventoryVars
        BY <1>0, <1>11 DEF MarkConflictRefunded, MarkRefunded, Rows
      <3>. QED
        BY <3>1, SameRow
    <2>2. PICK pc \in {"idle", "unclaim"} : Goto(w, pc) /\ (pc = "unclaim" => Refunding(w))
      BY <1>11 DEF MarkConflictRefunded, MarkRefunded, EndWell, End, At, Refunding
    <2>3. TaskCalm(w)
      BY <1>0, <2>2, GotoCalm
    <2>. QED
      BY <2>1, <2>3, CalmKeeps
  <1>12. ASSUME NEW w \in Workers, ReleaseClaim(w)
         PROVE  ChargesKnown' /\ Claims' /\ Units'
    BY <1>12, ReleaseKeeps
  <1>13. ASSUME NEW w \in Workers, ReleaseStoreCredit(w)
         PROVE  ChargesKnown' /\ Claims' /\ Units'
    <2>1. ASSUME NEW from, NEW to, NEW after, ReadCredit(w, from, to, after),
                 \/ from = "claimCredit" /\ to = "claimCreditSave" /\ after = "refund"
                 \/ from = "credit" /\ to = "creditSave" /\ after = "idle"
          PROVE  ChargesKnown' /\ Claims' /\ Units'
      <3>1. RowCalm
        BY <2>1, SameRow DEF ReadCredit
      <3>2. CASE task' = [task EXCEPT ![w].pc = to, ![w].mine = row]
        <4>1. /\ task'[w].kind = task[w].kind /\ task'[w].pc = to
              /\ \A v \in Workers \ {w} : task'[v] = task[v]
          BY <1>0, <3>2 DEF Tasks
        <4>2. TaskCalm(w)
          BY <2>1, <4>1 DEF TaskCalm, Refunding, Undoing, At, ReadCredit
        <4>. QED
          BY <3>1, <4>2, CalmKeeps
      <3>3. CASE Goto(w, after)
        <4>1. after = "refund" => Refunding(w)
          BY <2>1 DEF ReadCredit, At, Refunding
        <4>2. TaskCalm(w)
          BY <1>0, <2>1, <3>3, <4>1, GotoCalm
        <4>. QED
          BY <3>1, <4>2, CalmKeeps
      <3>. QED
        BY <2>1, <3>2, <3>3 DEF ReadCredit, EndWell, End
    <2>2. ASSUME NEW from, NEW after, SaveCredit(w, from, after),
                 \/ from = "claimCreditSave" /\ after = "refund"
                 \/ from = "creditSave" /\ after = "idle"
          PROVE  ChargesKnown' /\ Claims' /\ Units'
      <3>1. Goto(w, after)
        BY <2>2 DEF SaveCredit, EndWell, End
      <3>2. after = "refund" => Refunding(w)
        BY <2>2 DEF SaveCredit, At, Refunding
      <3>3. TaskCalm(w)
        BY <1>0, <2>2, <3>1, <3>2, GotoCalm
      <3>4. task[w].pc = from /\ UNCHANGED inventoryVars
        BY <2>2 DEF SaveCredit, At
      <3>5. task'[w] # task[w]
        BY <1>0, <2>2, <3>1, <3>4, GotoMoves
      <3>6. NoLostUpdate
        BY <3>5 DEF CalmStep, vars
      <3>7. task[w].mine \in Rows
        BY <1>0 DEF Tasks
      <3>8. row'.status = task[w].mine.status /\ row'.claimed = task[w].mine.claimed
        BY <2>2, <3>7 DEF SaveCredit, Rows
      <3>9. RowCalm
        BY <1>0, <2>2, <3>4, <3>5, <3>6, <3>8, SaveKeeps
      <3>. QED
        BY <3>3, <3>9, CalmKeeps
    <2>. QED
      BY <1>13, <2>1, <2>2 DEF ReleaseStoreCredit
  <1>14. ASSUME NEW w \in Workers, Webhook(w)
         PROVE  ChargesKnown' /\ Claims' /\ Units'
    <2>1. PICK e \in Events, c \in Charges :
            \/ Begin(w, e, "pay", row, c, "none")
            \/ Begin(w, e, "hookRefunded", row, c, "none")
            \/ Begin(w, e, "save", [row EXCEPT !.charge = c], c, "deleted")
      BY <1>14 DEF Webhook
    <2>2. TaskCalm(w)
      BY <1>0, <2>1, BeginCalm
    <2>3. RowCalm
      BY <1>14, SameRow DEF Webhook
    <2>. QED
      BY <2>2, <2>3, CalmKeeps
  <1>15. ASSUME NEW w \in Workers, Status(w) \/ Switch(w)
         PROVE  ChargesKnown' /\ Claims' /\ Units'
    <2>1. row.charge \in Charges
      BY <1>0, <1>15 DEF Status, Switch, Rows
    <2>2. TaskCalm(w)
      BY <1>0, <1>15, <2>1, BeginCalm DEF Status, Switch
    <2>3. RowCalm
      BY <1>15, SameRow DEF Status, Switch
    <2>. QED
      BY <2>2, <2>3, CalmKeeps
  <1>16. ASSUME NEW w \in Workers, Poll(w)
         PROVE  ChargesKnown' /\ Claims' /\ Units'
    <2>1. RowCalm
      BY <1>16, SameRow DEF Poll
    <2>2. CASE task' = [task EXCEPT ![w].pc = "save", ![w].outcome = "deleted"]
      <3>1. /\ task'[w].kind = task[w].kind /\ task'[w].pc = "save"
            /\ \A v \in Workers \ {w} : task'[v] = task[v]
        BY <1>0, <2>2 DEF Tasks
      <3>2. TaskCalm(w)
        BY <3>1 DEF TaskCalm, Refunding, Undoing, At
      <3>. QED
        BY <2>1, <3>2, CalmKeeps
    <2>3. CASE Goto(w, "pay") \/ Goto(w, "idle")
      BY <1>0, <2>1, <2>3, GotoCalm, CalmKeeps
    <2>. QED
      BY <1>16, <2>2, <2>3 DEF Poll, End
  <1>17. ASSUME NEW w \in Workers, DeleteCharge(w)
         PROVE  ChargesKnown' /\ Claims' /\ Units'
    <2>1. PICK pc \in {"repost", "idle"} : Goto(w, pc)
      BY <1>17 DEF DeleteCharge, End
    <2>2. RowCalm
      BY <1>17, SameRow DEF DeleteCharge
    <2>. QED
      BY <1>0, <2>1, <2>2, GotoCalm, CalmKeeps
  <1>18. ASSUME NEW w \in Workers, NEW kind \in {"cancel", "manual"}, Cancel(w, kind)
         PROVE  ChargesKnown' /\ Claims' /\ Units'
    <2>1. row.charge \in Charges \cup {None} /\ kind \in Locking
      BY <1>0 DEF Rows, Locking
    <2>2. TaskCalm(w)
      BY <1>0, <1>18, <2>1, BeginCalm DEF Cancel
    <2>3. RowCalm
      BY <1>18, SameRow DEF Cancel
    <2>. QED
      BY <2>2, <2>3, CalmKeeps
  <1>19. ASSUME NEW w \in Workers, RestockCanceledOrder(w)
         PROVE  ChargesKnown' /\ Claims' /\ Units'
    BY <1>19, RestockKeeps
  <1>20. ASSUME NEW w \in Workers, DeleteOrder(w)
         PROVE  ChargesKnown' /\ Claims' /\ Units'
    <2>1. /\ row.status # "paid" /\ Exists /\ UNCHANGED inventoryVars
          /\ row'.claimed = row.claimed
          /\ row'.status = IF Unpaid(row.status) THEN "canceled" ELSE row.status
      BY <1>0, <1>20 DEF DeleteOrder, Rows
    <2>2. row'.status \in Final
      BY <1>0, <2>1 DEF Rows, Final, Dead, Unpaid, Exists
    <2>3. RowCalm
      BY <2>1, <2>2 DEF RowCalm, Unpaid, Exists, Dead, Final
    <2>4. TaskCalm(w)
      BY <1>0, <1>20, <2>2, BeginCalm DEF DeleteOrder
    <2>. QED
      BY <2>3, <2>4, CalmKeeps
  <1>21. CASE UNCHANGED task /\ RowCalm
    BY <1>0, <1>21 DEF RowCalm, ChargesKnown, Claims, Units, Refunding, Undoing, At, Exists,
                       UnitsMatchStatus, inventoryVars
  <1>22. ASSUME NEW w \in Workers, IgnoreWebhook(w)
         PROVE  ChargesKnown' /\ Claims' /\ Units'
    BY <1>21, <1>22, SameRow DEF IgnoreWebhook
  <1>23. ASSUME NEW c \in Charges, CustomerPays(c) \/ RefundSettles(c) \/ PanelRefund(c)
                                    \/ PanelDelete(c)
         PROVE  ChargesKnown' /\ Claims' /\ Units'
    BY <1>21, <1>23, SameRow
       DEF CustomerPays, RefundSettles, PanelRefund, PanelDelete, GatewayStep
  <1>24. CASE ExpireOrder
    <2>1. row.status = "pending" /\ row'.status = "expired" /\ row'.claimed = row.claimed
          /\ UNCHANGED inventoryVars /\ UNCHANGED task
      BY <1>0, <1>24 DEF ExpireOrder, Rows
    <2>. QED
      BY <1>21, <2>1 DEF RowCalm, Exists, Dead, Final
  <1>25. CASE Crash
    <2>1. \A w \in Workers : task'[w] = Idle
      BY <1>25 DEF Crash
    <2>2. UNCHANGED <<row, unitsOut, restocked>>
      BY <1>25 DEF Crash, inventoryVars
    <2>. QED
      BY <1>0, <2>1, <2>2 DEF Idle, ChargesKnown, Claims, Units, Refunding, Undoing, At,
                              UnitsMatchStatus, Locking
  <1>. QED
    BY <1>1, <1>2, <1>3, <1>4, <1>5, <1>6, <1>7, <1>8, <1>9, <1>10, <1>11, <1>12, <1>13, <1>14,
       <1>15, <1>16, <1>17, <1>18, <1>19, <1>20, <1>22, <1>23, <1>24, <1>25 DEF CalmStep, Next

LEMMA CalmInvInit == Init => CalmInv
  <1>. SUFFICES ASSUME Init PROVE CalmInv
    OBVIOUS
  <1>1. \A w \in Workers : task[w] = Idle
    BY DEF Init
  <1>2. row.status \in {"absent", "pending"} /\ unitsOut = 0 /\ restocked = FALSE
    <2>1. unitsOut = 0 /\ restocked = FALSE
      BY DEF Init
    <2>2. CASE row = NoRow
      BY <2>1, <2>2 DEF NoRow
    <2>3. ASSUME NEW credit,
                 row = [NoRow EXCEPT !.status = "pending", !.gateway = "asaas",
                                     !.charge = FirstCharge, !.credit = credit]
          PROVE  row.status = "pending"
      BY <2>3 DEF NoRow
    <2>. QED
      BY <2>1, <2>2, <2>3 DEF Init
  <1>3. ChargesKnown /\ Claims /\ Units
    <2>1. ChargesKnown /\ Claims
      BY <1>1 DEF Idle, ChargesKnown, Claims, Refunding
    <2>2. \A w \in Workers : task[w].kind = "none" /\ task[w].pc = "idle"
      BY <1>1 DEF Idle
    <2>3. Units
      BY <1>2, <2>2 DEF Units, Undoing, At, UnitsMatchStatus, Locking
    <2>. QED
      BY <2>1, <2>3
  <1>. QED
    BY <1>3, TypeInit DEF CalmInv, TypeInv

LEMMA CalmInvAlways == CalmSpec => []CalmInv
  <1>1. CalmInv /\ [Next /\ NoLostUpdate]_vars => CalmInv'
    BY CalmInvStep DEF CalmStep
  <1>. QED
    BY <1>1, CalmInvInit, PTL DEF CalmSpec

-----------------------------------------------------------------------------
(* Theorems *)

\* In every calm schedule each variable stays in its type: no request is asked to
\* refund, to look up or to delete a charge the order does not have.
THEOREM TypeCorrect == CalmSpec => [](TypeOK /\ ChargesKnown)
  <1>1. CalmInv => TypeOK /\ ChargesKnown
    BY DEF CalmInv, TypeInv
  <1>. QED
    BY <1>1, CalmInvAlways, PTL

\* Whatever webhooks are sent again, whatever requests run at once, and wherever
\* the process stops: claimStockConflictRefund lets one request through, and it
\* keeps its claim until it ends.
THEOREM ClaimIsExclusiveHolds == CalmSpec => []ClaimIsExclusive
  <1>1. CalmInv => ClaimIsExclusive
    BY DEF CalmInv, Claims, ClaimIsExclusive, Refunding
  <1>. QED
    BY <1>1, CalmInvAlways, PTL

\* The units of the order are off the shelf exactly while it is paid: the lock of
\* the order keeps cancelOrder from putting them back twice, and no webhook, poll
\* or switch sells what was put back.
THEOREM UnitsMatchStatusHolds == CalmSpec => []UnitsMatchStatus
  <1>1. CalmInv => UnitsMatchStatus
    BY DEF CalmInv, Units
  <1>. QED
    BY <1>1, CalmInvAlways, PTL

-----------------------------------------------------------------------------
(* Payments implements OrderLifecycle *)

\* The two status columns agree.
StatusesAgree ==
    /\ row.status \in {"absent", "deleted", "pending", "expired"} => row.payment = "pending"
    /\ row.status = "paid" => row.payment = "confirmed"
    /\ row.status = "stock_conflict" => row.payment \in {"refund_pending", "refunded"}
    /\ row.status = "canceled" => row.payment \in {"refund_pending", "refunded", "failed"}

Owes == row.payment \in {"refund_pending", "refunded"}

Removable == row.status \in Final /\ (row.status = "stock_conflict" => row.payment = "refunded")

\* What a request decided on is still there when it acts, or the row is gone.
Decided ==
    \A w \in Workers :
        /\ Refunding(w) => row.status \in {"deleted", "stock_conflict"}
        /\ At(w, "hookRefunded") => row.status = "deleted" \/ (row.status = "canceled" /\ Owes)
        /\ At(w, "remove") => Removable

LifeInv == CalmInv /\ StatusesAgree /\ Decided

-----------------------------------------------------------------------------
(* What a step does to the status columns *)

Same == row'.status = row.status /\ row'.payment = row.payment

Turn ==
    \/ Same
    \/ row.status = "absent" /\ row'.status = "pending" /\ row'.payment = "pending"
    \/ row.status = "pending" /\ row'.status = "expired" /\ row'.payment = row.payment
    \/ /\ Unpaid(row.status)
       /\ \/ row'.status = "paid" /\ row'.payment = "confirmed"
          \/ row'.status = "stock_conflict" /\ row'.payment = "refund_pending"
          \/ row'.status = "canceled" /\ row'.payment = "failed"
    \/ row.status = "paid" /\ row'.status = "canceled" /\ Owes'
    \/ /\ row.status \in {"stock_conflict", "canceled"} /\ Owes
       /\ row'.status = row.status /\ row'.payment = "refunded"
    \/ Removable /\ row'.status = "deleted" /\ row'.payment = "pending"

\* ... and where it takes the tasks.
Entitled ==
    \A v \in Workers :
        /\ Refunding(v)' => Refunding(v) \/ row'.status = "stock_conflict"
        /\ At(v, "hookRefunded")' => At(v, "hookRefunded") \/ (row'.status = "canceled" /\ Owes')
        /\ At(v, "remove")' => At(v, "remove") \/ Removable'

Moved(w, pc) == task'[w].pc = pc /\ \A v \in Workers \ {w} : task'[v] = task[v]

LEMMA TurnKeeps ==
  ASSUME StatusesAgree, Decided, Turn, Entitled
  PROVE  StatusesAgree' /\ Decided'
  <1>1. StatusesAgree'
    BY DEF StatusesAgree, Turn, Same, Unpaid, Owes, Removable
  <1>2. /\ row.status = "stock_conflict" => row'.status \in {"deleted", "stock_conflict"}
        /\ row.status = "deleted" => row'.status = "deleted"
        /\ row.status = "canceled" /\ Owes =>
              row'.status = "deleted" \/ (row'.status = "canceled" /\ Owes')
        /\ Removable => Removable'
    BY DEF Turn, Same, Unpaid, Owes, Removable, Final, Dead
  <1>3. Decided'
    BY <1>2 DEF Decided, Entitled
  <1>. QED
    BY <1>1, <1>3

LEMMA Stays == Same /\ UNCHANGED task => Turn /\ Entitled
  BY DEF Turn, Entitled, Refunding, At

LEMMA SameTurn == row' = row => Turn
  BY DEF Turn, Same

\* A step to where nothing was to be decided.
LEMMA PlainMove ==
  ASSUME NEW w \in Workers, NEW pc, Moved(w, pc),
         pc \notin {"claimCredit", "claimCreditSave", "refund", "mark", "unclaim",
                    "hookRefunded", "remove"}
  PROVE  Entitled
  BY DEF Moved, Entitled, Refunding, At

LEMMA RefundingMove ==
  ASSUME NEW w \in Workers, NEW pc, Moved(w, pc), Refunding(w),
         pc \notin {"hookRefunded", "remove"}
  PROVE  Entitled
  BY DEF Moved, Entitled, Refunding, At

LEMMA GotoMove ==
  ASSUME TypeOK, NEW w \in Workers, NEW pc, Goto(w, pc)
  PROVE  Moved(w, pc)
  <1>1. task'[w] = Continue(task[w], pc) /\ \A v \in Workers \ {w} : task'[v] = task[v]
    BY DEF Goto, TypeOK
  <1>2. Continue(task[w], pc).pc = pc
    BY DEF Continue, Idle, TypeOK, Tasks
  <1>. QED
    BY <1>1, <1>2 DEF Moved

LEMMA BeginMove ==
  ASSUME TypeOK, NEW w \in Workers, NEW kind, NEW pc, NEW mine, NEW c, NEW outcome,
         Begin(w, kind, pc, mine, c, outcome)
  PROVE  Moved(w, pc)
  BY DEF Begin, Moved, TypeOK

LEMMA PostChargeMove ==
  ASSUME TypeOK, NEW w \in Workers, NEW done, NEW failed, PostCharge(w, done, failed)
  PROVE  Moved(w, done) \/ Moved(w, failed)
  <1>1. CASE Goto(w, failed)
    BY <1>1, GotoMove
  <1>2. ASSUME NEW c \in Charges, NEW s, NEW heard,
               task' = [task EXCEPT ![w] =
                          IF heard THEN [@ EXCEPT !.pc = done, !.charge = c, !.outcome = s]
                          ELSE Continue(@, failed)]
        PROVE  Moved(w, done) \/ Moved(w, failed)
    <2>1. CASE heard
      <3>1. task' = [task EXCEPT ![w] =
                        [task[w] EXCEPT !.pc = done, !.charge = c, !.outcome = s]]
        BY <1>2, <2>1
      <3>. QED
        BY <3>1 DEF Moved, TypeOK, Tasks
    <2>2. CASE ~heard
      <3>1. Goto(w, failed)
        BY <1>2, <2>2 DEF Goto
      <3>. QED
        BY <3>1, GotoMove
    <2>. QED
      BY <2>1, <2>2
  <1>. QED
    BY <1>1, <1>2 DEF PostCharge

LEMMA PostRefundMove ==
  ASSUME TypeOK, NEW w \in Workers, NEW c, NEW done, NEW failed, PostRefund(w, c, done, failed)
  PROVE  Moved(w, done) \/ Moved(w, failed)
  <1>1. CASE Goto(w, failed)
    BY <1>1, GotoMove
  <1>2. ASSUME NEW s, NEW heard,
               task' = [task EXCEPT ![w] =
                          IF heard THEN [@ EXCEPT !.pc = done, !.outcome = s]
                          ELSE Continue(@, failed)]
        PROVE  Moved(w, done) \/ Moved(w, failed)
    <2>1. CASE heard
      <3>1. task' = [task EXCEPT ![w] = [task[w] EXCEPT !.pc = done, !.outcome = s]]
        BY <1>2, <2>1
      <3>. QED
        BY <3>1 DEF Moved, TypeOK, Tasks
    <2>2. CASE ~heard
      <3>1. Goto(w, failed)
        BY <1>2, <2>2 DEF Goto
      <3>. QED
        BY <3>1, GotoMove
    <2>. QED
      BY <2>1, <2>2
  <1>. QED
    BY <1>1, <1>2 DEF PostRefund

\* A save of a calm schedule writes both statuses as they are.
LEMMA SaveIsSame ==
  ASSUME TypeOK, NoLostUpdate, NEW w \in Workers,
         task[w].pc \in {"save", "claimCreditSave", "creditSave", "relink"},
         task'[w] # task[w],
         row'.status = task[w].mine.status, row'.payment = task[w].mine.payment
  PROVE  Same
  <1>1. CASE row' = row
    BY <1>1 DEF Same
  <1>2. CASE row' # row
    <2>1. row = [task[w].mine EXCEPT !.charge = row.charge, !.gateway = row.gateway]
      BY <1>2 DEF NoLostUpdate
    <2>2. task[w].mine \in Rows
      BY DEF TypeOK, Tasks
    <2>3. row.status = task[w].mine.status /\ row.payment = task[w].mine.payment
      BY <2>1, <2>2 DEF Rows
    <2>. QED
      BY <2>3 DEF Same
  <1>. QED
    BY <1>1, <1>2

-----------------------------------------------------------------------------
LEMMA LifeStep == LifeInv /\ [CalmStep]_vars => Turn /\ Entitled
  <1>. SUFFICES ASSUME LifeInv, [CalmStep]_vars PROVE Turn /\ Entitled
    OBVIOUS
  <1>0. /\ TypeOK /\ CalmInv /\ StatusesAgree /\ Decided
        /\ row \in Rows /\ task \in [Workers -> Tasks]
    BY DEF LifeInv, CalmInv, TypeInv, TypeOK
  <1>1. CASE UNCHANGED vars
    BY <1>1, Stays DEF vars, Same
  <1>2. ASSUME NEW w \in Workers, Checkout(w)
        PROVE  Turn /\ Entitled
    <2>1. Turn
      BY <1>2 DEF Checkout, Turn, NoRow
    <2>2. Moved(w, "free") \/ Moved(w, "post")
      BY <1>0, <1>2, BeginMove DEF Checkout
    <2>. QED
      BY <2>1, <2>2, PlainMove
  <1>3. ASSUME NEW w \in Workers, Post(w) \/ Repost(w) \/ RefundPaid(w)
        PROVE  Turn /\ Entitled
    <2>1. Turn
      BY <1>3, SameTurn DEF Post, Repost, RefundPaid
    <2>2. PICK pc \in {"link", "rollback", "relink", "idle", "restock"} : Moved(w, pc)
      BY <1>0, <1>3, PostChargeMove, PostRefundMove DEF Post, Repost, RefundPaid
    <2>. QED
      BY <2>1, <2>2, PlainMove
  <1>4. ASSUME NEW w \in Workers, RefundStockConflict(w)
        PROVE  Turn /\ Entitled
    <2>1. Turn /\ Refunding(w)
      BY <1>4, SameTurn DEF RefundStockConflict, At, Refunding
    <2>2. PICK pc \in {"mark", "unclaim"} : Moved(w, pc)
      BY <1>0, <1>4, PostRefundMove, GotoMove DEF RefundStockConflict
    <2>. QED
      BY <2>1, <2>2, RefundingMove
  <1>5. ASSUME NEW w \in Workers, Link(w)
        PROVE  Turn /\ Entitled
    <2>1. Turn
      BY <1>5, SameTurn DEF Link
    <2>2. Moved(w, "save") \/ Moved(w, "idle")
      <3>1. CASE End(w)
        BY <1>0, <3>1, GotoMove DEF End
      <3>2. CASE task' = [task EXCEPT ![w].pc = "save",
                     ![w].mine = [row EXCEPT !.gateway = "asaas", !.charge = task[w].charge]]
        BY <1>0, <3>2 DEF Tasks, Moved
      <3>3. CASE task' = [task EXCEPT ![w].pc = "save", ![w].outcome = "paid",
                     ![w].mine = [row EXCEPT !.gateway = "store_credit"]]
        BY <1>0, <3>3 DEF Tasks, Moved
      <3>. QED
        BY <1>5, <3>1, <3>2, <3>3 DEF Link
    <2>. QED
      BY <2>1, <2>2, PlainMove
  <1>6. ASSUME NEW w \in Workers, Save(w) \/ Relink(w)
        PROVE  Turn /\ Entitled
    <2>1. PICK pc \in {"pay", "drop", "idle"} : Goto(w, pc)
      BY <1>6 DEF Save, Relink, End
    <2>2. Entitled
      BY <1>0, <2>1, GotoMove, PlainMove
    <2>3. task[w].pc \in {"save", "relink"}
      BY <1>6 DEF Save, Relink, At
    <2>4. task'[w] # task[w]
      BY <1>0, <2>1, <2>3, GotoMoves
    <2>5. NoLostUpdate
      BY <2>4 DEF CalmStep, vars
    <2>6. task[w].mine \in Rows
      BY <1>0 DEF Tasks
    <2>7. row' = row \/ (row'.status = task[w].mine.status /\ row'.payment = task[w].mine.payment)
      BY <1>6, <2>6 DEF Save, Relink, Rows
    <2>8. Same
      BY <1>0, <2>3, <2>4, <2>5, <2>7, SaveIsSame DEF Same
    <2>. QED
      BY <2>2, <2>8 DEF Turn
  <1>7. ASSUME NEW w \in Workers, Rollback(w) \/ Remove(w) \/ CancelPendingOrder(w)
        PROVE  Turn /\ Entitled
    <2>1. CASE Rollback(w)
      <3>1. CASE Unpaid(row.status)
        <4>1. row'.status = "canceled" /\ row'.payment = "failed" /\ Goto(w, "remove")
          BY <1>0, <2>1, <3>1 DEF Rollback, Rows
        <4>2. Moved(w, "remove")
          BY <1>0, <4>1, GotoMove
        <4>3. Entitled
          BY <4>1, <4>2 DEF Moved, Entitled, Refunding, At, Removable, Final, Dead
        <4>. QED
          BY <3>1, <4>1, <4>3 DEF Turn
      <3>2. CASE ~Unpaid(row.status)
        BY <1>0, <2>1, <3>2, SameTurn, GotoMove, PlainMove DEF Rollback, End
      <3>. QED
        BY <3>1, <3>2
    <2>2. CASE Remove(w)
      <3>1. Removable
        BY <1>0, <2>2 DEF Remove, Decided
      <3>2. row'.status = "deleted" /\ row'.payment = "pending" /\ Goto(w, "idle")
        BY <2>2 DEF Remove, NoRow, End
      <3>. QED
        BY <1>0, <3>1, <3>2, GotoMove, PlainMove DEF Turn
    <2>3. CASE CancelPendingOrder(w)
      <3>1. Goto(w, "credit") \/ Goto(w, "idle")
        BY <2>3 DEF CancelPendingOrder, End
      <3>2. Turn
        BY <1>0, <2>3 DEF CancelPendingOrder, Turn, Same, Rows, Exists, Unpaid
      <3>. QED
        BY <1>0, <3>1, <3>2, GotoMove, PlainMove
    <2>. QED
      BY <1>7, <2>1, <2>2, <2>3
  <1>8. ASSUME NEW w \in Workers, MarkOrderPaid(w)
        PROVE  Turn /\ Entitled
    <2>1. CASE End(w) /\ row' = row
      BY <1>0, <2>1, SameTurn, GotoMove, PlainMove DEF End
    <2>2. CASE CommitOrder(w) /\ Unpaid(row.status)
      <3>1. row'.status = "paid" /\ row'.payment = "confirmed" /\ Goto(w, "idle")
        BY <1>0, <2>2 DEF CommitOrder, EndWell, End, Rows
      <3>. QED
        BY <1>0, <2>2, <3>1, GotoMove, PlainMove DEF Turn
    <2>3. CASE ConflictOrder(w) /\ Unpaid(row.status)
      <3>1. row'.status = "stock_conflict" /\ row'.payment = "refund_pending"
        BY <1>0, <2>3 DEF ConflictOrder, Rows
      <3>2. Moved(w, "claim")
        BY <1>0, <2>3 DEF ConflictOrder, Moved, Tasks
      <3>. QED
        BY <2>3, <3>1, <3>2, PlainMove DEF Turn
    <2>4. CASE task' = [task EXCEPT ![w].pc = "claim", ![w].mine = row] /\ row' = row
      <3>1. Moved(w, "claim")
        BY <1>0, <2>4 DEF Moved, Tasks
      <3>. QED
        BY <2>4, <3>1, SameTurn, PlainMove
    <2>. QED
      BY <1>8, <2>1, <2>2, <2>3, <2>4 DEF MarkOrderPaid, EndWell
  <1>9. ASSUME NEW w \in Workers, ClaimStockConflictRefund(w)
        PROVE  Turn /\ Entitled
    <2>1. CASE End(w) /\ row' = row
      BY <1>0, <2>1, SameTurn, GotoMove, PlainMove DEF End
    <2>2. ASSUME NEW pc \in {"claimCredit", "refund"}, Claimable, Goto(w, pc),
                 row' = [row EXCEPT !.claimed = TRUE]
          PROVE  Turn /\ Entitled
      <3>1. Same /\ row.status = "stock_conflict"
        BY <1>0, <2>2 DEF Same, Claimable, Rows
      <3>2. Moved(w, pc)
        BY <1>0, <2>2, GotoMove
      <3>3. Entitled
        BY <3>1, <3>2 DEF Moved, Entitled, Refunding, At, Same
      <3>. QED
        BY <3>1, <3>3 DEF Turn
    <2>. QED
      BY <1>9, <2>1, <2>2 DEF ClaimStockConflictRefund, EndWell
  <1>10. ASSUME NEW w \in Workers, MarkConflictRefunded(w)
         PROVE  Turn /\ Entitled
    <2>1. Refunding(w)
      BY <1>10 DEF MarkConflictRefunded, At, Refunding
    <2>2. Exists => row.status = "stock_conflict" /\ Owes
      BY <1>0, <2>1 DEF Decided, StatusesAgree, Owes, Exists
    <2>3. Turn
      BY <1>0, <1>10, <2>2 DEF MarkConflictRefunded, Turn, Same, Rows
    <2>4. Goto(w, "idle") \/ Goto(w, "unclaim")
      BY <1>10 DEF MarkConflictRefunded, EndWell, End
    <2>. QED
      BY <1>0, <2>1, <2>3, <2>4, GotoMove, RefundingMove
  <1>11. ASSUME NEW w \in Workers, ReleaseClaim(w)
         PROVE  Turn /\ Entitled
    <2>1. Same /\ Goto(w, "idle")
      BY <1>0, <1>11 DEF ReleaseClaim, Same, Rows, EndWell, End
    <2>. QED
      BY <1>0, <2>1, GotoMove, PlainMove DEF Turn
  <1>12. ASSUME NEW w \in Workers, MarkRefunded(w)
         PROVE  Turn /\ Entitled
    <2>1. Exists => row.status = "canceled" /\ Owes
      BY <1>0, <1>12 DEF MarkRefunded, Decided, Exists
    <2>2. Turn
      BY <1>0, <1>12, <2>1 DEF MarkRefunded, Turn, Same, Rows
    <2>3. Goto(w, "idle")
      BY <1>12 DEF MarkRefunded, EndWell, End
    <2>. QED
      BY <1>0, <2>2, <2>3, GotoMove, PlainMove
  <1>13. ASSUME NEW w \in Workers, ReleaseStoreCredit(w)
         PROVE  Turn /\ Entitled
    <2>1. ASSUME NEW from, NEW to, NEW after, ReadCredit(w, from, to, after),
                 \/ from = "claimCredit" /\ to = "claimCreditSave" /\ after = "refund"
                 \/ from = "credit" /\ to = "creditSave" /\ after = "idle"
          PROVE  Turn /\ Entitled
      <3>1. Turn /\ At(w, from)
        BY <2>1, SameTurn DEF ReadCredit
      <3>2. Moved(w, to) \/ Moved(w, after)
        <4>1. CASE task' = [task EXCEPT ![w].pc = to, ![w].mine = row]
          BY <1>0, <4>1 DEF Moved, Tasks
        <4>2. CASE Goto(w, after)
          BY <1>0, <4>2, GotoMove
        <4>. QED
          BY <2>1, <4>1, <4>2 DEF ReadCredit, EndWell, End
      <3>3. from = "claimCredit" => Refunding(w)
        BY <3>1 DEF At, Refunding
      <3>. QED
        BY <2>1, <3>1, <3>2, <3>3, RefundingMove, PlainMove
    <2>2. ASSUME NEW from, NEW after, SaveCredit(w, from, after),
                 \/ from = "claimCreditSave" /\ after = "refund"
                 \/ from = "creditSave" /\ after = "idle"
          PROVE  Turn /\ Entitled
      <3>1. Goto(w, after) /\ task[w].pc = from
        BY <2>2 DEF SaveCredit, EndWell, End, At
      <3>2. from = "claimCreditSave" => Refunding(w)
        BY <3>1 DEF Refunding
      <3>3. Entitled
        BY <1>0, <2>2, <3>1, <3>2, GotoMove, RefundingMove, PlainMove
      <3>4. task'[w] # task[w]
        BY <1>0, <2>2, <3>1, GotoMoves
      <3>5. NoLostUpdate
        BY <3>4 DEF CalmStep, vars
      <3>6. task[w].mine \in Rows
        BY <1>0 DEF Tasks
      <3>7. row'.status = task[w].mine.status /\ row'.payment = task[w].mine.payment
        BY <2>2, <3>6 DEF SaveCredit, Rows
      <3>8. Same
        BY <1>0, <2>2, <3>1, <3>4, <3>5, <3>7, SaveIsSame
      <3>. QED
        BY <3>3, <3>8 DEF Turn
    <2>. QED
      BY <1>13, <2>1, <2>2 DEF ReleaseStoreCredit
  <1>14. ASSUME NEW w \in Workers, Webhook(w)
         PROVE  Turn /\ Entitled
    <2>1. PICK e \in Events, c \in Charges :
            \/ Begin(w, e, "pay", row, c, "none")
            \/ /\ row.status = "canceled" /\ row.payment = "refund_pending"
               /\ Begin(w, e, "hookRefunded", row, c, "none")
            \/ Begin(w, e, "save", [row EXCEPT !.charge = c], c, "deleted")
      BY <1>14 DEF Webhook
    <2>2. row' = row
      BY <1>14 DEF Webhook
    <2>3. \/ Moved(w, "pay") \/ Moved(w, "save")
          \/ row.status = "canceled" /\ row.payment = "refund_pending" /\ Moved(w, "hookRefunded")
      BY <1>0, <2>1, BeginMove
    <2>4. Entitled
      BY <2>2, <2>3 DEF Moved, Entitled, Refunding, At, Owes
    <2>. QED
      BY <2>2, <2>4, SameTurn
  <1>15. ASSUME NEW w \in Workers, Status(w) \/ Switch(w) \/ Poll(w) \/ DeleteCharge(w)
         PROVE  Turn /\ Entitled
    <2>1. Turn
      BY <1>15, SameTurn DEF Status, Switch, Poll, DeleteCharge
    <2>2. PICK pc \in {"poll", "delete", "pay", "save", "idle", "repost"} : Moved(w, pc)
      <3>1. CASE task' = [task EXCEPT ![w].pc = "save", ![w].outcome = "deleted"]
        BY <1>0, <3>1 DEF Moved, Tasks
      <3>2. CASE Status(w) \/ Switch(w)
        BY <1>0, <3>2, BeginMove DEF Status, Switch
      <3>3. CASE Goto(w, "pay") \/ Goto(w, "idle") \/ Goto(w, "repost")
        BY <1>0, <3>3, GotoMove
      <3>. QED
        BY <1>15, <3>1, <3>2, <3>3 DEF Poll, DeleteCharge, End
    <2>. QED
      BY <2>1, <2>2, PlainMove
  <1>16. ASSUME NEW w \in Workers, NEW kind \in {"cancel", "manual"}, Cancel(w, kind)
         PROVE  Turn /\ Entitled
    <2>1. Turn
      BY <1>16, SameTurn DEF Cancel
    <2>2. Moved(w, "restock") \/ Moved(w, "refundPaid")
      BY <1>0, <1>16, BeginMove DEF Cancel
    <2>. QED
      BY <2>1, <2>2, PlainMove
  <1>17. ASSUME NEW w \in Workers, RestockCanceledOrder(w)
         PROVE  Turn /\ Entitled
    <2>1. row.status = "paid" /\ Exists
      BY <1>0, <1>17 DEF RestockCanceledOrder, At, Undoing, CalmInv, Units, Exists
    <2>2. /\ row'.status = "canceled" /\ row'.payment \in {"refund_pending", "refunded"}
          /\ Goto(w, "credit")
      BY <1>0, <1>17, <2>1 DEF RestockCanceledOrder, Rows
    <2>. QED
      BY <1>0, <2>1, <2>2, GotoMove, PlainMove DEF Turn, Owes
  <1>18. ASSUME NEW w \in Workers, DeleteOrder(w)
         PROVE  Turn /\ Entitled
    <2>1. Moved(w, "remove")
      BY <1>0, <1>18, BeginMove DEF DeleteOrder
    <2>2. Turn
      BY <1>0, <1>18 DEF DeleteOrder, Turn, Same, Rows
    <2>3. Removable'
      BY <1>0, <1>18 DEF DeleteOrder, Removable, Final, Dead, Rows, Exists, Unpaid
    <2>4. Entitled
      BY <2>1, <2>3 DEF Moved, Entitled, Refunding, At
    <2>. QED
      BY <2>2, <2>4
  <1>19. ASSUME NEW w \in Workers, IgnoreWebhook(w)
         PROVE  Turn /\ Entitled
    BY <1>19, Stays DEF IgnoreWebhook, Same
  <1>20. ASSUME NEW c \in Charges, CustomerPays(c) \/ RefundSettles(c) \/ PanelRefund(c)
                                    \/ PanelDelete(c)
         PROVE  Turn /\ Entitled
    BY <1>20, Stays
       DEF CustomerPays, RefundSettles, PanelRefund, PanelDelete, GatewayStep, Same
  <1>21. CASE ExpireOrder
    <2>1. row'.status = "expired" /\ row'.payment = row.payment /\ row.status = "pending"
      BY <1>0, <1>21 DEF ExpireOrder, Rows
    <2>. QED
      BY <1>21, <2>1 DEF ExpireOrder, Turn, Entitled, Refunding, At
  <1>22. CASE Crash
    <2>1. \A w \in Workers : task'[w].pc = "idle"
      BY <1>22 DEF Crash, Idle
    <2>2. row' = row
      BY <1>22 DEF Crash
    <2>. QED
      BY <2>1, <2>2, SameTurn DEF Entitled, Refunding, At
  <1>. QED
    BY <1>1, <1>2, <1>3, <1>4, <1>5, <1>6, <1>7, <1>8, <1>9, <1>10, <1>11, <1>12, <1>13, <1>14,
       <1>15, <1>16, <1>17, <1>18, <1>19, <1>20, <1>21, <1>22 DEF CalmStep, Next

-----------------------------------------------------------------------------
(* The abstract order *)

LEMMA StageTable ==
    /\ StageOf["absent"] = "none" /\ StageOf["pending"] = "open"
    /\ StageOf["expired"] = "lapsed" /\ StageOf["paid"] = "sold"
    /\ StageOf["stock_conflict"] = "refused" /\ StageOf["canceled"] = "dead"
    /\ StageOf["deleted"] = "gone"
  BY DEF StageOf

LEMMA MoneyTable ==
    /\ MoneyOf["pending"] = "none" /\ MoneyOf["confirmed"] = "kept"
    /\ MoneyOf["refund_pending"] = "owed" /\ MoneyOf["refunded"] = "returned"
    /\ MoneyOf["failed"] = "none"
  BY DEF MoneyOf

Goods(s) == IF s = "paid" THEN "out" ELSE "shelf"

Money(s, p) == IF s \in {"absent", "deleted"} THEN "none" ELSE MoneyOf[p]

LEMMA Mapping ==
  ASSUME CalmInv
  PROVE  /\ theStage = [o \in {1} |-> StageOf[row.status]]
         /\ theGoods = [o \in {1} |-> Goods(row.status)]
         /\ theMoney = [o \in {1} |-> Money(row.status, row.payment)]
  <1>1. UnitsMatchStatus
    BY DEF CalmInv, Units
  <1>2. theGoods = [o \in {1} |-> Goods(row.status)]
    BY <1>1 DEF theGoods, Goods, UnitsMatchStatus
  <1>. QED
    BY <1>2 DEF theStage, theMoney, Money, Exists

LEMMA MappingNext ==
  ASSUME CalmInv'
  PROVE  /\ theStage' = [o \in {1} |-> StageOf[row'.status]]
         /\ theGoods' = [o \in {1} |-> Goods(row'.status)]
         /\ theMoney' = [o \in {1} |-> Money(row'.status, row'.payment)]
  <1>1. UnitsMatchStatus'
    BY DEF CalmInv, Units
  <1>2. theGoods' = [o \in {1} |-> Goods(row'.status)]
    BY <1>1 DEF theGoods, Goods, UnitsMatchStatus
  <1>. QED
    BY <1>2 DEF theStage, theMoney, Money, Exists

LEMMA BecomesTurn ==
  ASSUME CalmInv, CalmInv', NEW st, NEW go, NEW mo,
         StageOf[row'.status] = st, Goods(row'.status) = go,
         Money(row'.status, row'.payment) = mo
  PROVE  TheOrder!Becomes(1, st, go, mo)
  <1>1. /\ theStage' = [theStage EXCEPT ![1] = st]
        /\ theGoods' = [theGoods EXCEPT ![1] = go]
        /\ theMoney' = [theMoney EXCEPT ![1] = mo]
    BY Mapping, MappingNext
  <1>. QED
    BY <1>1 DEF TheOrder!Becomes

LEMMA TurnIsAbstract ==
  ASSUME LifeInv, LifeInv', Turn
  PROVE  TheOrder!LifecycleNext \/ UNCHANGED TheOrder!lifecycleVars
  <1>. USE StageTable, MoneyTable DEF Money, Goods
  <1>0. CalmInv /\ CalmInv' /\ StatusesAgree /\ StatusesAgree' /\ row \in Rows
    BY DEF LifeInv, CalmInv, TypeInv, TypeOK
  <1>1. /\ theStage[1] = StageOf[row.status] /\ theGoods[1] = Goods(row.status)
        /\ theMoney[1] = Money(row.status, row.payment)
    BY <1>0, Mapping
  <1>2. CASE Same
    BY <1>0, <1>2, Mapping, MappingNext DEF Same, TheOrder!lifecycleVars
  <1>3. CASE row.status = "absent" /\ row'.status = "pending" /\ row'.payment = "pending"
    <2>1. TheOrder!Becomes(1, "open", "shelf", "none")
      BY <1>0, <1>3, BecomesTurn
    <2>2. TheOrder!Place(1)
      BY <1>1, <1>3, <2>1 DEF TheOrder!Place
    <2>. QED
      BY <2>2 DEF TheOrder!LifecycleNext
  <1>4. CASE row.status = "pending" /\ row'.status = "expired" /\ row'.payment = row.payment
    <2>1. row.payment = "pending"
      BY <1>0, <1>4 DEF StatusesAgree
    <2>2. /\ theStage' = [o \in {1} |-> IF o \in {1} THEN "lapsed" ELSE theStage[o]]
          /\ UNCHANGED <<theGoods, theMoney>>
      BY <1>0, <1>4, <2>1, Mapping, MappingNext
    <2>3. TheOrder!Lapse({1})
      BY <1>1, <1>4, <2>2 DEF TheOrder!Lapse
    <2>4. {1} \in SUBSET {1}
      OBVIOUS
    <2>. QED
      BY <2>3, <2>4 DEF TheOrder!LifecycleNext
  <1>5. ASSUME Unpaid(row.status)
        PROVE  theStage[1] \in {"open", "lapsed"}
    BY <1>1, <1>5 DEF Unpaid
  <1>6. CASE Unpaid(row.status) /\ row'.status = "paid" /\ row'.payment = "confirmed"
    <2>1. TheOrder!Becomes(1, "sold", "out", "kept")
      BY <1>0, <1>6, BecomesTurn
    <2>2. TheOrder!Sell(1)
      BY <1>5, <1>6, <2>1 DEF TheOrder!Sell
    <2>. QED
      BY <2>2 DEF TheOrder!LifecycleNext
  <1>7. CASE /\ Unpaid(row.status)
             /\ row'.status = "stock_conflict" /\ row'.payment = "refund_pending"
    <2>1. TheOrder!Becomes(1, "refused", "shelf", "owed")
      BY <1>0, <1>7, BecomesTurn
    <2>2. TheOrder!Refuse(1)
      BY <1>5, <1>7, <2>1 DEF TheOrder!Refuse
    <2>. QED
      BY <2>2 DEF TheOrder!LifecycleNext
  <1>8. CASE Unpaid(row.status) /\ row'.status = "canceled" /\ row'.payment = "failed"
    <2>1. TheOrder!Becomes(1, "dead", "shelf", "none")
      BY <1>0, <1>8, BecomesTurn
    <2>2. TheOrder!Abandon(1)
      BY <1>5, <1>8, <2>1 DEF TheOrder!Abandon
    <2>. QED
      BY <2>2 DEF TheOrder!LifecycleNext
  <1>9. CASE row.status = "paid" /\ row'.status = "canceled" /\ Owes'
    <2>1. PICK m \in {"owed", "returned"} : TheOrder!Becomes(1, "dead", "shelf", m)
      BY <1>0, <1>9, BecomesTurn DEF Owes
    <2>2. TheOrder!Undo(1)
      BY <1>1, <1>9, <2>1 DEF TheOrder!Undo
    <2>. QED
      BY <2>2 DEF TheOrder!LifecycleNext
  <1>10. CASE /\ row.status \in {"stock_conflict", "canceled"} /\ Owes
              /\ row'.status = row.status /\ row'.payment = "refunded"
    <2>1. CASE row.payment = "refunded"
      BY <1>2, <1>10, <2>1 DEF Same
    <2>2. CASE row.payment = "refund_pending"
      <3>1. TheOrder!Becomes(1, theStage[1], theGoods[1], "returned")
        BY <1>0, <1>1, <1>10, BecomesTurn
      <3>2. TheOrder!Repay(1)
        BY <1>1, <1>10, <2>2, <3>1 DEF TheOrder!Repay
      <3>. QED
        BY <3>2 DEF TheOrder!LifecycleNext
    <2>. QED
      BY <1>10, <2>1, <2>2 DEF Owes
  <1>11. CASE Removable /\ row'.status = "deleted" /\ row'.payment = "pending"
    <2>1. CASE row.status = "deleted"
      <3>1. row.payment = "pending"
        BY <1>0, <2>1 DEF StatusesAgree
      <3>. QED
        BY <1>2, <1>11, <2>1, <3>1 DEF Same
    <2>2. CASE row.status \in {"canceled", "stock_conflict"}
      <3>1. TheOrder!Becomes(1, "gone", "shelf", "none")
        BY <1>0, <1>11, BecomesTurn
      <3>2. TheOrder!Forget(1)
        BY <1>1, <1>11, <2>2, <3>1 DEF TheOrder!Forget, Removable
      <3>. QED
        BY <3>2 DEF TheOrder!LifecycleNext
    <2>. QED
      BY <1>11, <2>1, <2>2 DEF Removable, Final, Dead
  <1>. QED
    BY <1>2, <1>3, <1>4, <1>6, <1>7, <1>8, <1>9, <1>10, <1>11 DEF Turn

-----------------------------------------------------------------------------
LEMMA LifeInit == Init => LifeInv
  <1>. SUFFICES ASSUME Init PROVE LifeInv
    OBVIOUS
  <1>1. row.status \in {"absent", "pending"} /\ row.payment = "pending"
    <2>1. CASE row = NoRow
      BY <2>1 DEF NoRow
    <2>2. ASSUME NEW credit,
                 row = [NoRow EXCEPT !.status = "pending", !.gateway = "asaas",
                                     !.charge = FirstCharge, !.credit = credit]
          PROVE  row.status = "pending" /\ row.payment = "pending"
      BY <2>2 DEF NoRow
    <2>. QED
      BY <2>1, <2>2 DEF Init
  <1>2. \A w \in Workers : task[w].pc = "idle"
    BY DEF Init, Idle
  <1>. QED
    BY <1>1, <1>2, CalmInvInit DEF LifeInv, StatusesAgree, Decided, Refunding, At

LEMMA LifeInvStep == LifeInv /\ [CalmStep]_vars => LifeInv'
  BY LifeStep, TurnKeeps, CalmInvStep DEF LifeInv

\* Whatever requests, webhooks and polls interleave in a calm schedule, whatever
\* answers are lost and wherever the process stops, the order of a checkout goes
\* through the life of one order: sold once for money that is kept, undone only
\* with its units put back, refunded only when money is owed.
THEOREM PaymentsImplementLifecycle ==
  ASSUME "checkout" \in Kinds
  PROVE  CalmSpec => ImplementsLifecycle
  <1>1. Init => TheOrder!LifecycleInit
    <2>. SUFFICES ASSUME Init PROVE TheOrder!LifecycleInit
      OBVIOUS
    <2>1. row = NoRow /\ CalmInv
      BY CalmInvInit DEF Init
    <2>. QED
      BY <2>1, Mapping, StageTable
         DEF NoRow, Goods, Money, TheOrder!LifecycleInit
  <1>2. LifeInv /\ [CalmStep]_vars => LifeInv'
    BY LifeInvStep
  <1>3. LifeInv /\ LifeInv' /\ [CalmStep]_vars
          => [TheOrder!LifecycleNext]_(TheOrder!lifecycleVars)
    BY LifeStep, TurnIsAbstract
  <1>. QED
    BY <1>1, <1>2, <1>3, LifeInit, PTL
       DEF CalmSpec, CalmStep, ImplementsLifecycle, TheOrder!Lifecycle

-----------------------------------------------------------------------------
(* The credit of a canceled order *)

Giving == {"credit", "creditSave", "remove"}

\* A canceled order with credit has a request that gives it back, or deletes the order.
CreditOwed ==
    row.status = "canceled" /\ row.credit => \E w \in Workers : task[w].pc \in Giving

SameCredit == row'.status = row.status /\ row'.credit = row.credit

LEMMA GivingMove ==
  ASSUME CreditOwed, NEW w \in Workers, NEW pc, Moved(w, pc),
         \/ pc \in Giving
         \/ ~(row'.status = "canceled" /\ row'.credit)
         \/ SameCredit /\ task[w].pc \notin Giving
  PROVE  CreditOwed'
  BY DEF CreditOwed, Moved, SameCredit

\* A save of a calm schedule writes the credit as it is.
LEMMA SaveIsSameCredit ==
  ASSUME TypeOK, NoLostUpdate, NEW w \in Workers,
         task[w].pc \in {"save", "claimCreditSave", "creditSave", "relink"},
         task'[w] # task[w],
         row'.status = task[w].mine.status, row'.credit = task[w].mine.credit
  PROVE  SameCredit
  <1>1. CASE row' = row
    BY <1>1 DEF SameCredit
  <1>2. CASE row' # row
    <2>1. row = [task[w].mine EXCEPT !.charge = row.charge, !.gateway = row.gateway]
      BY <1>2 DEF NoLostUpdate
    <2>2. task[w].mine \in Rows
      BY DEF TypeOK, Tasks
    <2>3. row.status = task[w].mine.status /\ row.credit = task[w].mine.credit
      BY <2>1, <2>2 DEF Rows
    <2>. QED
      BY <2>3 DEF SameCredit
  <1>. QED
    BY <1>1, <1>2

LEMMA CreditStep ==
  ASSUME "crash" \notin Faults, LifeInv, CreditOwed, [CalmStep]_vars
  PROVE  CreditOwed'
  <1>0. TypeOK /\ CalmInv /\ row \in Rows /\ task \in [Workers -> Tasks]
    BY DEF LifeInv, CalmInv, TypeInv, TypeOK
  <1>1. CASE UNCHANGED vars
    BY <1>1 DEF vars, CreditOwed
  <1>2. ASSUME NEW w \in Workers, Checkout(w)
        PROVE  CreditOwed'
    <2>1. Moved(w, "free") \/ Moved(w, "post")
      BY <1>0, <1>2, BeginMove DEF Checkout
    <2>2. row'.status = "pending"
      BY <1>2 DEF Checkout, NoRow
    <2>. QED
      BY <2>1, <2>2, GivingMove
  <1>3. ASSUME NEW w \in Workers, Post(w) \/ Repost(w) \/ RefundPaid(w) \/ RefundStockConflict(w)
        PROVE  CreditOwed'
    <2>1. SameCredit /\ task[w].pc \notin Giving
      BY <1>3 DEF Post, Repost, RefundPaid, RefundStockConflict, SameCredit, At, Giving
    <2>2. PICK pc : Moved(w, pc)
      BY <1>0, <1>3, PostChargeMove, PostRefundMove, GotoMove
         DEF Post, Repost, RefundPaid, RefundStockConflict
    <2>. QED
      BY <2>1, <2>2, GivingMove
  <1>4. ASSUME NEW w \in Workers, Link(w)
        PROVE  CreditOwed'
    <2>1. SameCredit /\ task[w].pc \notin Giving
      BY <1>4 DEF Link, SameCredit, At, Giving
    <2>2. Moved(w, "save") \/ Moved(w, "idle")
      <3>1. CASE End(w)
        BY <1>0, <3>1, GotoMove DEF End
      <3>2. CASE task' = [task EXCEPT ![w].pc = "save",
                     ![w].mine = [row EXCEPT !.gateway = "asaas", !.charge = task[w].charge]]
        BY <1>0, <3>2 DEF Tasks, Moved
      <3>3. CASE task' = [task EXCEPT ![w].pc = "save", ![w].outcome = "paid",
                     ![w].mine = [row EXCEPT !.gateway = "store_credit"]]
        BY <1>0, <3>3 DEF Tasks, Moved
      <3>. QED
        BY <1>4, <3>1, <3>2, <3>3 DEF Link
    <2>. QED
      BY <2>1, <2>2, GivingMove
  <1>5. ASSUME NEW w \in Workers, Save(w) \/ Relink(w)
        PROVE  CreditOwed'
    <2>1. PICK pc \in {"pay", "drop", "idle"} : Goto(w, pc)
      BY <1>5 DEF Save, Relink, End
    <2>2. task[w].pc \in {"save", "relink"}
      BY <1>5 DEF Save, Relink, At
    <2>3. task'[w] # task[w]
      BY <1>0, <2>1, <2>2, GotoMoves
    <2>4. NoLostUpdate
      BY <2>3 DEF CalmStep, vars
    <2>5. task[w].mine \in Rows
      BY <1>0 DEF Tasks
    <2>6. row' = row \/ (row'.status = task[w].mine.status /\ row'.credit = task[w].mine.credit)
      BY <1>5, <2>5 DEF Save, Relink, Rows
    <2>7. SameCredit
      BY <1>0, <2>2, <2>3, <2>4, <2>6, SaveIsSameCredit DEF SameCredit
    <2>8. Moved(w, pc)
      BY <1>0, <2>1, GotoMove
    <2>. QED
      BY <2>2, <2>7, <2>8, GivingMove DEF Giving
  <1>6. ASSUME NEW w \in Workers, Rollback(w) \/ CancelPendingOrder(w) \/ RestockCanceledOrder(w)
        PROVE  CreditOwed'
    <2>1. \/ Goto(w, "remove") \/ Goto(w, "credit")
          \/ Goto(w, "idle") /\ SameCredit /\ task[w].pc \notin Giving
      BY <1>6 DEF Rollback, CancelPendingOrder, RestockCanceledOrder, End, SameCredit, At, Giving
    <2>. QED
      BY <1>0, <2>1, GotoMove, GivingMove DEF Giving
  <1>7. ASSUME NEW w \in Workers, Remove(w)
        PROVE  CreditOwed'
    <2>1. row'.status = "deleted" /\ Moved(w, "idle")
      BY <1>0, <1>7, GotoMove DEF Remove, NoRow, End
    <2>. QED
      BY <2>1, GivingMove
  <1>8. ASSUME NEW w \in Workers, MarkOrderPaid(w)
        PROVE  CreditOwed'
    <2>1. task[w].pc \notin Giving
      BY <1>8 DEF MarkOrderPaid, At, Giving
    <2>2. row' = row \/ row'.status \in {"paid", "stock_conflict"}
      BY <1>0, <1>8 DEF MarkOrderPaid, CommitOrder, ConflictOrder, Rows
    <2>3. PICK pc : Moved(w, pc)
      <3>1. CASE End(w)
        BY <1>0, <3>1, GotoMove DEF End
      <3>2. ASSUME NEW mine, task' = [task EXCEPT ![w].pc = "claim", ![w].mine = mine]
            PROVE  Moved(w, "claim")
        BY <1>0, <3>2 DEF Moved, Tasks
      <3>. QED
        BY <1>8, <3>1, <3>2 DEF MarkOrderPaid, CommitOrder, ConflictOrder, EndWell
    <2>. QED
      BY <2>1, <2>2, <2>3, GivingMove DEF SameCredit
  <1>9. ASSUME NEW w \in Workers,
               \/ ClaimStockConflictRefund(w) \/ MarkConflictRefunded(w)
               \/ ReleaseClaim(w) \/ MarkRefunded(w)
        PROVE  CreditOwed'
    <2>1. task[w].pc \notin Giving
      BY <1>9 DEF ClaimStockConflictRefund, MarkConflictRefunded, ReleaseClaim, MarkRefunded, At,
                  Giving
    <2>2. SameCredit
      BY <1>0, <1>9 DEF ClaimStockConflictRefund, MarkConflictRefunded, ReleaseClaim, MarkRefunded,
                        SameCredit, Rows
    <2>3. PICK pc : Goto(w, pc)
      BY <1>9 DEF ClaimStockConflictRefund, MarkConflictRefunded, ReleaseClaim, MarkRefunded,
                  EndWell, End
    <2>. QED
      BY <1>0, <2>1, <2>2, <2>3, GotoMove, GivingMove
  <1>10. ASSUME NEW w \in Workers, ReleaseStoreCredit(w)
         PROVE  CreditOwed'
    <2>1. CASE ReadCredit(w, "claimCredit", "claimCreditSave", "refund")
      <3>1. SameCredit /\ task[w].pc \notin Giving
        BY <2>1 DEF ReadCredit, SameCredit, At, Giving
      <3>2. PICK pc : Moved(w, pc)
        <4>1. CASE task' = [task EXCEPT ![w].pc = "claimCreditSave", ![w].mine = row]
          BY <1>0, <4>1 DEF Moved, Tasks
        <4>2. CASE Goto(w, "refund")
          BY <1>0, <4>2, GotoMove
        <4>. QED
          BY <2>1, <4>1, <4>2 DEF ReadCredit
      <3>. QED
        BY <3>1, <3>2, GivingMove
    <2>2. CASE ReadCredit(w, "credit", "creditSave", "idle")
      <3>1. CASE Exists /\ row.credit
        <4>1. task' = [task EXCEPT ![w].pc = "creditSave", ![w].mine = row]
          BY <2>2, <3>1 DEF ReadCredit
        <4>2. Moved(w, "creditSave")
          BY <1>0, <4>1 DEF Moved, Tasks
        <4>. QED
          BY <4>2, GivingMove DEF Giving
      <3>2. CASE ~(Exists /\ row.credit)
        <4>1. row' = row /\ Goto(w, "idle")
          BY <2>2, <3>2 DEF ReadCredit, EndWell, End
        <4>. QED
          BY <1>0, <3>2, <4>1, GotoMove, GivingMove DEF Exists
      <3>. QED
        BY <3>1, <3>2
    <2>3. ASSUME NEW from, NEW after, SaveCredit(w, from, after),
                 after \in {"refund", "idle"}
          PROVE  CreditOwed'
      <3>1. row'.credit = FALSE
        BY <1>0, <2>3 DEF SaveCredit, Rows, Tasks
      <3>2. Goto(w, after)
        BY <2>3 DEF SaveCredit, EndWell, End
      <3>. QED
        BY <1>0, <3>1, <3>2, GotoMove, GivingMove
    <2>. QED
      BY <1>10, <2>1, <2>2, <2>3 DEF ReleaseStoreCredit
  <1>11. ASSUME NEW w \in Workers, Poll(w) \/ DeleteCharge(w)
         PROVE  CreditOwed'
    <2>1. SameCredit /\ task[w].pc \notin Giving
      BY <1>11 DEF Poll, DeleteCharge, SameCredit, At, Giving
    <2>2. PICK pc : Moved(w, pc)
      <3>1. CASE task' = [task EXCEPT ![w].pc = "save", ![w].outcome = "deleted"]
        BY <1>0, <3>1 DEF Moved, Tasks
      <3>2. CASE Goto(w, "pay") \/ Goto(w, "idle") \/ Goto(w, "repost")
        BY <1>0, <3>2, GotoMove
      <3>. QED
        BY <1>11, <3>1, <3>2 DEF Poll, DeleteCharge, End
    <2>. QED
      BY <2>1, <2>2, GivingMove
  <1>12. ASSUME NEW w \in Workers, NEW kind \in {"cancel", "manual"},
                Webhook(w) \/ Status(w) \/ Switch(w) \/ Cancel(w, kind)
         PROVE  CreditOwed'
    <2>1. PICK k, pc, mine, c, outcome : Begin(w, k, pc, mine, c, outcome)
      BY <1>12 DEF Webhook, Status, Switch, Cancel
    <2>2. SameCredit /\ task[w].pc \notin Giving
      BY <1>12, <2>1 DEF Webhook, Status, Switch, Cancel, SameCredit, Begin, At, Giving
    <2>. QED
      BY <1>0, <2>1, <2>2, BeginMove, GivingMove
  <1>13. ASSUME NEW w \in Workers, DeleteOrder(w)
         PROVE  CreditOwed'
    <2>1. Moved(w, "remove")
      BY <1>0, <1>13, BeginMove DEF DeleteOrder
    <2>. QED
      BY <2>1, GivingMove DEF Giving
  <1>14. ASSUME UNCHANGED task, SameCredit
         PROVE  CreditOwed'
    BY <1>14 DEF CreditOwed, SameCredit
  <1>15. ASSUME NEW w \in Workers, IgnoreWebhook(w)
         PROVE  CreditOwed'
    BY <1>14, <1>15 DEF IgnoreWebhook, SameCredit
  <1>16. ASSUME NEW c \in Charges, CustomerPays(c) \/ RefundSettles(c) \/ PanelRefund(c)
                                     \/ PanelDelete(c)
         PROVE  CreditOwed'
    BY <1>14, <1>16
       DEF CustomerPays, RefundSettles, PanelRefund, PanelDelete, GatewayStep, SameCredit
  <1>17. CASE ExpireOrder
    <2>1. row'.status = "expired" /\ UNCHANGED task
      BY <1>0, <1>17 DEF ExpireOrder, Rows
    <2>. QED
      BY <2>1 DEF CreditOwed
  <1>18. ~Crash
    BY DEF Crash
  <1>. QED
    BY <1>1, <1>2, <1>3, <1>4, <1>5, <1>6, <1>7, <1>8, <1>9, <1>10, <1>11, <1>12, <1>13, <1>15,
       <1>16, <1>17, <1>18 DEF CalmStep, Next

LEMMA LifeInvAlways == CalmSpec => []LifeInv
  <1>1. LifeInv /\ [Next /\ NoLostUpdate]_vars => LifeInv'
    BY LifeInvStep DEF CalmStep
  <1>. QED
    BY <1>1, LifeInit, PTL DEF CalmSpec

\* A canceled order keeps no credit of the customer once its requests are over, if none
\* of them is cut off by a crash: whichever of the cancellations, the refund of a
\* conflict and the deletion give it back, and however they interleave.
THEOREM CreditGivenBackHolds ==
  ASSUME "crash" \notin Faults
  PROVE  CalmSpec => []CreditGivenBack
  <1>1. Init => CreditOwed
    <2>. SUFFICES ASSUME Init PROVE row.status # "canceled"
      BY DEF CreditOwed
    <2>1. CASE row = NoRow
      BY <2>1 DEF NoRow
    <2>2. ASSUME NEW credit,
                 row = [NoRow EXCEPT !.status = "pending", !.gateway = "asaas",
                                     !.charge = FirstCharge, !.credit = credit]
          PROVE  row.status # "canceled"
      BY <2>2 DEF NoRow
    <2>. QED
      BY <2>1, <2>2 DEF Init
  <1>2. LifeInv /\ CreditOwed /\ [Next /\ NoLostUpdate]_vars => CreditOwed'
    BY CreditStep DEF CalmStep
  <1>3. CreditOwed => CreditGivenBack
    BY DEF CreditOwed, CreditGivenBack, Quiet, At, Giving
  <1>. QED
    BY <1>1, <1>2, <1>3, LifeInvAlways, PTL DEF CalmSpec

-----------------------------------------------------------------------------
(* Money reported as refunded *)

Back == {"refunding", "refunded"}
Switching == {"delete", "repost", "relink"}

NoCharge == \A c \in Charges : charge[c] = "none"

Known(c) == c # None => charge[c] # "none"

ByCredit(r) == r.gateway = "store_credit"

\* The order was paid once; only its deletion undoes that.
Settled(r) == r.payment \in {"confirmed", "refund_pending", "refunded"}

Returned(r) == ByCredit(r) \/ (r.charge # None /\ charge[r.charge] \in Back)

\* A row, or a copy of it, whose money is known, and was returned if it says so.
Honest(r) ==
    /\ Settled(r) => r.charge # None \/ ByCredit(r)
    /\ r.payment = "refunded" => Returned(r)

Alike(r, s) == r.charge = s.charge /\ (ByCredit(r) <=> ByCredit(s))

RowTrue ==
    /\ Known(row.charge)
    /\ Honest(row)
    /\ ByCredit(row) => NoCharge

Beginning ==
    row.status = "absent" => NoCharge /\ ~ByCredit(row) /\ \A w \in Workers : task[w] = Idle

EventsTrue ==
    \A e \in Events, c \in Charges : <<e, c>> \in events =>
        charge[c] # "none" /\ (e = "REFUNDED" => charge[c] = "refunded")

\* A checkout that has not saved the order with its charge yet is alone with it.
Linking(w) ==
    task[w].pc \in {"post", "free", "link"} \/ (task[w].pc = "save" /\ task[w].kind = "checkout")

Linked ==
    \A w \in Workers : Linking(w) =>
        /\ row.gateway = "none"
        /\ \A c \in Charges : charge[c] # "none" => c = task[w].charge
        /\ \A v \in Workers \ {w} :
            /\ ~Linking(v)
            /\ task[v].mine.gateway = "none"
            /\ task[v].pc \notin Switching

\* The copy a request carries: it names the charge and the gateway of the row, since
\* the order was paid.
Copy(w) ==
    LET mine == task[w].mine
    IN  /\ Known(task[w].charge) /\ Known(mine.charge)
        /\ Honest(mine)
        /\ ByCredit(mine) => NoCharge
        /\ Settled(mine) => Settled(row) \/ row.status = "deleted"
        /\ Settled(mine) /\ Settled(row) => Alike(row, mine)

\* What a request knows where it is.
Place(w) ==
    LET t == task[w]
    IN  /\ t.pc \in {"claimCredit", "claimCreditSave", "refund", "mark", "hookRefunded",
                     "refundPaid", "restock"} => Settled(t.mine)
        /\ t.pc = "claim" => Settled(t.mine) \/ row.status \in Dead
        /\ t.pc \in {"mark", "hookRefunded"} => Returned(t.mine)
        /\ t.pc = "restock" /\ t.outcome = "refunded" => Returned(t.mine)
        /\ t.pc \in Switching => ~Settled(t.mine)
        /\ t.pc \in Switching \cup {"drop", "poll", "link"} => t.charge # None
        /\ t.pc = "save" /\ t.kind # "checkout" => t.charge # None
        /\ t.pc = "save" /\ t.charge = None => ByCredit(t.mine) /\ t.outcome = "paid"
        /\ t.pc \in {"post", "free"} => t.charge = None
        /\ t.pc \in {"post", "free", "link"} => t.mine.gateway = "none" /\ t.kind = "checkout"
        /\ t.pc = "poll" => t.kind # "checkout"
        /\ t.pc = "pay" /\ t.charge = None => ByCredit(row) \/ row.status = "deleted"
        /\ t.pc = "credit" => t.charge # None \/ Settled(row) \/ row.status = "deleted"
        /\ t.pc = "creditSave" => t.charge # None \/ Settled(t.mine)

MoneyInv ==
    /\ RowTrue /\ Beginning /\ EventsTrue /\ Linked
    /\ \A w \in Workers : Copy(w) /\ Place(w)

-----------------------------------------------------------------------------
(* What a step leaves as it was *)

\* The row of a paid order keeps its charge; an order that credit pays stays one.
RowStep ==
    /\ row.status = "deleted" => row'.status = "deleted"
    /\ row.status \in Dead => row'.status \in Dead
    /\ row'.status = "absent" => row.status = "absent"
    /\ row'.status = "deleted" => ~Settled(row')
    /\ Settled(row) => Settled(row') \/ row'.status = "deleted"
    /\ Settled(row) /\ Settled(row') => Alike(row', row)
    /\ ByCredit(row) => ByCredit(row') \/ row'.status = "deleted"

\* A charge is not made twice, and money that is back stays back.
ChargeStep ==
    /\ \A c \in Charges :
        /\ charge[c] # "none" => charge'[c] # "none"
        /\ charge[c] \in Back => charge'[c] \in Back
        /\ charge[c] = "refunded" => charge'[c] = "refunded"
    /\ \/ NoCharge => NoCharge'
       \/ ~ByCredit(row) /\ \A v \in Workers : ~ByCredit(task[v].mine)
    /\ \A e \in Events, c \in Charges : <<e, c>> \in events' =>
        \/ <<e, c>> \in events
        \/ charge'[c] # "none" /\ (e = "REFUNDED" => charge'[c] = "refunded")

\* The request of w is no rival of a checkout that is linking its charge.
LinkStep(w) ==
    /\ Linking(w)' =>
        /\ Linking(w) /\ row'.gateway = row.gateway
        /\ \A c \in Charges : charge'[c] # "none" =>
            charge[c] # "none" \/ (c = task'[w].charge /\ NoCharge)
        /\ task'[w].charge = task[w].charge \/ NoCharge
    /\ ~Linking(w) =>
        /\ row'.gateway \in {row.gateway, task[w].mine.gateway, "none"}
        /\ task'[w].mine.gateway \in {row.gateway, task[w].mine.gateway, "none"}
        /\ task'[w].pc \in Switching => task[w].pc \in Switching \/ row.gateway = "asaas"
        /\ \A c \in Charges : charge'[c] # "none" => charge[c] # "none" \/ task[w].pc \in Switching

LEMMA RowStepBy ==
  ASSUME LifeInv, Turn,
         Settled(row) /\ Settled(row') => Alike(row', row),
         ByCredit(row) => ByCredit(row') \/ row'.status = "deleted"
  PROVE  RowStep
  <1>1. StatusesAgree /\ Decided
    BY DEF LifeInv
  <1>2. row.status = "deleted" => row.payment = "pending"
    BY <1>1 DEF StatusesAgree
  <1>3. Unpaid(row.status) => row.payment = "pending"
    BY <1>1 DEF StatusesAgree, Unpaid
  <1>. QED
    BY <1>1, <1>2, <1>3
       DEF RowStep, Turn, Same, Settled, Unpaid, Owes, Removable, Final, Dead, StatusesAgree

LEMMA RowStays ==
  ASSUME LifeInv, row' = row
  PROVE  RowStep
  BY DEF RowStep, Alike, LifeInv, StatusesAgree, Settled

LEMMA ChargesStay ==
  ASSUME charge' = charge, events' \subseteq events
  PROVE  ChargeStep
  BY DEF ChargeStep, NoCharge

LEMMA CopyStays ==
  ASSUME TypeOK, MoneyInv, RowStep, ChargeStep, NEW v \in Workers,
         task'[v].mine = task[v].mine, task'[v].charge = task[v].charge
  PROVE  Copy(v)'
  <1>1. Copy(v) /\ task[v].charge \in Charges \cup {None}
        /\ task[v].mine.charge \in Charges \cup {None}
    BY DEF MoneyInv, TypeOK, Tasks, Rows
  <1>2. Known(task[v].charge)' /\ Known(task[v].mine.charge)'
    BY <1>1 DEF Copy, Known, ChargeStep
  <1>3. Honest(task[v].mine)'
    BY <1>1 DEF Copy, Honest, Settled, Returned, ByCredit, ChargeStep
  <1>4. ByCredit(task[v].mine)' => NoCharge'
    BY <1>1 DEF Copy, ByCredit, ChargeStep
  <1>5. Settled(task[v].mine)' => Settled(row') \/ row'.status = "deleted"
    BY <1>1 DEF Copy, Settled, RowStep
  <1>6. Settled(task[v].mine)' /\ Settled(row') => Alike(row', task'[v].mine)
    BY <1>1 DEF Copy, Settled, RowStep, Alike, ByCredit
  <1>. QED
    BY <1>2, <1>3, <1>4, <1>5, <1>6 DEF Copy, Known, Honest, ByCredit, Settled, Alike, Returned

LEMMA PlaceStays ==
  ASSUME TypeOK, MoneyInv, RowStep, ChargeStep, NEW v \in Workers, task'[v] = task[v]
  PROVE  Place(v)'
  <1>1. Place(v) /\ task[v].mine.charge \in Charges \cup {None}
    BY DEF MoneyInv, TypeOK, Tasks, Rows
  <1>2. Returned(task[v].mine) => Returned(task[v].mine)'
    BY <1>1 DEF Returned, ByCredit, ChargeStep
  <1>. QED
    BY <1>1, <1>2 DEF Place, Settled, ByCredit, RowStep

LEMMA RowTrueStays ==
  ASSUME TypeOK, MoneyInv, ChargeStep, row'.charge = row.charge, row'.gateway = row.gateway,
         row'.payment = "refunded" => row.payment = "refunded",
         Settled(row') => Settled(row)
  PROVE  RowTrue'
  <1>1. RowTrue /\ row.charge \in Charges \cup {None}
    BY DEF MoneyInv, TypeOK, Rows
  <1>2. Known(row.charge)'
    BY <1>1 DEF RowTrue, Known, ChargeStep
  <1>3. Honest(row)'
    BY <1>1 DEF RowTrue, Honest, Returned, Settled, ByCredit, ChargeStep
  <1>4. (ByCredit(row) => NoCharge)'
    BY <1>1 DEF RowTrue, ByCredit, ChargeStep
  <1>. QED
    BY <1>2, <1>3, <1>4 DEF RowTrue

LEMMA EventsStay ==
  ASSUME MoneyInv, ChargeStep
  PROVE  EventsTrue'
  BY DEF MoneyInv, EventsTrue, ChargeStep

MoneyKept == MoneyInv' /\ RowStep /\ ChargeStep

\* One request goes on.
LEMMA MoneyKeeps ==
  ASSUME TypeOK, MoneyInv, NEW w \in Workers, \A v \in Workers \ {w} : task'[v] = task[v],
         row.status # "absent", RowStep, ChargeStep, LinkStep(w),
         RowTrue', Copy(w)', Place(w)'
  PROVE  MoneyKept
  <1>1. \A v \in Workers : Copy(v)' /\ Place(v)'
    BY CopyStays, PlaceStays
  <1>2. Beginning'
    BY DEF Beginning, RowStep
  <1>3. EventsTrue'
    BY EventsStay
  <1>4. Linked'
    <2>0. Linked
      BY DEF MoneyInv
    <2>1. \A v \in Workers \ {w} : Linking(v)' <=> Linking(v)
      BY DEF Linking
    <2>2. ASSUME Linking(w)'
          PROVE  /\ row'.gateway = "none"
                 /\ \A c \in Charges : charge'[c] # "none" => c = task'[w].charge
                 /\ \A v \in Workers \ {w} :
                      /\ ~Linking(v)' /\ task'[v].mine.gateway = "none"
                      /\ task'[v].pc \notin Switching
      <3>1. Linking(w) /\ row'.gateway = row.gateway
        BY <2>2 DEF LinkStep
      <3>2. \A c \in Charges : charge'[c] # "none" => c = task'[w].charge
        BY <2>0, <2>2, <3>1 DEF LinkStep, Linked, NoCharge
      <3>. QED
        BY <2>0, <2>1, <3>1, <3>2 DEF Linked
    <2>3. ASSUME NEW v \in Workers \ {w}, Linking(v)'
          PROVE  /\ row'.gateway = "none"
                 /\ \A c \in Charges : charge'[c] # "none" => c = task'[v].charge
                 /\ \A u \in Workers \ {v} :
                      /\ ~Linking(u)' /\ task'[u].mine.gateway = "none"
                      /\ task'[u].pc \notin Switching
      <3>1. /\ row.gateway = "none" /\ task'[v] = task[v]
            /\ \A c \in Charges : charge[c] # "none" => c = task[v].charge
            /\ \A u \in Workers \ {v} :
                 ~Linking(u) /\ task[u].mine.gateway = "none" /\ task[u].pc \notin Switching
        BY <2>0, <2>1, <2>3 DEF Linked
      <3>2. ~Linking(w) /\ task[w].mine.gateway = "none" /\ task[w].pc \notin Switching
        BY <3>1
      <3>3. ~Linking(w)'
        BY <3>2 DEF LinkStep
      <3>4. /\ row'.gateway = "none" /\ task'[w].mine.gateway = "none"
            /\ task'[w].pc \notin Switching
            /\ \A c \in Charges : charge'[c] # "none" => charge[c] # "none"
        BY <3>1, <3>2 DEF LinkStep
      <3>. QED
        BY <2>1, <3>1, <3>3, <3>4
    <2>. QED
      BY <2>2, <2>3 DEF Linked, Linking
  <1>. QED
    BY <1>1, <1>2, <1>3, <1>4 DEF MoneyInv, MoneyKept

\* The gateway, the sweep or a webhook that is ignored.
LEMMA MoneyStays ==
  ASSUME TypeOK, MoneyInv, UNCHANGED task, RowStep, ChargeStep,
         row'.charge = row.charge, row'.gateway = row.gateway, row'.payment = row.payment,
         \A c \in Charges : charge'[c] # "none" => charge[c] # "none"
  PROVE  MoneyKept
  <1>1. \A v \in Workers : Copy(v)' /\ Place(v)'
    BY CopyStays, PlaceStays
  <1>2. RowTrue'
    BY RowTrueStays DEF Settled
  <1>3. Beginning'
    BY DEF MoneyInv, Beginning, RowStep, NoCharge, ByCredit
  <1>4. Linked'
    BY DEF MoneyInv, Linked, Linking
  <1>. QED
    BY <1>1, <1>2, <1>3, <1>4, EventsStay DEF MoneyInv, MoneyKept

-----------------------------------------------------------------------------
(* Where a request goes *)

LEMMA GotoIs ==
  ASSUME TypeOK, NEW w \in Workers, NEW pc, Goto(w, pc)
  PROVE  /\ \A v \in Workers \ {w} : task'[v] = task[v]
         /\ pc = "idle" => task'[w] = Idle
         /\ pc # "idle" => /\ task'[w].pc = pc /\ task'[w].kind = task[w].kind
                           /\ task'[w].mine = task[w].mine /\ task'[w].charge = task[w].charge
                           /\ task'[w].outcome = task[w].outcome
  <1>1. task[w] \in Tasks /\ task'[w] = Continue(task[w], pc)
        /\ \A v \in Workers \ {w} : task'[v] = task[v]
    BY DEF Goto, TypeOK
  <1>2. CASE pc = "idle"
    BY <1>1, <1>2 DEF Continue
  <1>3. CASE pc # "idle"
    <2>1. task'[w] = [task[w] EXCEPT !.pc = pc]
      BY <1>1, <1>3 DEF Continue
    <2>. QED
      BY <1>1, <1>3, <2>1 DEF Tasks
  <1>. QED
    BY <1>2, <1>3, <1>1

LEMMA BeginIs ==
  ASSUME TypeOK, NEW w \in Workers, NEW kind, NEW pc, NEW mine, NEW c, NEW outcome,
         Begin(w, kind, pc, mine, c, outcome)
  PROVE  /\ \A v \in Workers \ {w} : task'[v] = task[v]
         /\ task[w].pc = "idle"
         /\ task'[w].pc = pc /\ task'[w].kind = kind /\ task'[w].mine = mine
         /\ task'[w].charge = c /\ task'[w].outcome = outcome
  BY DEF Begin, TypeOK, At

LEMMA IdleIsTrue ==
  ASSUME NEW w \in Workers, task'[w] = Idle
  PROVE  Copy(w)' /\ Place(w)'
  <1>1. /\ task'[w].pc = "idle" /\ task'[w].charge = None /\ task'[w].mine.charge = None
        /\ task'[w].mine.gateway = "none" /\ task'[w].mine.payment = "pending"
    BY DEF Idle, NoRow
  <1>2. Copy(w)'
    BY <1>1 DEF Copy, Known, Honest, Settled, ByCredit
  <1>. QED
    BY <1>1, <1>2 DEF Place, Switching

LEMMA GotoCopy ==
  ASSUME TypeOK, MoneyInv, RowStep, ChargeStep, NEW w \in Workers, NEW pc, Goto(w, pc)
  PROVE  Copy(w)'
  <1>1. CASE pc = "idle"
    BY <1>1, GotoIs, IdleIsTrue
  <1>2. CASE pc # "idle"
    <2>1. task'[w].mine = task[w].mine /\ task'[w].charge = task[w].charge
      BY <1>2, GotoIs
    <2>. QED
      BY <2>1, CopyStays
  <1>. QED
    BY <1>1, <1>2

\* A copy that was just read.
LEMMA FreshCopy ==
  ASSUME RowTrue', NEW w \in Workers, task'[w].mine = row', Known(task[w].charge)'
  PROVE  Copy(w)'
  BY DEF Copy, RowTrue, Alike

LEMMA GotoLinks ==
  ASSUME TypeOK, NEW w \in Workers, NEW pc, Goto(w, pc), ~Linking(w),
         pc \notin {"post", "free", "link", "save"},
         pc \in Switching => task[w].pc \in Switching,
         row'.gateway \in {row.gateway, task[w].mine.gateway, "none"},
         \A c \in Charges : charge'[c] # "none" => charge[c] # "none"
  PROVE  LinkStep(w)
  <1>1. task'[w].mine = task[w].mine \/ task'[w] = Idle
    BY GotoIs
  <1>2. task'[w].pc = pc
    BY GotoIs DEF Idle
  <1>3. task'[w].mine.gateway \in {task[w].mine.gateway, "none"}
    BY <1>1 DEF Idle, NoRow
  <1>4. ~Linking(w)'
    BY <1>2 DEF Linking
  <1>. QED
    BY <1>2, <1>3, <1>4 DEF LinkStep

\* A checkout that is over, or gave its charge to the row, links no more.
LEMMA GotoUnlinks ==
  ASSUME TypeOK, NEW w \in Workers, NEW pc, Goto(w, pc), Linking(w),
         pc \notin {"post", "free", "link", "save"}
  PROVE  LinkStep(w)
  <1>1. task'[w].pc = pc
    BY GotoIs DEF Idle
  <1>. QED
    BY <1>1 DEF LinkStep, Linking

\* A request that begins.
LEMMA BeginLinks ==
  ASSUME TypeOK, NEW w \in Workers, NEW kind, NEW pc, NEW mine, NEW c, NEW outcome,
         Begin(w, kind, pc, mine, c, outcome),
         pc \notin {"post", "free", "link"}, kind # "checkout",
         mine.gateway = row.gateway, row'.gateway = row.gateway, charge' = charge,
         pc \in Switching => row.gateway = "asaas"
  PROVE  LinkStep(w)
  <1>1. ~Linking(w) /\ ~Linking(w)'
    BY BeginIs DEF Linking
  <1>. QED
    BY <1>1, BeginIs DEF LinkStep

LEMMA PostChargeIs ==
  ASSUME TypeOK, NEW w \in Workers, NEW done \in Pcs \ {"idle"}, NEW failed, PostCharge(w, done, failed)
  PROVE  \/ Goto(w, failed) /\ UNCHANGED gatewayVars
         \/ \E c \in Charges, s \in {"open", "paid", "deleted"} :
              /\ charge[c] = "none"
              /\ charge' = [charge EXCEPT ![c] = s]
              /\ events' = IF s = "paid" THEN Notify("PAID", c) ELSE events
              /\ \A v \in Workers \ {w} : task'[v] = task[v]
              /\ \/ Goto(w, failed)
                 \/ /\ task'[w].pc = done /\ task'[w].kind = task[w].kind
                    /\ task'[w].mine = task[w].mine /\ task'[w].charge = c
                    /\ task'[w].outcome = s
  <1>2. ASSUME NEW c \in Charges, NEW s \in {"open", "paid", "deleted"}, NEW heard,
               task' = [task EXCEPT ![w] =
                          IF heard THEN [@ EXCEPT !.pc = done, !.charge = c, !.outcome = s]
                          ELSE Continue(@, failed)]
        PROVE  /\ \A v \in Workers \ {w} : task'[v] = task[v]
               /\ \/ Goto(w, failed)
                  \/ /\ task'[w].pc = done /\ task'[w].kind = task[w].kind
                     /\ task'[w].mine = task[w].mine /\ task'[w].charge = c
                     /\ task'[w].outcome = s
    <2>1. CASE heard
      <3>1. task' = [task EXCEPT ![w] =
                        [task[w] EXCEPT !.pc = done, !.charge = c, !.outcome = s]]
        BY <1>2, <2>1
      <3>. QED
        BY <3>1 DEF TypeOK, Tasks
    <2>2. CASE ~heard
      <3>1. Goto(w, failed)
        BY <1>2, <2>2 DEF Goto
      <3>2. \A v \in Workers \ {w} : task'[v] = task[v]
        BY <3>1, GotoIs
      <3>. QED
        BY <3>1, <3>2
    <2>. QED
      BY <2>1, <2>2
  <1>3. CASE ~(Goto(w, failed) /\ UNCHANGED gatewayVars)
    <2>1. PICK c \in Charges, s \in {"open", "paid", "deleted"}, heard \in Heard("post") :
            /\ charge[c] = "none"
            /\ charge' = [charge EXCEPT ![c] = s]
            /\ events' = IF s = "paid" THEN Notify("PAID", c) ELSE events
            /\ task' = [task EXCEPT ![w] =
                          IF heard THEN [@ EXCEPT !.pc = done, !.charge = c, !.outcome = s]
                          ELSE Continue(@, failed)]
      BY <1>3 DEF PostCharge
    <2>2. /\ \A v \in Workers \ {w} : task'[v] = task[v]
          /\ \/ Goto(w, failed)
             \/ /\ task'[w].pc = done /\ task'[w].kind = task[w].kind
                /\ task'[w].mine = task[w].mine /\ task'[w].charge = c
                /\ task'[w].outcome = s
      BY <1>2, <2>1
    <2>. QED
      BY <2>1, <2>2
  <1>. QED
    BY <1>3

LEMMA PostRefundIs ==
  ASSUME TypeOK, NEW w \in Workers, NEW c \in Charges, NEW done \in Pcs \ {"idle"}, NEW failed,
         PostRefund(w, c, done, failed)
  PROVE  \/ Goto(w, failed) /\ UNCHANGED gatewayVars
         \/ \E s \in Back :
              /\ charge[c] = "paid"
              /\ charge' = [charge EXCEPT ![c] = s]
              /\ events' = IF s = "refunded" THEN Notify("REFUNDED", c) ELSE events
              /\ \/ Goto(w, failed)
                 \/ /\ \A v \in Workers \ {w} : task'[v] = task[v]
                    /\ task'[w].pc = done /\ task'[w].kind = task[w].kind
                    /\ task'[w].mine = task[w].mine /\ task'[w].charge = task[w].charge
                    /\ task'[w].outcome = s
  <1>2. ASSUME NEW s \in Back, NEW heard,
               task' = [task EXCEPT ![w] =
                          IF heard THEN [@ EXCEPT !.pc = done, !.outcome = s]
                          ELSE Continue(@, failed)]
        PROVE  \/ Goto(w, failed)
               \/ /\ \A v \in Workers \ {w} : task'[v] = task[v]
                  /\ task'[w].pc = done /\ task'[w].kind = task[w].kind
                  /\ task'[w].mine = task[w].mine /\ task'[w].charge = task[w].charge
                  /\ task'[w].outcome = s
    <2>1. CASE heard
      <3>1. task' = [task EXCEPT ![w] = [task[w] EXCEPT !.pc = done, !.outcome = s]]
        BY <1>2, <2>1
      <3>. QED
        BY <3>1 DEF TypeOK, Tasks
    <2>2. CASE ~heard
      BY <1>2, <2>2 DEF Goto
    <2>. QED
      BY <2>1, <2>2
  <1>. QED
    BY <1>2 DEF PostRefund, Back

\* The gateway makes a charge for the checkout that is alone with it, or a new one for
\* an order that has one.
LEMMA ChargeMade ==
  ASSUME TypeOK, NEW c \in Charges, NEW s \in {"open", "paid", "deleted"},
         charge[c] = "none", charge' = [charge EXCEPT ![c] = s],
         events' = IF s = "paid" THEN Notify("PAID", c) ELSE events,
         ~NoCharge \/ (~ByCredit(row) /\ \A v \in Workers : ~ByCredit(task[v].mine))
  PROVE  ChargeStep
  <1>1. \A d \in Charges : charge'[d] = IF d = c THEN s ELSE charge[d]
    BY DEF TypeOK
  <1>2. \A e \in Events, d \in Charges : <<e, d>> \in events' =>
          <<e, d>> \in events \/ (e = "PAID" /\ d = c)
    BY DEF Notify
  <1>. QED
    BY <1>1, <1>2 DEF ChargeStep, Back

\* Money goes back.
LEMMA ChargeBack ==
  ASSUME TypeOK, NEW c \in Charges, NEW s \in Back, charge[c] \in {"paid", "refunding"},
         charge' = [charge EXCEPT ![c] = s],
         events' = IF s = "refunded" THEN Notify("REFUNDED", c) ELSE events
  PROVE  ChargeStep /\ charge'[c] \in Back
         /\ \A d \in Charges : charge'[d] # "none" => charge[d] # "none"
  <1>1. \A d \in Charges : charge'[d] = IF d = c THEN s ELSE charge[d]
    BY DEF TypeOK
  <1>2. \A e \in Events, d \in Charges : <<e, d>> \in events' =>
          <<e, d>> \in events \/ (s = "refunded" /\ d = c)
    BY DEF Notify
  <1>3. ~NoCharge
    BY DEF NoCharge
  <1>. QED
    BY <1>1, <1>2, <1>3 DEF ChargeStep, Back

\* A charge that was made changes, and is not on its way back.
LEMMA ChargeChanges ==
  ASSUME TypeOK, NEW c \in Charges, NEW s \in {"paid", "deleted", "open"}, charge[c] = "open",
         NEW e \in {"PAID", "DELETED"},
         charge' = [charge EXCEPT ![c] = s], events' = Notify(e, c)
  PROVE  ChargeStep /\ \A d \in Charges : charge'[d] # "none" => charge[d] # "none"
  <1>1. \A d \in Charges : charge'[d] = IF d = c THEN s ELSE charge[d]
    BY DEF TypeOK
  <1>2. \A f \in Events, d \in Charges : <<f, d>> \in events' =>
          <<f, d>> \in events \/ (f = e /\ d = c)
    BY DEF Notify
  <1>3. ~NoCharge
    BY DEF NoCharge
  <1>. QED
    BY <1>1, <1>2, <1>3 DEF ChargeStep, Back

-----------------------------------------------------------------------------
(* The steps *)

Before == TypeOK /\ LifeInv /\ MoneyInv /\ Turn

LEMMA NotAbsent ==
  ASSUME MoneyInv, NEW w \in Workers, task[w].pc # "idle"
  PROVE  row.status # "absent"
  BY DEF MoneyInv, Beginning, Idle

LEMMA Statuses ==
  ASSUME LifeInv
  PROVE  /\ Unpaid(row.status) => row.payment = "pending"
         /\ Unpaid(row.status) \/ ~Exists => ~Settled(row)
         /\ row.status \in {"paid", "stock_conflict"} => Settled(row)
         /\ row.status = "canceled" => row.payment \in {"refund_pending", "refunded", "failed"}
  BY DEF LifeInv, StatusesAgree, Unpaid, Exists, Settled

\* What the invariant says of one request.
LEMMA Here ==
  ASSUME Before, NEW w \in Workers
  PROVE  /\ TypeOK /\ LifeInv /\ MoneyInv /\ RowTrue /\ EventsTrue /\ Copy(w) /\ Place(w)
         /\ row \in Rows /\ task \in [Workers -> Tasks] /\ task[w].mine \in Rows
         /\ task[w].charge \in Charges \cup {None}
         /\ task[w].charge # None => ~NoCharge
         /\ Linking(w) => row.gateway = "none"
  <1>1. TypeOK /\ LifeInv /\ MoneyInv /\ Copy(w) /\ Place(w) /\ Linked /\ RowTrue /\ EventsTrue
    BY DEF Before, MoneyInv
  <1>2. /\ row \in Rows /\ task \in [Workers -> Tasks] /\ task[w].mine \in Rows
        /\ task[w].charge \in Charges \cup {None}
    BY <1>1 DEF TypeOK, Tasks
  <1>3. task[w].charge # None => ~NoCharge
    BY <1>1, <1>2 DEF Copy, Known, NoCharge
  <1>. QED
    BY <1>1, <1>2, <1>3 DEF Linked

\* A worker that ends, when the row was not written.
LEMMA EndMoney ==
  ASSUME Before, NEW w \in Workers, task[w].pc # "idle", Goto(w, "idle"), row' = row,
         charge' = charge, events' \subseteq events
  PROVE  MoneyKept
  <1>0. TypeOK /\ LifeInv /\ MoneyInv
    BY DEF Before
  <1>1. ChargeStep /\ RowStep /\ row.status # "absent"
    BY <1>0, ChargesStay, RowStays, NotAbsent
  <1>2. LinkStep(w)
    BY <1>0, GotoLinks, GotoUnlinks DEF Switching
  <1>3. RowTrue'
    BY <1>0, <1>1, RowTrueStays
  <1>4. Copy(w)' /\ Place(w)' /\ \A v \in Workers \ {w} : task'[v] = task[v]
    BY <1>0, GotoIs, IdleIsTrue
  <1>. QED
    BY <1>0, <1>1, <1>2, <1>3, <1>4, MoneyKeeps

LEMMA SaveMoney ==
  ASSUME Before, NEW w \in Workers, Save(w)
  PROVE  MoneyKept
  <1>0. /\ TypeOK /\ LifeInv /\ MoneyInv /\ RowTrue /\ Copy(w) /\ Place(w)
        /\ task[w].charge # None => ~NoCharge
        /\ Linking(w) => row.gateway = "none"
    BY Here
  <1>1. PICK pc \in {"pay", "drop", "idle"} :
          Goto(w, pc) /\ (pc = "drop" => task[w].outcome = "deleted")
    BY DEF Save, End
  <1>2. task[w].pc = "save" /\ row' = task[w].mine /\ charge' = charge /\ events' = events
    BY DEF Save, At, gatewayVars
  <1>3. ChargeStep
    BY <1>2, ChargesStay
  <1>4. Settled(row) /\ Settled(row') => Alike(row', row)
    BY <1>0, <1>2 DEF Copy, Alike
  <1>5. ~ByCredit(row)
    <2>1. CASE Linking(w)
      BY <1>0, <2>1 DEF ByCredit
    <2>2. CASE ~Linking(w)
      <3>1. task[w].charge # None
        BY <1>0, <1>2, <2>2 DEF Place, Linking
      <3>. QED
        BY <1>0, <3>1 DEF RowTrue
    <2>. QED
      BY <2>1, <2>2
  <1>6. RowStep
    BY <1>0, <1>4, <1>5, RowStepBy DEF Before
  <1>7. RowTrue'
    BY <1>0, <1>2 DEF Copy, RowTrue, Known, Honest, Settled, Returned, ByCredit, NoCharge
  <1>8. LinkStep(w)
    BY <1>0, <1>1, <1>2, GotoLinks, GotoUnlinks DEF Switching
  <1>9. Copy(w)'
    BY <1>0, <1>1, <1>3, <1>6, GotoCopy
  <1>10. Place(w)'
    <2>1. CASE pc = "idle"
      BY <1>0, <1>1, <2>1, GotoIs, IdleIsTrue
    <2>2. CASE pc \in {"pay", "drop"}
      <3>1. /\ task'[w].pc = pc /\ task'[w].charge = task[w].charge
            /\ task'[w].outcome = task[w].outcome
        BY <1>0, <1>1, <2>2, GotoIs
      <3>2. task[w].charge = None => ByCredit(row') /\ task[w].outcome = "paid"
        BY <1>0, <1>2 DEF Place
      <3>. QED
        BY <1>1, <2>2, <3>1, <3>2 DEF Place, Switching, ByCredit
    <2>. QED
      BY <2>1, <2>2
  <1>11. row.status # "absent" /\ \A v \in Workers \ {w} : task'[v] = task[v]
    BY <1>0, <1>1, <1>2, NotAbsent, GotoIs
  <1>. QED
    BY <1>0, <1>3, <1>6, <1>7, <1>8, <1>9, <1>10, <1>11, MoneyKeeps

LEMMA RelinkMoney ==
  ASSUME Before, NEW w \in Workers, Relink(w)
  PROVE  MoneyKept
  <1>0. /\ TypeOK /\ LifeInv /\ MoneyInv /\ RowTrue /\ Copy(w) /\ Place(w)
        /\ task[w].mine \in Rows
        /\ task[w].charge # None => ~NoCharge
    BY Here
  <1>1. /\ task[w].pc = "relink" /\ charge' = charge /\ events' = events
        /\ task[w].charge # None /\ ~Settled(task[w].mine)
    BY <1>0 DEF Relink, At, gatewayVars, Place, Switching
  <1>2. ChargeStep
    BY <1>1, ChargesStay
  <1>3. ~ByCredit(row) /\ ~ByCredit(task[w].mine)
    BY <1>0, <1>1 DEF RowTrue, Copy
  <1>4. PICK pc \in {"pay", "idle"} : /\ Goto(w, pc)
                                      /\ \/ row' = row
                                         \/ row' = [task[w].mine EXCEPT !.charge = task[w].charge]
    BY DEF Relink, End
  <1>5. row' # row => /\ row'.gateway = task[w].mine.gateway /\ row'.charge = task[w].charge
                      /\ ~Settled(row')
    BY <1>0, <1>1, <1>4 DEF Rows, Settled
  <1>6. RowStep
    <2>1. CASE row' = row
      BY <1>0, <2>1, RowStays
    <2>2. CASE row' # row
      BY <1>0, <1>3, <1>5, <2>2, RowStepBy DEF Before
    <2>. QED
      BY <2>1, <2>2
  <1>7. RowTrue'
    <2>1. CASE row' = row
      BY <1>0, <1>2, <2>1, RowTrueStays
    <2>2. CASE row' # row
      <3>1. ~ByCredit(row') /\ Known(row'.charge)
        BY <1>0, <1>3, <1>5, <2>2 DEF ByCredit, Copy
      <3>. QED
        BY <1>1, <1>5, <2>2, <3>1 DEF RowTrue, Honest, Known, Settled, ByCredit
    <2>. QED
      BY <2>1, <2>2
  <1>8. LinkStep(w)
    BY <1>0, <1>1, <1>4, <1>5, GotoLinks DEF Linking, Switching
  <1>9. Copy(w)'
    BY <1>0, <1>2, <1>4, <1>6, GotoCopy
  <1>10. Place(w)'
    <2>1. CASE pc = "idle"
      BY <1>0, <1>4, <2>1, GotoIs, IdleIsTrue
    <2>2. CASE pc = "pay"
      <3>1. task'[w].pc = pc /\ task'[w].charge = task[w].charge
        BY <1>0, <1>4, <2>2, GotoIs
      <3>. QED
        BY <1>1, <2>2, <3>1 DEF Place, Switching
    <2>. QED
      BY <2>1, <2>2
  <1>11. row.status # "absent" /\ \A v \in Workers \ {w} : task'[v] = task[v]
    BY <1>0, <1>1, <1>4, NotAbsent, GotoIs
  <1>. QED
    BY <1>0, <1>2, <1>6, <1>7, <1>8, <1>9, <1>10, <1>11, MoneyKeeps

LEMMA CreditMoney ==
  ASSUME Before, NoLostUpdate, NEW w \in Workers, ReleaseStoreCredit(w)
  PROVE  MoneyKept
  <1>0. /\ TypeOK /\ LifeInv /\ MoneyInv /\ RowTrue /\ Copy(w) /\ Place(w)
        /\ task[w].mine \in Rows /\ row \in Rows /\ task \in [Workers -> Tasks]
        /\ task[w].charge # None => ~NoCharge
    BY Here
  <1>1. ASSUME NEW from, NEW to, NEW after, ReadCredit(w, from, to, after),
               \/ from = "claimCredit" /\ to = "claimCreditSave" /\ after = "refund"
               \/ from = "credit" /\ to = "creditSave" /\ after = "idle"
        PROVE  MoneyKept
    <2>1. /\ task[w].pc = from /\ row' = row /\ charge' = charge /\ events' \subseteq events
          /\ ~Linking(w)
      BY <1>1 DEF ReadCredit, At, EndWell, gatewayVars, Linking
    <2>2. ChargeStep /\ RowStep /\ row.status # "absent"
      BY <1>0, <1>1, <2>1, ChargesStay, RowStays, NotAbsent
    <2>3. RowTrue'
      BY <1>0, <2>1, <2>2, RowTrueStays
    <2>4. CASE Exists /\ row.credit
      <3>1. task' = [task EXCEPT ![w].pc = to, ![w].mine = row]
        BY <1>1, <2>4 DEF ReadCredit
      <3>2. /\ task'[w].pc = to /\ task'[w].mine = row /\ task'[w].charge = task[w].charge
            /\ task'[w].kind = task[w].kind
            /\ \A v \in Workers \ {w} : task'[v] = task[v]
        BY <1>0, <3>1 DEF Tasks
      <3>3. LinkStep(w)
        BY <1>1, <2>1, <3>2 DEF LinkStep, Linking, Switching
      <3>4. Known(task[w].charge)'
        BY <1>0, <2>1, <3>2 DEF Copy, Known
      <3>5. Copy(w)'
        BY <2>1, <2>3, <3>2, <3>4, FreshCopy
      <3>6. from = "claimCredit" => row.status = "stock_conflict"
        BY <1>0, <2>1, <2>4 DEF LifeInv, Decided, Refunding, Exists
      <3>7. \/ Settled(row)
            \/ to = "creditSave" /\ task[w].charge # None
        BY <1>0, <1>1, <2>1, <2>4, <3>6, Statuses DEF Place, Exists
      <3>8. Place(w)'
        BY <1>1, <3>2, <3>7 DEF Place, Switching, Settled
      <3>. QED
        BY <1>0, <2>2, <2>3, <3>2, <3>3, <3>5, <3>8, MoneyKeeps
    <2>5. CASE ~(Exists /\ row.credit)
      <3>1. Goto(w, after)
        BY <1>1, <2>5 DEF ReadCredit, EndWell, End
      <3>2. CASE after = "idle"
        BY <1>1, <2>1, <3>1, <3>2, EndMoney
      <3>3. CASE after = "refund"
        <4>1. LinkStep(w)
          BY <1>0, <2>1, <3>1, <3>3, GotoLinks DEF Switching
        <4>2. Copy(w)'
          BY <1>0, <2>2, <3>1, GotoCopy
        <4>3. /\ task'[w].pc = after /\ task'[w].mine = task[w].mine
              /\ \A v \in Workers \ {w} : task'[v] = task[v]
          BY <1>0, <3>1, <3>3, GotoIs
        <4>4. Settled(task[w].mine)
          BY <1>0, <1>1, <2>1, <3>3 DEF Place
        <4>5. Place(w)'
          BY <3>3, <4>3, <4>4 DEF Place, Switching, Settled
        <4>. QED
          BY <1>0, <2>2, <2>3, <4>1, <4>2, <4>3, <4>5, MoneyKeeps
      <3>. QED
        BY <1>1, <3>2, <3>3
    <2>. QED
      BY <2>4, <2>5
  <1>2. ASSUME NEW from, NEW after, SaveCredit(w, from, after),
               \/ from = "claimCreditSave" /\ after = "refund"
               \/ from = "creditSave" /\ after = "idle"
        PROVE  MoneyKept
    <2>1. /\ task[w].pc = from /\ row' = [task[w].mine EXCEPT !.credit = FALSE]
          /\ charge' = charge /\ events' \subseteq events /\ Goto(w, after) /\ ~Linking(w)
      BY <1>2 DEF SaveCredit, At, EndWell, End, gatewayVars, Linking
    <2>2. /\ row'.charge = task[w].mine.charge /\ row'.gateway = task[w].mine.gateway
          /\ row'.payment = task[w].mine.payment /\ row'.status = task[w].mine.status
      BY <1>0, <2>1 DEF Rows
    <2>3. ChargeStep /\ row.status # "absent"
      BY <1>0, <1>2, <2>1, ChargesStay, NotAbsent
    <2>4. RowTrue'
      BY <1>0, <2>1, <2>2
         DEF Copy, RowTrue, Known, Honest, Settled, Returned, ByCredit, NoCharge
    <2>5. RowStep
      <3>1. CASE row' = row
        BY <1>0, <3>1, RowStays
      <3>2. CASE row' # row
        <4>1. task'[w] # task[w]
          BY <1>0, <1>2, <2>1, GotoMoves
        <4>2. row = [task[w].mine EXCEPT !.charge = row.charge, !.gateway = row.gateway]
          BY <1>2, <2>1, <3>2, <4>1 DEF NoLostUpdate
        <4>3. row.payment = task[w].mine.payment
          BY <1>0, <4>2 DEF Rows
        <4>4. Settled(row) => Alike(row', row)
          BY <1>0, <2>2, <4>3 DEF Copy, Settled, Alike, ByCredit
        <4>5. ByCredit(row) => ByCredit(row')
          <5>1. ByCredit(row) => Settled(task[w].mine)
            BY <1>0, <1>2, <2>1 DEF Place, RowTrue
          <5>. QED
            BY <4>3, <4>4, <5>1 DEF Settled, Alike
        <4>. QED
          BY <1>0, <4>4, <4>5, RowStepBy DEF Before
      <3>. QED
        BY <3>1, <3>2
    <2>6. LinkStep(w)
      BY <1>0, <1>2, <2>1, <2>2, GotoLinks DEF Switching
    <2>7. Copy(w)'
      BY <1>0, <2>1, <2>3, <2>5, GotoCopy
    <2>8. Place(w)'
      <3>1. CASE after = "idle"
        BY <1>0, <2>1, <3>1, GotoIs, IdleIsTrue
      <3>2. CASE after = "refund"
        <4>1. task'[w].pc = after /\ task'[w].mine = task[w].mine
          BY <1>0, <2>1, <3>2, GotoIs
        <4>2. Settled(task[w].mine)
          BY <1>0, <1>2, <2>1, <3>2 DEF Place
        <4>. QED
          BY <3>2, <4>1, <4>2 DEF Place, Switching, Settled
      <3>. QED
        BY <1>2, <3>1, <3>2
    <2>9. \A v \in Workers \ {w} : task'[v] = task[v]
      BY <1>0, <2>1, GotoIs
    <2>. QED
      BY <1>0, <2>3, <2>4, <2>5, <2>6, <2>7, <2>8, <2>9, MoneyKeeps
  <1>. QED
    BY <1>1, <1>2 DEF ReleaseStoreCredit

LEMMA CheckoutMoney ==
  ASSUME Before, NEW w \in Workers, Checkout(w)
  PROVE  MoneyKept
  <1>0. TypeOK /\ MoneyInv
    BY DEF Before
  <1>1. /\ row.status = "absent" /\ NoCharge /\ EventsTrue
        /\ \A v \in Workers : task[v] = Idle
    BY <1>0 DEF Checkout, MoneyInv, Beginning
  <1>2. /\ row'.status = "pending" /\ row'.payment = "pending" /\ row'.gateway = "none"
        /\ row'.charge = None /\ charge' = charge /\ events' = events
    BY DEF Checkout, NoRow, gatewayVars
  <1>3. PICK pc \in {"free", "post"} : Begin(w, "checkout", pc, NoRow, None, "none")
    BY DEF Checkout
  <1>4. /\ task'[w].pc = pc /\ task'[w].charge = None /\ task'[w].mine = NoRow
        /\ task'[w].kind = "checkout"
        /\ \A v \in Workers \ {w} : task'[v] = Idle
    BY <1>0, <1>1, <1>3, BeginIs
  <1>5. RowTrue'
    BY <1>2 DEF RowTrue, Known, Honest, Settled, ByCredit
  <1>6. \A v \in Workers \ {w} : Copy(v)' /\ Place(v)'
    BY <1>4, IdleIsTrue
  <1>7. Copy(w)' /\ Place(w)'
    BY <1>2, <1>4 DEF Copy, Place, Known, Honest, Settled, ByCredit, NoRow, Switching
  <1>9. RowStep /\ ChargeStep
    <2>1. ~Settled(row) /\ ~ByCredit(row)
      BY <1>0, <1>1, Statuses DEF Exists, Before, MoneyInv, Beginning
    <2>. QED
      BY <1>2, <2>1, RowStepBy, ChargesStay DEF Before
  <1>8. Linked'
    BY <1>1, <1>2, <1>4 DEF Linked, Linking, Idle, NoRow, Switching, NoCharge
  <1>. QED
    BY <1>1, <1>2, <1>5, <1>6, <1>7, <1>8, <1>9 DEF MoneyInv, MoneyKept, Beginning, EventsTrue

LEMMA PostMoney ==
  ASSUME Before, NEW w \in Workers, Post(w) \/ Repost(w)
  PROVE  MoneyKept
  <1>0. /\ TypeOK /\ LifeInv /\ MoneyInv /\ RowTrue /\ Copy(w) /\ Place(w) /\ Linked
        /\ task[w].charge # None => ~NoCharge
    BY Here DEF MoneyInv
  <1>1. PICK done \in {"link", "relink"}, failed \in {"rollback", "idle"} :
          /\ PostCharge(w, done, failed)
          /\ \/ task[w].pc = "post" /\ done = "link" /\ failed = "rollback"
             \/ task[w].pc = "repost" /\ done = "relink" /\ failed = "idle"
          /\ row' = row
    BY DEF Post, Repost, At
  <1>2. RowStep /\ row.status # "absent"
    BY <1>0, <1>1, RowStays, NotAbsent
  <1>3. task[w].pc = "post" => Linking(w) /\ task[w].charge = None /\ NoCharge
    <2>1. task[w].pc = "post" => Linking(w) /\ task[w].charge = None
      BY <1>0 DEF Linking, Place
    <2>. QED
      BY <1>0, <2>1, PaymentsAssumption DEF Linked, NoCharge
  <1>4. ~NoCharge \/ (~ByCredit(row) /\ \A v \in Workers : ~ByCredit(task[v].mine))
    <2>1. CASE task[w].pc = "repost"
      BY <1>0, <2>1 DEF Place, Switching
    <2>2. CASE task[w].pc = "post"
      BY <1>0, <1>3, <2>2 DEF Linked, Place, ByCredit
    <2>. QED
      BY <1>1, <2>1, <2>2
  <1>5. ASSUME ChargeStep, Goto(w, failed)
        PROVE  MoneyKept
    <2>1. LinkStep(w)
      <3>1. CASE task[w].pc = "post"
        BY <1>0, <1>1, <1>3, <1>5, <3>1, GotoUnlinks
      <3>2. CASE task[w].pc = "repost"
        <4>1. task'[w] = Idle
          BY <1>0, <1>1, <1>5, <3>2, GotoIs
        <4>. QED
          BY <1>1, <3>2, <4>1 DEF LinkStep, Linking, Idle, NoRow, Switching
      <3>. QED
        BY <1>1, <3>1, <3>2
    <2>2. RowTrue' /\ Copy(w)'
      BY <1>0, <1>1, <1>2, <1>5, RowTrueStays, GotoCopy
    <2>3. Place(w)'
      <3>1. task'[w].pc \in {"rollback", "idle"}
        BY <1>0, <1>1, <1>5, GotoIs DEF Idle
      <3>. QED
        BY <3>1 DEF Place, Switching
    <2>4. \A v \in Workers \ {w} : task'[v] = task[v]
      BY <1>0, <1>5, GotoIs
    <2>. QED
      BY <1>0, <1>2, <1>5, <2>1, <2>2, <2>3, <2>4, MoneyKeeps
  <1>6. ASSUME NEW c \in Charges, NEW s \in {"open", "paid", "deleted"},
               charge[c] = "none", charge' = [charge EXCEPT ![c] = s],
               events' = IF s = "paid" THEN Notify("PAID", c) ELSE events,
               \A v \in Workers \ {w} : task'[v] = task[v],
               task'[w].pc = done, task'[w].kind = task[w].kind,
               task'[w].mine = task[w].mine, task'[w].charge = c
        PROVE  MoneyKept
    <2>1. ChargeStep
      BY <1>0, <1>4, <1>6, ChargeMade
    <2>2. \A d \in Charges : charge'[d] # "none" => charge[d] # "none" \/ d = c
      BY <1>0, <1>6 DEF TypeOK
    <2>3. charge'[c] # "none" /\ c # None
      BY <1>0, <1>6, PaymentsAssumption DEF TypeOK
    <2>4. LinkStep(w)
      <3>1. CASE task[w].pc = "post"
        BY <1>1, <1>3, <1>6, <2>2, <3>1 DEF LinkStep
      <3>2. CASE task[w].pc = "repost"
        <4>1. ~Linking(w) /\ ~Linking(w)' /\ task[w].pc \in Switching
          BY <1>1, <1>6, <3>2 DEF Linking, Switching
        <4>. QED
          BY <1>1, <1>6, <4>1 DEF LinkStep
      <3>. QED
        BY <1>1, <3>1, <3>2
    <2>5. RowTrue'
      BY <1>0, <1>1, <2>1, RowTrueStays
    <2>6. Copy(w)'
      <3>1. /\ Known(task[w].mine.charge)' /\ (ByCredit(task[w].mine) => NoCharge)'
            /\ Honest(task[w].mine)'
            /\ (Settled(task[w].mine) => Settled(row) \/ row.status = "deleted")'
            /\ (Settled(task[w].mine) /\ Settled(row) => Alike(row, task[w].mine))'
        <4>1. task[w].mine.charge \in Charges \cup {None}
          BY <1>0, Here DEF Rows
        <4>2. Known(task[w].mine.charge)'
          BY <1>0, <1>6, <2>1, <4>1 DEF Copy, Known, ChargeStep
        <4>3. Honest(task[w].mine)'
          BY <1>0, <1>6, <2>1, <4>1 DEF Copy, Honest, Settled, Returned, ByCredit, ChargeStep
        <4>4. (ByCredit(task[w].mine) => NoCharge)'
          BY <1>0, <1>6, <2>1 DEF Copy, ByCredit, ChargeStep
        <4>. QED
          BY <1>0, <1>1, <1>6, <4>2, <4>3, <4>4 DEF Copy, Settled, Alike, ByCredit
      <3>. QED
        BY <1>6, <2>3, <3>1 DEF Copy, Known
    <2>7. Place(w)'
      <3>1. CASE task[w].pc = "post"
        BY <1>0, <1>1, <1>6, <2>3, <3>1 DEF Place, Switching
      <3>2. CASE task[w].pc = "repost"
        <4>1. ~Settled(task[w].mine)
          BY <1>0, <3>2 DEF Place, Switching
        <4>. QED
          BY <1>1, <1>6, <2>3, <3>2, <4>1 DEF Place, Switching, Settled
      <3>. QED
        BY <1>1, <3>1, <3>2
    <2>. QED
      BY <1>0, <1>2, <1>6, <2>1, <2>4, <2>5, <2>6, <2>7, MoneyKeeps
  <1>7. done \in Pcs \ {"idle"}
    BY <1>1 DEF Pcs
  <1>8. CASE Goto(w, failed) /\ UNCHANGED gatewayVars
    BY <1>5, <1>8, ChargesStay DEF gatewayVars
  <1>9. ASSUME NEW c \in Charges, NEW s \in {"open", "paid", "deleted"},
               charge[c] = "none", charge' = [charge EXCEPT ![c] = s],
               events' = IF s = "paid" THEN Notify("PAID", c) ELSE events,
               Goto(w, failed)
        PROVE  MoneyKept
    BY <1>0, <1>4, <1>5, <1>9, ChargeMade
  <1>. QED
    BY <1>0, <1>1, <1>6, <1>7, <1>8, <1>9, PostChargeIs

LEMMA LinkMoney ==
  ASSUME Before, NEW w \in Workers, Link(w)
  PROVE  MoneyKept
  <1>0. /\ TypeOK /\ LifeInv /\ MoneyInv /\ RowTrue /\ Copy(w) /\ Place(w) /\ Linked
        /\ row \in Rows /\ task \in [Workers -> Tasks] /\ task[w].charge \in Charges \cup {None}
    BY Here DEF MoneyInv
  <1>1. /\ task[w].pc \in {"link", "free"} /\ row' = row /\ charge' = charge /\ events' = events
        /\ Linking(w)
    BY DEF Link, At, gatewayVars, Linking
  <1>2. ChargeStep /\ RowStep /\ row.status # "absent"
    BY <1>0, <1>1, ChargesStay, RowStays, NotAbsent
  <1>3. RowTrue'
    BY <1>0, <1>1, <1>2, RowTrueStays
  <1>4. row.gateway = "none" /\ \A c \in Charges : charge[c] # "none" => c = task[w].charge
    BY <1>0, <1>1 DEF Linked
  <1>5. /\ Settled(row) => row.charge # None /\ row.charge = task[w].charge
        /\ row.charge = None \/ row.charge = task[w].charge
    <2>1. row.charge \in Charges \cup {None}
      BY <1>0 DEF Rows
    <2>2. row.charge = None \/ row.charge = task[w].charge
      BY <1>0, <1>4, <2>1 DEF RowTrue, Known
    <2>. QED
      BY <1>0, <1>4, <2>2 DEF RowTrue, Honest, ByCredit
  <1>6. ASSUME task[w].pc = "link",
               task' = [task EXCEPT ![w].pc = "save",
                     ![w].mine = [row EXCEPT !.gateway = "asaas", !.charge = task[w].charge]]
        PROVE  MoneyKept
    <2>1. /\ task'[w].pc = "save" /\ task'[w].charge = task[w].charge
          /\ task'[w].kind = task[w].kind
          /\ task'[w].mine.gateway = "asaas" /\ task'[w].mine.charge = task[w].charge
          /\ task'[w].mine.payment = row.payment
          /\ \A v \in Workers \ {w} : task'[v] = task[v]
      BY <1>0, <1>6 DEF Tasks, Rows
    <2>2. task[w].charge # None
      BY <1>0, <1>6 DEF Place
    <2>3. LinkStep(w)
      BY <1>1, <2>1 DEF LinkStep
    <2>4. Copy(w)'
      <3>1. Known(task[w].charge)' /\ Known(task[w].mine.charge)'
        BY <1>0, <1>1, <2>1 DEF Copy, Known
      <3>2. ~ByCredit(task[w].mine)' /\ ~ByCredit(row)
        BY <1>4, <2>1 DEF ByCredit
      <3>3. Settled(task[w].mine)' <=> Settled(row)
        BY <2>1 DEF Settled
      <3>4. Honest(task[w].mine)'
        <4>1. row.payment = "refunded" => charge[task[w].charge] \in Back
          BY <1>0, <1>5, <3>2 DEF RowTrue, Honest, Returned, Settled
        <4>. QED
          BY <1>1, <2>1, <2>2, <4>1 DEF Honest, Returned, Settled
      <3>5. Settled(row) => Alike(row, task'[w].mine)
        BY <1>5, <2>1, <3>2 DEF Alike, ByCredit
      <3>. QED
        BY <1>1, <3>1, <3>2, <3>3, <3>4, <3>5 DEF Copy
    <2>5. Place(w)'
      BY <2>1, <2>2 DEF Place, Switching
    <2>. QED
      BY <1>0, <1>2, <1>3, <2>1, <2>3, <2>4, <2>5, MoneyKeeps
  <1>7. ASSUME task[w].pc = "free",
               task' = [task EXCEPT ![w].pc = "save", ![w].outcome = "paid",
                     ![w].mine = [row EXCEPT !.gateway = "store_credit"]]
        PROVE  MoneyKept
    <2>1. /\ task'[w].pc = "save" /\ task'[w].charge = task[w].charge
          /\ task'[w].kind = task[w].kind /\ task'[w].outcome = "paid"
          /\ task'[w].mine.gateway = "store_credit" /\ task'[w].mine.charge = row.charge
          /\ task'[w].mine.payment = row.payment
          /\ \A v \in Workers \ {w} : task'[v] = task[v]
      BY <1>0, <1>7 DEF Tasks, Rows
    <2>2. task[w].charge = None
      BY <1>0, <1>7 DEF Place
    <2>3. NoCharge /\ ~Settled(row)
      BY <1>4, <1>5, <2>2, PaymentsAssumption DEF NoCharge
    <2>4. LinkStep(w)
      BY <1>1, <2>1 DEF LinkStep
    <2>5. Copy(w)'
      BY <1>0, <1>1, <1>5, <2>1, <2>2, <2>3
         DEF Copy, Known, Honest, Settled, ByCredit, NoCharge
    <2>6. task[w].kind = "checkout"
      BY <1>0, <1>7 DEF Place
    <2>7. Place(w)'
      BY <2>1, <2>6 DEF Place, Switching, ByCredit
    <2>. QED
      BY <1>0, <1>2, <1>3, <2>1, <2>4, <2>5, <2>7, MoneyKeeps
  <1>8. CASE End(w)
    BY <1>0, <1>1, <1>8, EndMoney DEF End
  <1>. QED
    BY <1>6, <1>7, <1>8 DEF Link, At

LEMMA ExistsStays ==
  ASSUME Before, NEW w \in Workers, Settled(task[w].mine), Exists
  PROVE  Settled(row) /\ Alike(row, task[w].mine)
  BY Here DEF Copy, Exists

\* A step that writes the row, keeps its charge and gateway, and goes on.
LEMMA WriteMoney ==
  ASSUME Before, NEW w \in Workers, NEW pc, Goto(w, pc), ~Linking(w),
         pc \notin {"post", "free", "link", "save"} \cup Switching,
         row'.gateway = row.gateway, row'.charge = row.charge,
         RowTrue', ChargeStep, task[w].pc # "idle",
         \A c \in Charges : charge'[c] # "none" => charge[c] # "none",
         pc # "idle" => Place(w)'
  PROVE  MoneyKept
  <1>0. TypeOK /\ LifeInv /\ MoneyInv
    BY DEF Before
  <1>1. RowStep /\ row.status # "absent"
    BY <1>0, RowStepBy, NotAbsent DEF Before, Alike, ByCredit
  <1>2. LinkStep(w)
    BY <1>0, GotoLinks
  <1>3. Copy(w)' /\ \A v \in Workers \ {w} : task'[v] = task[v]
    BY <1>0, <1>1, GotoCopy, GotoIs
  <1>4. Place(w)'
    BY <1>0, GotoIs, IdleIsTrue
  <1>. QED
    BY <1>0, <1>1, <1>2, <1>3, <1>4, MoneyKeeps

LEMMA RollbackMoney ==
  ASSUME Before, NEW w \in Workers, Rollback(w)
  PROVE  MoneyKept
  <1>0. /\ TypeOK /\ LifeInv /\ MoneyInv /\ row \in Rows /\ RowTrue
        /\ task[w].pc = "rollback" /\ charge' = charge /\ events' = events
    BY Here DEF Rollback, At, gatewayVars
  <1>1. CASE Unpaid(row.status)
    <2>1. /\ row'.gateway = row.gateway /\ row'.charge = row.charge /\ row'.payment = "failed"
          /\ Goto(w, "remove")
      BY <1>0, <1>1 DEF Rollback, Rows
    <2>2. ChargeStep
      BY <1>0, ChargesStay
    <2>3. RowTrue'
      BY <1>0, <2>1, <2>2, RowTrueStays DEF Settled
    <2>4. task'[w].pc = "remove"
      BY <1>0, <2>1, GotoIs
    <2>5. Place(w)'
      BY <2>4 DEF Place, Switching
    <2>. QED
      BY <1>0, <2>1, <2>2, <2>3, <2>5, WriteMoney DEF Linking, Switching
  <1>2. CASE ~Unpaid(row.status)
    BY <1>0, <1>2, EndMoney DEF Rollback, End
  <1>. QED
    BY <1>1, <1>2

LEMMA RemoveMoney ==
  ASSUME Before, NEW w \in Workers, Remove(w)
  PROVE  MoneyKept
  <1>0. /\ TypeOK /\ LifeInv /\ MoneyInv
        /\ task[w].pc = "remove" /\ charge' = charge /\ events' = events /\ Goto(w, "idle")
    BY Here DEF Remove, At, gatewayVars, End
  <1>1. /\ row'.status = "deleted" /\ row'.payment = "pending" /\ row'.gateway = "none"
        /\ row'.charge = None
    BY DEF Remove, NoRow
  <1>2. RowTrue' /\ ~Settled(row')
    BY <1>1 DEF RowTrue, Known, Honest, Settled, ByCredit
  <1>3. RowStep /\ row.status # "absent" /\ ChargeStep
    BY <1>0, <1>1, <1>2, RowStepBy, NotAbsent, ChargesStay DEF Before
  <1>4. LinkStep(w)
    BY <1>0, <1>1, GotoLinks DEF Linking, Switching
  <1>5. Copy(w)' /\ Place(w)' /\ \A v \in Workers \ {w} : task'[v] = task[v]
    BY <1>0, GotoIs, IdleIsTrue
  <1>. QED
    BY <1>0, <1>2, <1>3, <1>4, <1>5, MoneyKeeps

LEMMA DropMoney ==
  ASSUME Before, NEW w \in Workers, CancelPendingOrder(w)
  PROVE  MoneyKept
  <1>0. /\ TypeOK /\ LifeInv /\ MoneyInv /\ row \in Rows /\ RowTrue /\ Place(w)
        /\ task[w].pc = "drop" /\ charge' = charge /\ events' = events
    BY Here DEF CancelPendingOrder, At, gatewayVars
  <1>1. CASE Goto(w, "credit")
    <2>1. /\ row'.gateway = row.gateway /\ row'.charge = row.charge
          /\ row' = row \/ row'.payment = "failed"
      BY <1>0, <1>1 DEF CancelPendingOrder, Rows, End, Goto
    <2>2. ChargeStep
      BY <1>0, ChargesStay
    <2>3. RowTrue'
      BY <1>0, <2>1, <2>2, RowTrueStays DEF Settled
    <2>4. task'[w].pc = "credit" /\ task'[w].charge # None
      BY <1>0, <1>1, GotoIs DEF Place
    <2>5. Place(w)'
      BY <2>4 DEF Place, Switching
    <2>. QED
      BY <1>0, <1>1, <2>1, <2>2, <2>3, <2>5, WriteMoney DEF Linking, Switching
  <1>2. CASE Goto(w, "idle") /\ row' = row
    BY <1>0, <1>2, EndMoney
  <1>. QED
    BY <1>1, <1>2 DEF CancelPendingOrder, End

LEMMA PaidMoney ==
  ASSUME Before, NEW w \in Workers, MarkOrderPaid(w)
  PROVE  MoneyKept
  <1>0. /\ TypeOK /\ LifeInv /\ MoneyInv /\ row \in Rows /\ RowTrue /\ Place(w) /\ Copy(w)
        /\ task \in [Workers -> Tasks] /\ task[w].charge \in Charges \cup {None}
        /\ task[w].charge # None => ~NoCharge
        /\ task[w].pc = "pay" /\ charge' = charge /\ events' \subseteq events
    BY Here DEF MarkOrderPaid, At, gatewayVars, CommitOrder, ConflictOrder, EndWell
  <1>1. ChargeStep /\ ~Linking(w) /\ row.status # "absent"
    BY <1>0, ChargesStay, NotAbsent DEF Linking
  <1>2. ASSUME Unpaid(row.status), row'.gateway = row.gateway, row'.payment # "refunded",
               row'.charge = IF task[w].charge = None THEN row.charge ELSE task[w].charge
        PROVE  RowTrue' /\ RowStep
    <2>1. ~Settled(row)
      BY <1>0, <1>2, Statuses
    <2>2. Known(row'.charge)
      BY <1>0, <1>2 DEF RowTrue, Copy
    <2>3. row'.charge # None \/ ByCredit(row')
      BY <1>0, <1>2 DEF Place, ByCredit, Unpaid
    <2>4. RowTrue'
      BY <1>0, <1>2, <2>2, <2>3 DEF RowTrue, Known, Honest, ByCredit, NoCharge
    <2>. QED
      BY <1>0, <1>2, <2>1, <2>4, RowStepBy DEF Before, ByCredit
  <1>3. CASE CommitOrder(w) /\ Unpaid(row.status)
    <2>1. /\ row'.gateway = row.gateway /\ row'.payment = "confirmed" /\ Goto(w, "idle")
          /\ row'.charge = IF task[w].charge = None THEN row.charge ELSE task[w].charge
      BY <1>0, <1>3 DEF CommitOrder, EndWell, End, Rows
    <2>2. LinkStep(w)
      BY <1>0, <1>1, <2>1, GotoLinks DEF Switching
    <2>3. Copy(w)' /\ Place(w)' /\ \A v \in Workers \ {w} : task'[v] = task[v]
      BY <1>0, <2>1, GotoIs, IdleIsTrue
    <2>. QED
      BY <1>0, <1>1, <1>2, <1>3, <2>1, <2>2, <2>3, MoneyKeeps
  <1>4. CASE ConflictOrder(w) /\ Unpaid(row.status)
    <2>1. /\ row'.gateway = row.gateway /\ row'.payment = "refund_pending"
          /\ row'.charge = IF task[w].charge = None THEN row.charge ELSE task[w].charge
          /\ task'[w].pc = "claim" /\ task'[w].mine = row' /\ task'[w].charge = task[w].charge
          /\ \A v \in Workers \ {w} : task'[v] = task[v]
      BY <1>0, <1>4 DEF ConflictOrder, Rows, Tasks
    <2>2. LinkStep(w)
      BY <1>0, <1>1, <2>1 DEF LinkStep, Linking, Switching
    <2>3. Known(task[w].charge)'
      BY <1>0, <2>1 DEF Copy, Known
    <2>4. Copy(w)'
      BY <1>2, <1>4, <2>1, <2>3, FreshCopy
    <2>5. Place(w)'
      BY <2>1 DEF Place, Settled, Switching
    <2>. QED
      BY <1>0, <1>1, <1>2, <1>4, <2>1, <2>2, <2>4, <2>5, MoneyKeeps
  <1>5. CASE /\ row.status \in {"canceled", "stock_conflict"} /\ row' = row
             /\ task' = [task EXCEPT ![w].pc = "claim", ![w].mine = row]
    <2>1. /\ task'[w].pc = "claim" /\ task'[w].mine = row' /\ task'[w].charge = task[w].charge
          /\ \A v \in Workers \ {w} : task'[v] = task[v]
      BY <1>0, <1>5 DEF Tasks
    <2>2. LinkStep(w)
      BY <1>0, <1>1, <1>5, <2>1 DEF LinkStep, Linking, Switching
    <2>3. RowStep /\ RowTrue'
      BY <1>0, <1>1, <1>5, RowStays, RowTrueStays
    <2>4. Known(task[w].charge)'
      BY <1>0, <2>1 DEF Copy, Known
    <2>5. Copy(w)'
      BY <2>1, <2>3, <2>4, FreshCopy
    <2>6. Settled(row) \/ row.status \in Dead
      BY <1>0, <1>5, Statuses DEF Dead
    <2>7. Place(w)'
      BY <1>5, <2>1, <2>6 DEF Place, Settled, Switching
    <2>. QED
      BY <1>0, <1>1, <2>1, <2>2, <2>3, <2>5, <2>7, MoneyKeeps
  <1>6. CASE End(w) /\ row' = row
    BY <1>0, <1>6, EndMoney DEF End
  <1>. QED
    BY <1>3, <1>4, <1>5, <1>6 DEF MarkOrderPaid, EndWell

LEMMA ClaimMoney ==
  ASSUME Before, NEW w \in Workers, ClaimStockConflictRefund(w)
  PROVE  MoneyKept
  <1>0. /\ TypeOK /\ LifeInv /\ MoneyInv /\ row \in Rows /\ Place(w)
        /\ task[w].pc = "claim" /\ charge' = charge /\ events' \subseteq events
    BY Here DEF ClaimStockConflictRefund, At, gatewayVars, EndWell
  <1>1. ASSUME NEW pc \in {"claimCredit", "refund"}, Claimable, Goto(w, pc),
               row' = [row EXCEPT !.claimed = TRUE]
        PROVE  MoneyKept
    <2>1. /\ row'.gateway = row.gateway /\ row'.charge = row.charge
          /\ row'.payment = row.payment
      BY <1>0, <1>1 DEF Rows
    <2>2. ChargeStep
      BY <1>0, ChargesStay
    <2>3. RowTrue'
      BY <1>0, <2>1, <2>2, RowTrueStays DEF Settled
    <2>4. task'[w].pc = pc /\ task'[w].mine = task[w].mine
      BY <1>0, <1>1, GotoIs
    <2>5. Settled(task[w].mine)
      BY <1>0, <1>1 DEF Place, Claimable, Dead
    <2>6. Place(w)'
      BY <1>1, <2>4, <2>5 DEF Place, Switching, Settled
    <2>. QED
      BY <1>0, <1>1, <2>1, <2>2, <2>3, <2>6, WriteMoney DEF Linking, Switching
  <1>2. CASE EndWell(w) /\ row' = row
    BY <1>0, <1>2, EndMoney DEF EndWell, End
  <1>. QED
    BY <1>1, <1>2 DEF ClaimStockConflictRefund

LEMMA ReleaseClaimMoney ==
  ASSUME Before, NEW w \in Workers, ReleaseClaim(w)
  PROVE  MoneyKept
  <1>0. /\ TypeOK /\ LifeInv /\ MoneyInv /\ row \in Rows
        /\ task[w].pc = "unclaim" /\ charge' = charge /\ events' \subseteq events
        /\ Goto(w, "idle")
    BY Here DEF ReleaseClaim, At, EndWell, End
  <1>1. /\ row'.gateway = row.gateway /\ row'.charge = row.charge
        /\ row'.payment = row.payment
    BY <1>0 DEF ReleaseClaim, Rows
  <1>2. ChargeStep
    BY <1>0, ChargesStay
  <1>3. RowTrue'
    BY <1>0, <1>1, <1>2, RowTrueStays DEF Settled
  <1>. QED
    BY <1>0, <1>1, <1>2, <1>3, WriteMoney DEF Linking, Switching

\* markRefunded, of a conflict or of a canceled order, when the money is back.
LEMMA RefundedMoney ==
  ASSUME Before, NEW w \in Workers, task[w].pc \in {"mark", "hookRefunded"},
         Goto(w, "idle"), charge' = charge, events' \subseteq events,
         row' = IF Exists THEN [row EXCEPT !.payment = "refunded"] ELSE row
  PROVE  MoneyKept
  <1>0. /\ TypeOK /\ LifeInv /\ MoneyInv /\ row \in Rows /\ RowTrue /\ Place(w)
    BY Here
  <1>1. CASE ~Exists
    BY <1>1, EndMoney
  <1>2. CASE Exists
    <2>1. Settled(row) /\ Alike(row, task[w].mine) /\ Returned(task[w].mine)
      BY <1>0, <1>2, ExistsStays DEF Place
    <2>2. /\ row'.gateway = row.gateway /\ row'.charge = row.charge
          /\ row'.payment = "refunded"
      BY <1>0, <1>2 DEF Rows
    <2>3. ChargeStep
      BY <1>0, ChargesStay
    <2>4. Returned(row)
      BY <2>1 DEF Returned, Alike
    <2>5. RowTrue'
      BY <1>0, <2>1, <2>2, <2>4
         DEF RowTrue, Known, Honest, Settled, Returned, ByCredit, NoCharge
    <2>. QED
      BY <1>0, <2>2, <2>3, <2>5, WriteMoney DEF Linking, Switching
  <1>. QED
    BY <1>1, <1>2

LEMMA MarkMoney ==
  ASSUME Before, NEW w \in Workers, MarkConflictRefunded(w)
  PROVE  MoneyKept
  <1>0. TypeOK /\ LifeInv /\ MoneyInv /\ task[w].pc = "mark"
    BY DEF MarkConflictRefunded, At, Before
  <1>1. CASE EndWell(w) /\ row' = IF Exists THEN [row EXCEPT !.payment = "refunded"] ELSE row
    BY <1>0, <1>1, RefundedMoney DEF EndWell, End
  <1>2. CASE Goto(w, "unclaim") /\ row' = row /\ UNCHANGED gatewayVars
    <2>1. ChargeStep /\ charge' = charge
      BY <1>2, ChargesStay DEF gatewayVars
    <2>2. RowTrue'
      BY <1>0, <1>2, <2>1, RowTrueStays
    <2>3. task'[w].pc = "unclaim"
      BY <1>0, <1>2, GotoIs
    <2>4. Place(w)'
      BY <2>3 DEF Place, Switching
    <2>. QED
      BY <1>0, <1>2, <2>1, <2>2, <2>4, WriteMoney DEF Linking, Switching
  <1>. QED
    BY <1>1, <1>2 DEF MarkConflictRefunded

\* POST /payments/ID/refund of the charge a request has in its copy.
LEMMA PostRefundMoney ==
  ASSUME Before, NEW w \in Workers, NEW done \in {"mark", "restock"},
         NEW failed \in {"unclaim", "idle"},
         PostRefund(w, task[w].mine.charge, done, failed), task[w].mine.charge \in Charges,
         Settled(task[w].mine), row' = row, task[w].pc \in {"refund", "refundPaid"}
  PROVE  MoneyKept
  <1>0. /\ TypeOK /\ LifeInv /\ MoneyInv /\ Copy(w)
        /\ ~Linking(w)
    BY Here DEF Linking
  <1>1. RowStep /\ row.status # "absent"
    BY <1>0, RowStays, NotAbsent
  <1>2. ASSUME ChargeStep, \A d \in Charges : charge'[d] # "none" => charge[d] # "none",
               Goto(w, failed)
        PROVE  MoneyKept
    <2>1. RowTrue'
      BY <1>0, <1>2, RowTrueStays
    <2>2. failed = "unclaim" => Place(w)'
      <3>1. failed = "unclaim" => task'[w].pc = "unclaim"
        BY <1>0, <1>2, GotoIs
      <3>. QED
        BY <3>1 DEF Place, Switching
    <2>. QED
      BY <1>0, <1>2, <2>1, <2>2, WriteMoney DEF Switching
  <1>3. CASE Goto(w, failed) /\ UNCHANGED gatewayVars
    BY <1>2, <1>3, ChargesStay DEF gatewayVars
  <1>4. ASSUME NEW s \in Back, charge[task[w].mine.charge] = "paid",
               charge' = [charge EXCEPT ![task[w].mine.charge] = s],
               events' = IF s = "refunded" THEN Notify("REFUNDED", task[w].mine.charge) ELSE events
        PROVE  /\ ChargeStep /\ charge'[task[w].mine.charge] \in Back
               /\ \A d \in Charges : charge'[d] # "none" => charge[d] # "none"
    BY <1>0, <1>4, ChargeBack
  <1>5. ASSUME ChargeStep, charge'[task[w].mine.charge] \in Back,
               \A d \in Charges : charge'[d] # "none" => charge[d] # "none",
               \A v \in Workers \ {w} : task'[v] = task[v],
               task'[w].pc = done, task'[w].mine = task[w].mine, task'[w].charge = task[w].charge
        PROVE  MoneyKept
    <2>1. RowTrue' /\ Copy(w)'
      BY <1>0, <1>1, <1>5, RowTrueStays, CopyStays
    <2>2. LinkStep(w)
      BY <1>0, <1>5 DEF LinkStep, Linking, Switching
    <2>3. Returned(task[w].mine)'
      BY <1>5, PaymentsAssumption DEF Returned
    <2>4. Place(w)'
      BY <1>5, <2>3 DEF Place, Switching, Settled, Returned
    <2>. QED
      BY <1>0, <1>1, <1>5, <2>1, <2>2, <2>4, MoneyKeeps
  <1>6. done \in Pcs \ {"idle"}
    BY DEF Pcs
  <1>. QED
    BY <1>0, <1>2, <1>3, <1>4, <1>5, <1>6, PostRefundIs

LEMMA RefundMoney ==
  ASSUME Before, NEW w \in Workers, RefundStockConflict(w) \/ RefundPaid(w)
  PROVE  MoneyKept
  <1>0. /\ TypeOK /\ LifeInv /\ MoneyInv /\ Place(w) /\ row' = row
        /\ task[w].pc \in {"refund", "refundPaid"} /\ Settled(task[w].mine)
        /\ task[w].mine \in Rows
    BY Here DEF RefundStockConflict, RefundPaid, At, Place
  <1>1. CASE RefundPaid(w)
    <2>1. task[w].mine.charge \in Charges
      BY <1>0, <1>1 DEF RefundPaid, At, LifeInv, CalmInv, TypeInv, ChargesKnown
    <2>. QED
      BY <1>0, <1>1, <2>1, PostRefundMoney DEF RefundPaid
  <1>2. CASE task[w].mine.charge # None /\ PostRefund(w, task[w].mine.charge, "mark", "unclaim")
    <2>1. task[w].mine.charge \in Charges
      BY <1>0, <1>2 DEF Rows
    <2>. QED
      BY <1>0, <1>2, <2>1, PostRefundMoney
  <1>3. ASSUME NEW pc \in {"mark", "unclaim"}, Goto(w, pc), UNCHANGED gatewayVars,
               pc = "mark" => ByCredit(task[w].mine)
        PROVE  MoneyKept
    <2>1. ChargeStep /\ charge' = charge
      BY <1>3, ChargesStay DEF gatewayVars
    <2>2. RowTrue'
      BY <1>0, <2>1, RowTrueStays
    <2>3. task'[w].pc = pc /\ task'[w].mine = task[w].mine
      BY <1>0, <1>3, GotoIs
    <2>4. Place(w)'
      BY <1>0, <1>3, <2>3 DEF Place, Switching, Settled, Returned, ByCredit
    <2>. QED
      BY <1>0, <1>3, <2>1, <2>2, <2>4, WriteMoney DEF Linking, Switching
  <1>. QED
    BY <1>1, <1>2, <1>3 DEF RefundStockConflict, ByCredit

\* A request that begins with the row it has read, and writes nothing.
LEMMA BeginMoney ==
  ASSUME Before, NEW w \in Workers, NEW kind, NEW pc, NEW c, NEW outcome,
         Begin(w, kind, pc, row, c, outcome), row' = row, charge' = charge, events' = events,
         pc \notin {"post", "free", "link"}, kind # "checkout", row.status # "absent",
         pc \in Switching => row.gateway = "asaas",
         Known(c),
         Place(w)'
  PROVE  MoneyKept
  <1>0. TypeOK /\ LifeInv /\ MoneyInv
    BY DEF Before
  <1>1. ChargeStep /\ RowStep
    BY <1>0, ChargesStay, RowStays
  <1>2. RowTrue'
    BY <1>0, <1>1, RowTrueStays
  <1>3. LinkStep(w)
    BY <1>0, BeginLinks
  <1>4. /\ task'[w].mine = row' /\ task'[w].charge = c
        /\ \A v \in Workers \ {w} : task'[v] = task[v]
    BY <1>0, BeginIs
  <1>5. Known(task[w].charge)'
    BY <1>4 DEF Known
  <1>6. Copy(w)'
    BY <1>2, <1>4, <1>5, FreshCopy
  <1>. QED
    BY <1>0, <1>1, <1>2, <1>3, <1>4, <1>6, MoneyKeeps

LEMMA WebhookMoney ==
  ASSUME Before, NEW w \in Workers, Webhook(w)
  PROVE  MoneyKept
  <1>0. /\ TypeOK /\ LifeInv /\ MoneyInv /\ RowTrue /\ EventsTrue /\ row \in Rows
        /\ row' = row /\ charge' = charge /\ events' = events
    BY Here DEF Webhook, gatewayVars
  <1>1. PICK e \in Events, c \in Charges :
          /\ <<e, c>> \in events /\ row.charge \in {None, c} /\ Exists
          /\ \/ e = "PAID" /\ Begin(w, e, "pay", row, c, "none")
             \/ /\ e = "REFUNDED" /\ row.status = "canceled" /\ row.payment = "refund_pending"
                /\ Begin(w, e, "hookRefunded", row, c, "none")
             \/ /\ e = "DELETED" /\ Unpaid(row.status)
                /\ Begin(w, e, "save", [row EXCEPT !.charge = c], c, "deleted")
    BY DEF Webhook
  <1>2. c # None /\ Known(c) /\ e # "checkout" /\ row.status # "absent"
    BY <1>0, <1>1, PaymentsAssumption DEF EventsTrue, Known, Events, Exists
  <1>3. CASE Begin(w, e, "pay", row, c, "none")
    <2>1. task'[w].pc = "pay" /\ task'[w].charge = c
      BY <1>0, <1>3, BeginIs
    <2>2. Place(w)'
      BY <1>2, <2>1 DEF Place, Switching
    <2>. QED
      BY <1>0, <1>2, <1>3, <2>2, BeginMoney DEF Switching
  <1>4. CASE /\ e = "REFUNDED" /\ row.status = "canceled" /\ row.payment = "refund_pending"
             /\ Begin(w, e, "hookRefunded", row, c, "none")
    <2>1. /\ task'[w].pc = "hookRefunded" /\ task'[w].mine = row
      BY <1>0, <1>4, BeginIs
    <2>2. Settled(row) /\ charge[c] \in Back
      BY <1>0, <1>1, <1>4 DEF Settled, EventsTrue, Back
    <2>3. Returned(row)
      BY <1>0, <1>1, <2>2 DEF RowTrue, Honest, Returned
    <2>4. Place(w)'
      BY <1>0, <2>1, <2>2, <2>3 DEF Place, Switching, Settled, Returned, ByCredit
    <2>. QED
      BY <1>0, <1>2, <1>4, <2>4, BeginMoney DEF Switching
  <1>5. CASE Unpaid(row.status) /\ Begin(w, e, "save", [row EXCEPT !.charge = c], c, "deleted")
    <2>1. /\ task'[w].pc = "save" /\ task'[w].kind = e /\ task'[w].charge = c
          /\ task'[w].mine.charge = c
          /\ task'[w].mine.gateway = row.gateway /\ task'[w].mine.payment = row.payment
          /\ \A v \in Workers \ {w} : task'[v] = task[v]
      BY <1>0, <1>5, BeginIs DEF Rows
    <2>2. ChargeStep /\ RowStep
      BY <1>0, ChargesStay, RowStays
    <2>3. RowTrue'
      BY <1>0, <2>2, RowTrueStays
    <2>4. LinkStep(w)
      <3>1. ~Linking(w) /\ ~Linking(w)'
        BY <1>0, <1>2, <1>5, <2>1, BeginIs DEF Linking
      <3>. QED
        BY <1>0, <2>1, <3>1 DEF LinkStep, Switching
    <2>5. row.payment = "pending"
      BY <1>0, <1>5, Statuses
    <2>6. Copy(w)'
      BY <1>0, <1>2, <2>1, <2>5 DEF Copy, RowTrue, Known, Honest, Settled, ByCredit, NoCharge
    <2>7. Place(w)'
      BY <1>2, <2>1 DEF Place, Switching
    <2>. QED
      BY <1>0, <1>2, <2>1, <2>2, <2>3, <2>4, <2>6, <2>7, MoneyKeeps
  <1>. QED
    BY <1>1, <1>3, <1>4, <1>5

LEMMA BeginsMoney ==
  ASSUME Before, NEW w \in Workers, NEW kind \in {"cancel", "manual"},
         Status(w) \/ Switch(w) \/ Cancel(w, kind)
  PROVE  MoneyKept
  <1>0. /\ TypeOK /\ LifeInv /\ MoneyInv /\ RowTrue /\ row \in Rows
        /\ row' = row /\ charge' = charge /\ events' = events
    BY Here DEF Status, Switch, Cancel, gatewayVars
  <1>1. Known(row.charge) /\ (row.status = "paid" => Settled(row))
    BY <1>0, Statuses DEF RowTrue
  <1>2. CASE Status(w)
    <2>1. /\ Begin(w, "status", "poll", row, row.charge, "none")
          /\ row.charge # None /\ row.status # "absent"
      BY <1>2 DEF Status, Unpaid
    <2>2. /\ task'[w].pc = "poll" /\ task'[w].charge = row.charge /\ task'[w].kind = "status"
      BY <1>0, <2>1, BeginIs
    <2>3. Place(w)'
      BY <2>1, <2>2 DEF Place, Switching
    <2>. QED
      BY <1>0, <1>1, <2>1, <2>3, BeginMoney DEF Switching
  <1>3. CASE Switch(w)
    <2>1. /\ Begin(w, "switch", "delete", row, row.charge, "none")
          /\ row.charge # None /\ row.status = "pending" /\ row.gateway = "asaas"
      BY <1>3 DEF Switch
    <2>2. /\ task'[w].pc = "delete" /\ task'[w].charge = row.charge /\ task'[w].mine = row
      BY <1>0, <2>1, BeginIs
    <2>3. ~Settled(row)
      BY <1>0, <2>1, Statuses DEF Unpaid
    <2>4. Place(w)'
      BY <2>1, <2>2, <2>3 DEF Place, Switching, Settled
    <2>. QED
      BY <1>0, <1>1, <2>1, <2>4, BeginMoney DEF Switching
  <1>4. CASE Cancel(w, kind)
    <2>1. row.status = "paid"
      BY <1>4 DEF Cancel
    <2>2. PICK pc \in {"restock", "refundPaid"}, outcome \in {"refunded", "refunding", "none"} :
            /\ Begin(w, kind, pc, row, row.charge, outcome)
            /\ outcome = "refunded" => ByCredit(row)
      BY <1>4 DEF Cancel, ByCredit
    <2>3. /\ task'[w].pc = pc /\ task'[w].outcome = outcome /\ task'[w].mine = row
      BY <1>0, <2>2, BeginIs
    <2>4. Place(w)'
      BY <1>1, <2>1, <2>2, <2>3 DEF Place, Switching, Settled, Returned, ByCredit
    <2>. QED
      BY <1>0, <1>1, <2>1, <2>2, <2>4, BeginMoney DEF Switching
  <1>. QED
    BY <1>2, <1>3, <1>4

LEMMA PollMoney ==
  ASSUME Before, NEW w \in Workers, Poll(w)
  PROVE  MoneyKept
  <1>0. /\ TypeOK /\ LifeInv /\ MoneyInv /\ Place(w) /\ task \in [Workers -> Tasks]
        /\ task[w].pc = "poll" /\ row' = row /\ charge' = charge /\ events' = events
        /\ task[w].charge # None /\ task[w].kind # "checkout" /\ ~Linking(w)
    BY Here DEF Poll, At, gatewayVars, Place, Linking
  <1>1. ChargeStep /\ RowStep /\ row.status # "absent"
    BY <1>0, ChargesStay, RowStays, NotAbsent
  <1>2. RowTrue'
    BY <1>0, <1>1, RowTrueStays
  <1>3. CASE Goto(w, "pay")
    <2>1. task'[w].pc = "pay" /\ task'[w].charge = task[w].charge
      BY <1>0, <1>3, GotoIs
    <2>2. Place(w)'
      BY <1>0, <2>1 DEF Place, Switching
    <2>. QED
      BY <1>0, <1>1, <1>2, <1>3, <2>2, WriteMoney DEF Switching
  <1>4. CASE task' = [task EXCEPT ![w].pc = "save", ![w].outcome = "deleted"]
    <2>1. /\ task'[w].pc = "save" /\ task'[w].kind = task[w].kind
          /\ task'[w].charge = task[w].charge /\ task'[w].mine = task[w].mine
          /\ \A v \in Workers \ {w} : task'[v] = task[v]
      BY <1>0, <1>4 DEF Tasks
    <2>2. LinkStep(w)
      BY <1>0, <2>1 DEF LinkStep, Linking, Switching
    <2>3. Copy(w)'
      BY <1>0, <1>1, <2>1, CopyStays
    <2>4. Place(w)'
      BY <1>0, <2>1 DEF Place, Switching
    <2>. QED
      BY <1>0, <1>1, <1>2, <2>1, <2>2, <2>3, <2>4, MoneyKeeps
  <1>5. CASE End(w)
    BY <1>0, <1>5, EndMoney DEF End
  <1>. QED
    BY <1>3, <1>4, <1>5 DEF Poll

LEMMA DeleteChargeMoney ==
  ASSUME Before, NEW w \in Workers, DeleteCharge(w)
  PROVE  MoneyKept
  <1>0. /\ TypeOK /\ LifeInv /\ MoneyInv /\ Place(w) /\ task[w].charge \in Charges
        /\ task[w].pc = "delete" /\ row' = row /\ ~Linking(w)
        /\ task[w].charge # None /\ ~Settled(task[w].mine)
    BY Here DEF DeleteCharge, At, Place, Linking, Switching
  <1>1. RowStep /\ row.status # "absent"
    BY <1>0, RowStays, NotAbsent
  <1>2. ASSUME ChargeStep, \A d \in Charges : charge'[d] # "none" => charge[d] # "none",
               Goto(w, "repost")
        PROVE  MoneyKept
    <2>1. /\ task'[w].pc = "repost" /\ task'[w].charge = task[w].charge
          /\ task'[w].mine = task[w].mine /\ \A v \in Workers \ {w} : task'[v] = task[v]
      BY <1>0, <1>2, GotoIs
    <2>2. LinkStep(w)
      BY <1>0, <1>2, GotoLinks DEF Switching
    <2>3. RowTrue' /\ Copy(w)'
      BY <1>0, <1>1, <1>2, RowTrueStays, GotoCopy
    <2>4. Place(w)'
      BY <1>0, <2>1 DEF Place, Switching, Settled
    <2>. QED
      BY <1>0, <1>1, <1>2, <2>1, <2>2, <2>3, <2>4, MoneyKeeps
  <1>3. CASE /\ charge[task[w].charge] = "open"
             /\ charge' = [charge EXCEPT ![task[w].charge] = "deleted"]
             /\ events' = Notify("DELETED", task[w].charge)
             /\ Goto(w, "repost")
    BY <1>0, <1>2, <1>3, ChargeChanges
  <1>4. CASE Goto(w, "repost") /\ UNCHANGED gatewayVars
    BY <1>2, <1>4, ChargesStay DEF gatewayVars
  <1>5. CASE End(w) /\ UNCHANGED gatewayVars
    BY <1>0, <1>5, EndMoney DEF End, gatewayVars
  <1>. QED
    BY <1>3, <1>4, <1>5 DEF DeleteCharge

LEMMA RestockMoney ==
  ASSUME Before, NEW w \in Workers, RestockCanceledOrder(w)
  PROVE  MoneyKept
  <1>0. /\ TypeOK /\ LifeInv /\ MoneyInv /\ RowTrue /\ Place(w) /\ row \in Rows
        /\ task[w].pc = "restock" /\ charge' = charge /\ events' = events
    BY Here DEF RestockCanceledOrder, At, gatewayVars
  <1>1. CASE ~Exists
    BY <1>0, <1>1, EndMoney DEF RestockCanceledOrder, End
  <1>2. CASE Exists
    <2>1. Settled(row) /\ Alike(row, task[w].mine)
      BY <1>0, <1>2, ExistsStays DEF Place
    <2>2. /\ row'.gateway = row.gateway /\ row'.charge = row.charge
          /\ row'.payment = IF task[w].outcome = "refunded" THEN "refunded" ELSE "refund_pending"
          /\ Goto(w, "credit")
      BY <1>0, <1>2 DEF RestockCanceledOrder, Rows
    <2>3. ChargeStep
      BY <1>0, ChargesStay
    <2>4. row'.payment = "refunded" => Returned(row)
      BY <1>0, <2>1, <2>2 DEF Place, Returned, Alike
    <2>5. RowTrue'
      BY <1>0, <2>1, <2>2, <2>4
         DEF RowTrue, Known, Honest, Settled, Returned, ByCredit, NoCharge
    <2>6. task'[w].pc = "credit" /\ Settled(row')
      BY <1>0, <2>2, GotoIs DEF Settled
    <2>7. Place(w)'
      BY <2>6 DEF Place, Switching
    <2>. QED
      BY <1>0, <2>2, <2>3, <2>5, <2>7, WriteMoney DEF Linking, Switching
  <1>. QED
    BY <1>1, <1>2

LEMMA DeleteOrderMoney ==
  ASSUME Before, NEW w \in Workers, DeleteOrder(w)
  PROVE  MoneyKept
  <1>0. /\ TypeOK /\ LifeInv /\ MoneyInv /\ RowTrue /\ row \in Rows
        /\ charge' = charge /\ events' = events /\ row.status # "absent"
        /\ Begin(w, "delete", "remove", row, row.charge, "none")
    BY Here DEF DeleteOrder, gatewayVars, Exists
  <1>1. /\ row'.gateway = row.gateway /\ row'.charge = row.charge
        /\ row' = row \/ (Unpaid(row.status) /\ row'.payment = "failed")
    BY <1>0 DEF DeleteOrder, Rows
  <1>2. ~Settled(row) \/ row' = row
    BY <1>0, <1>1, Statuses
  <1>3. ChargeStep
    BY <1>0, ChargesStay
  <1>4. RowStep
    BY <1>0, <1>1, <1>2, RowStepBy DEF Before, Alike, ByCredit
  <1>5. RowTrue'
    BY <1>0, <1>1, <1>3, RowTrueStays DEF Settled
  <1>6. /\ task'[w].pc = "remove" /\ task'[w].mine = row /\ task'[w].charge = row.charge
        /\ \A v \in Workers \ {w} : task'[v] = task[v]
    BY <1>0, BeginIs
  <1>7. LinkStep(w)
    BY <1>0, <1>1, BeginLinks DEF Switching
  <1>8. Copy(w)'
    <2>1. Known(row.charge) /\ Honest(row) /\ (ByCredit(row) => NoCharge)
      BY <1>0 DEF RowTrue
    <2>. QED
      BY <1>0, <1>1, <1>2, <1>6, <2>1
         DEF Copy, Known, Honest, Settled, Returned, ByCredit, NoCharge, Alike
  <1>9. Place(w)'
    BY <1>6 DEF Place, Switching
  <1>. QED
    BY <1>0, <1>3, <1>4, <1>5, <1>6, <1>7, <1>8, <1>9, MoneyKeeps

-----------------------------------------------------------------------------
LEMMA MoneyStep ==
  ASSUME LifeInv, MoneyInv, [CalmStep]_vars
  PROVE  MoneyKept
  <1>0. Before /\ TypeOK /\ row \in Rows
    BY LifeStep DEF Before, LifeInv, CalmInv, TypeInv, TypeOK
  <1>1. CASE UNCHANGED vars
    <2>1. row' = row /\ charge' = charge /\ events' = events /\ UNCHANGED task
      BY <1>1 DEF vars, gatewayVars
    <2>. QED
      BY <1>0, <2>1, RowStays, ChargesStay, MoneyStays
  <1>2. ASSUME NEW w \in Workers, IgnoreWebhook(w)
        PROVE  MoneyKept
    <2>1. row' = row /\ charge' = charge /\ events' \subseteq events /\ UNCHANGED task
      BY <1>2 DEF IgnoreWebhook
    <2>. QED
      BY <1>0, <2>1, RowStays, ChargesStay, MoneyStays
  <1>3. ASSUME NEW c \in Charges, CustomerPays(c) \/ RefundSettles(c) \/ PanelRefund(c)
                                    \/ PanelDelete(c)
        PROVE  MoneyKept
    <2>1. ChargeStep /\ \A d \in Charges : charge'[d] # "none" => charge[d] # "none"
      BY <1>0, <1>3, ChargeBack, ChargeChanges
         DEF CustomerPays, RefundSettles, PanelRefund, PanelDelete, GatewayStep, Back
    <2>2. row' = row /\ UNCHANGED task
      BY <1>3 DEF CustomerPays, RefundSettles, PanelRefund, PanelDelete, GatewayStep
    <2>. QED
      BY <1>0, <2>1, <2>2, RowStays, MoneyStays
  <1>4. CASE ExpireOrder
    <2>1. /\ row'.charge = row.charge /\ row'.gateway = row.gateway
          /\ row'.payment = row.payment
          /\ charge' = charge /\ events' = events /\ UNCHANGED task
      BY <1>0, <1>4 DEF ExpireOrder, Rows, gatewayVars
    <2>2. RowStep
      BY <1>0, <2>1, RowStepBy DEF Before, Alike, ByCredit
    <2>. QED
      BY <1>0, <2>1, <2>2, ChargesStay, MoneyStays
  <1>5. CASE Crash
    <2>1. /\ row' = row /\ charge' = charge /\ events' = events
          /\ \A w \in Workers : task'[w] = Idle
      BY <1>5 DEF Crash, gatewayVars
    <2>2. \A w \in Workers : Copy(w)' /\ Place(w)' /\ ~Linking(w)'
      BY <2>1, IdleIsTrue DEF Linking, Idle
    <2>3. RowStep /\ ChargeStep
      BY <2>1, RowStays, ChargesStay
    <2>. QED
      BY <2>1, <2>2, <2>3
         DEF MoneyInv, MoneyKept, RowTrue, Known, Honest, Returned, ByCredit, NoCharge, Beginning,
             EventsTrue,
             Linked
  <1>6. CASE CalmStep
    <2>1. NoLostUpdate /\ Next
      BY <1>6 DEF CalmStep
    <2>2. ASSUME NEW w \in Workers, MarkRefunded(w)
          PROVE  MoneyKept
      BY <1>0, <2>2, RefundedMoney DEF MarkRefunded, At, EndWell, End
    <2>. QED
      BY <1>0, <1>2, <1>3, <1>4, <1>5, <2>1, <2>2, CheckoutMoney, PostMoney, LinkMoney, SaveMoney,
         RollbackMoney, RemoveMoney, PaidMoney, ClaimMoney, RefundMoney, MarkMoney,
         ReleaseClaimMoney, CreditMoney, DropMoney, WebhookMoney, BeginsMoney, PollMoney,
         DeleteChargeMoney, RelinkMoney, RestockMoney, DeleteOrderMoney DEF Next
  <1>. QED
    BY <1>1, <1>6

LEMMA MoneyInit == Init => MoneyInv
  <1>. SUFFICES ASSUME Init PROVE MoneyInv
    OBVIOUS
  <1>1. /\ \A w \in Workers : task[w] = Idle
        /\ events = {}
        /\ charge = [c \in Charges |-> IF c = row.charge THEN "open" ELSE "none"]
    BY DEF Init
  <1>2. /\ row.payment = "pending" /\ row.gateway \in {"none", "asaas"}
        /\ row.charge \in Charges \cup {None}
        /\ row.status = "absent" => row.charge = None
    <2>0. FirstCharge \in Charges
      BY PaymentsAssumption DEF FirstCharge
    <2>1. CASE row = NoRow
      BY <2>1 DEF NoRow
    <2>2. ASSUME NEW credit,
                 row = [NoRow EXCEPT !.status = "pending", !.gateway = "asaas",
                                     !.charge = FirstCharge, !.credit = credit]
          PROVE  /\ row.payment = "pending" /\ row.gateway \in {"none", "asaas"}
                 /\ row.charge \in Charges \cup {None}
                 /\ row.status = "absent" => row.charge = None
      BY <2>0, <2>2 DEF NoRow
    <2>. QED
      BY <2>1, <2>2 DEF Init
  <1>3. Beginning
    BY <1>1, <1>2, PaymentsAssumption DEF Beginning, NoCharge, ByCredit
  <1>4. RowTrue
    BY <1>1, <1>2 DEF RowTrue, Known, Honest, Settled, ByCredit
  <1>5. \A w \in Workers : Copy(w) /\ Place(w) /\ ~Linking(w)
    <2>. SUFFICES ASSUME NEW w \in Workers PROVE Copy(w) /\ Place(w) /\ ~Linking(w)
      OBVIOUS
    <2>1. /\ task[w].pc = "idle" /\ task[w].charge = None /\ task[w].mine.charge = None
          /\ task[w].mine.gateway = "none" /\ task[w].mine.payment = "pending"
      BY <1>1 DEF Idle, NoRow
    <2>. QED
      BY <2>1 DEF Copy, Place, Linking, Known, Honest, Settled, ByCredit, Switching
  <1>. QED
    BY <1>1, <1>3, <1>4, <1>5 DEF MoneyInv, EventsTrue, Linked

\* An order that is reported as refunded had its money sent back: no retry, no answer
\* lost by the gateway, no webhook and no stale decision says so of a charge that is
\* still paid, in any calm schedule, with any faults and whatever is done in the panel.
THEOREM RefundedIsTrueHolds == CalmSpec => []RefundedIsTrue
  <1>1. LifeInv /\ MoneyInv /\ [Next /\ NoLostUpdate]_vars => MoneyInv'
    BY MoneyStep DEF CalmStep, MoneyKept
  <1>2. MoneyInv => RefundedIsTrue
    BY DEF MoneyInv, RowTrue, Honest, Returned, ByCredit, RefundedIsTrue, Back
  <1>. QED
    BY <1>1, <1>2, MoneyInit, LifeInvAlways, PTL DEF CalmSpec

-----------------------------------------------------------------------------
(* The money of a paid order *)

Collected(c) == charge[c] \in {"paid"} \cup Back

\* A request that commits the order, or will, has found its charge paid.
PaidFor(w) ==
    LET t == task[w]
    IN  t.pc = "pay" \/ (t.pc \in {"link", "save", "relink"} /\ t.outcome = "paid") =>
            t.charge = None \/ Collected(t.charge)

PaidInv ==
    /\ row.status = "paid" =>
        ByCredit(row) \/ charge[row.charge] = "paid" \/ \E w \in Workers : task[w].pc = "restock"
    /\ \A w \in Workers : PaidFor(w)
    /\ (\E c \in Charges : charge[c] \in Back) => ~Unpaid(row.status) /\ row.status # "absent"
    /\ \A c \in Charges : <<"PAID", c>> \in events => Collected(c)

\* Money that was taken stays, or goes back by a request that undoes the order.
CollectStep ==
    /\ \A c \in Charges : Collected(c) => Collected(c)'
    /\ \A c \in Charges : charge'[c] \in Back =>
        \/ charge[c] \in Back
        \/ Settled(row) /\ row.status # "paid"
        \/ row.status = "deleted"
        \/ row.status = "paid" /\ \E v \in Workers : task'[v].pc = "restock"
    /\ \A c \in Charges : <<"PAID", c>> \in events' => <<"PAID", c>> \in events \/ Collected(c)'

LEMMA CollectStays ==
  ASSUME charge' = charge, events' \subseteq events
  PROVE  CollectStep
  BY DEF CollectStep, Collected

\* A step of the gateway that sends no money back.
LEMMA CollectMoves ==
  ASSUME TypeOK, NEW c \in Charges, NEW s, charge' = [charge EXCEPT ![c] = s],
         \/ charge[c] \in {"none", "open"} /\ s \in {"open", "paid", "deleted"}
         \/ charge[c] = "refunding" /\ s = "refunded",
         \/ events' = events
         \/ events' = Notify("PAID", c) /\ s = "paid"
         \/ \E e \in {"DELETED", "REFUNDED"} : events' = Notify(e, c)
  PROVE  CollectStep
  <1>1. \A d \in Charges : charge'[d] = IF d = c THEN s ELSE charge[d]
    BY DEF TypeOK
  <1>2. \A d \in Charges : <<"PAID", d>> \in events' =>
          <<"PAID", d>> \in events \/ (d = c /\ s = "paid")
    BY DEF Notify
  <1>. QED
    BY <1>1, <1>2 DEF CollectStep, Collected, Back

\* POST /payments/ID/refund, when no answer is lost.
LEMMA PostRefundHeard ==
  ASSUME TypeOK, "refund" \notin Faults, NEW w \in Workers, NEW c \in Charges,
         NEW done, NEW failed, PostRefund(w, c, done, failed)
  PROVE  \/ Goto(w, failed) /\ UNCHANGED gatewayVars
         \/ \E s \in Back :
              /\ charge[c] = "paid"
              /\ charge' = [charge EXCEPT ![c] = s]
              /\ events' = events \/ events' = Notify("REFUNDED", c)
              /\ Moved(w, done)
  <1>1. ASSUME NEW s \in Back, NEW heard \in Heard("refund"),
               task' = [task EXCEPT ![w] =
                          IF heard THEN [@ EXCEPT !.pc = done, !.outcome = s]
                          ELSE Continue(@, failed)]
        PROVE  Moved(w, done)
    <2>1. heard
      BY <1>1 DEF Heard
    <2>2. task' = [task EXCEPT ![w] = [task[w] EXCEPT !.pc = done, !.outcome = s]]
      BY <1>1, <2>1
    <2>. QED
      BY <2>2 DEF Moved, TypeOK, Tasks
  <1>2. CASE Goto(w, failed) /\ UNCHANGED gatewayVars
    BY <1>2
  <1>3. CASE ~(Goto(w, failed) /\ UNCHANGED gatewayVars)
    <2>1. PICK s \in Back, heard \in Heard("refund") :
            /\ charge[c] = "paid"
            /\ charge' = [charge EXCEPT ![c] = s]
            /\ events' = IF s = "refunded" THEN Notify("REFUNDED", c) ELSE events
            /\ task' = [task EXCEPT ![w] =
                          IF heard THEN [@ EXCEPT !.pc = done, !.outcome = s]
                          ELSE Continue(@, failed)]
      BY <1>3 DEF PostRefund, Back
    <2>2. Moved(w, done)
      BY <1>1, <2>1
    <2>. QED
      BY <2>1, <2>2
  <1>. QED
    BY <1>2, <1>3

\* The money of a charge goes back.
LEMMA CollectBack ==
  ASSUME TypeOK, NEW c \in Charges, NEW s \in Back, charge' = [charge EXCEPT ![c] = s],
         events' = events \/ events' = Notify("REFUNDED", c),
         \/ Settled(row) /\ row.status # "paid"
         \/ row.status = "deleted"
         \/ row.status = "paid" /\ \E v \in Workers : task'[v].pc = "restock"
  PROVE  CollectStep
  <1>1. \A d \in Charges : charge'[d] = IF d = c THEN s ELSE charge[d]
    BY DEF TypeOK
  <1>2. \A d \in Charges : <<"PAID", d>> \in events' => <<"PAID", d>> \in events
    BY DEF Notify
  <1>. QED
    BY <1>1, <1>2 DEF CollectStep, Collected

\* No step makes a paid order of another, but for the commit of its payment.
LEMMA PaidKeeps ==
  ASSUME TypeOK, LifeInv, MoneyInv, PaidInv, Turn, RowStep, CollectStep,
         NEW w \in Workers, NEW pc, Moved(w, pc), PaidFor(w)',
         task[w].pc # "restock" \/ row'.status # "paid",
         row'.status = "paid" =>
            row.status = "paid" \/ ByCredit(row') \/ charge'[row'.charge] = "paid"
  PROVE  PaidInv'
  <1>0. row \in Rows /\ RowTrue
    BY DEF TypeOK, MoneyInv
  <1>1. row'.status = "paid" =>
          ByCredit(row') \/ charge'[row'.charge] = "paid" \/ \E v \in Workers : task'[v].pc = "restock"
    <2>. SUFFICES ASSUME row'.status = "paid", row.status = "paid", ~ByCredit(row')
                  PROVE  charge'[row'.charge] = "paid" \/ \E v \in Workers : task'[v].pc = "restock"
      OBVIOUS
    <2>1. Settled(row) /\ Settled(row')
      BY Statuses DEF Turn, Same, Settled, Unpaid, Removable, Final, Dead
    <2>2. Alike(row', row)
      BY <2>1 DEF RowStep
    <2>3. row.charge \in Charges /\ row'.charge = row.charge /\ ~ByCredit(row)
      BY <1>0, <2>1, <2>2 DEF RowTrue, Honest, Alike, Rows
    <2>4. CASE charge[row.charge] = "paid"
      BY <2>3, <2>4 DEF CollectStep, Collected, Back
    <2>5. CASE \E v \in Workers : task[v].pc = "restock"
      BY <2>5 DEF Moved
    <2>. QED
      BY <2>3, <2>4, <2>5 DEF PaidInv
  <1>2. \A v \in Workers : PaidFor(v)'
    <2>. SUFFICES ASSUME NEW v \in Workers, v # w PROVE PaidFor(v)'
      OBVIOUS
    <2>1. task'[v] = task[v] /\ PaidFor(v) /\ task[v].charge \in Charges \cup {None}
      BY DEF Moved, PaidInv, TypeOK, Tasks
    <2>2. task[v].charge # None /\ Collected(task[v].charge) => Collected(task[v].charge)'
      BY <2>1 DEF CollectStep
    <2>. QED
      BY <2>1, <2>2 DEF PaidFor, Collected
  <1>3. (\E c \in Charges : charge'[c] \in Back) => ~Unpaid(row'.status) /\ row'.status # "absent"
    <2>. SUFFICES ASSUME NEW c \in Charges, charge'[c] \in Back
                  PROVE  ~Unpaid(row'.status) /\ row'.status # "absent"
      OBVIOUS
    <2>1. ~Unpaid(row.status) /\ row.status # "absent"
      BY Statuses DEF CollectStep, PaidInv, Unpaid, Exists
    <2>. QED
      BY <2>1 DEF Turn, Same, Unpaid, Removable, Final, Dead
  <1>4. \A c \in Charges : <<"PAID", c>> \in events' => Collected(c)'
    BY DEF PaidInv, CollectStep
  <1>. QED
    BY <1>1, <1>2, <1>3, <1>4 DEF PaidInv

\* The gateway, the sweep or a webhook that is ignored.
LEMMA PaidStays ==
  ASSUME TypeOK, LifeInv, MoneyInv, PaidInv, CollectStep, UNCHANGED task,
         row'.charge = row.charge, row'.gateway = row.gateway,
         row' = row \/ (row.status = "pending" /\ row'.status = "expired"),
         \A c \in Charges : charge'[c] \in Back => charge[c] \in Back
  PROVE  PaidInv'
  <1>0. row \in Rows /\ RowTrue
    BY DEF TypeOK, MoneyInv
  <1>1. row'.status = "paid" =>
          ByCredit(row') \/ charge'[row'.charge] = "paid" \/ \E v \in Workers : task'[v].pc = "restock"
    <2>. SUFFICES ASSUME row.status = "paid", row' = row, ~ByCredit(row),
                         charge[row.charge] = "paid"
                  PROVE  charge'[row.charge] = "paid"
      BY DEF PaidInv, ByCredit
    <2>1. row.charge \in Charges
      BY <1>0, Statuses DEF RowTrue, Honest, Rows
    <2>. QED
      BY <2>1 DEF CollectStep, Collected, Back
  <1>2. \A v \in Workers : PaidFor(v)'
    <2>. SUFFICES ASSUME NEW v \in Workers PROVE PaidFor(v)'
      OBVIOUS
    <2>1. task'[v] = task[v] /\ PaidFor(v) /\ task[v].charge \in Charges \cup {None}
      BY DEF PaidInv, TypeOK, Tasks
    <2>2. task[v].charge # None /\ Collected(task[v].charge) => Collected(task[v].charge)'
      BY <2>1 DEF CollectStep
    <2>. QED
      BY <2>1, <2>2 DEF PaidFor, Collected
  <1>3. (\E c \in Charges : charge'[c] \in Back) => ~Unpaid(row'.status) /\ row'.status # "absent"
    BY DEF PaidInv, Unpaid
  <1>4. \A c \in Charges : <<"PAID", c>> \in events' => Collected(c)'
    BY DEF PaidInv, CollectStep
  <1>. QED
    BY <1>1, <1>2, <1>3, <1>4 DEF PaidInv

\* A step that leaves the gateway as it is, and the commit of payments to others.
LEMMA PaidPlain ==
  ASSUME Before, RowStep, PaidInv, NEW w \in Workers, NEW pc, Moved(w, pc),
         charge' = charge, events' \subseteq events,
         pc \notin {"pay", "link", "save", "relink"},
         task[w].pc # "restock" \/ row'.status # "paid",
         row'.status = "paid" => row.status = "paid"
  PROVE  PaidInv'
  <1>1. PaidFor(w)'
    BY DEF Moved, PaidFor
  <1>. QED
    BY <1>1, CollectStays, PaidKeeps DEF Before

\* A request that begins: only an event of the gateway makes it commit the order.
LEMMA BeginPaid ==
  ASSUME Before, RowStep, PaidInv, NEW w \in Workers, NEW kind, NEW pc, NEW mine, NEW c, NEW outcome,
         Begin(w, kind, pc, mine, c, outcome), charge' = charge, events' = events,
         row'.status = "paid" => row.status = "paid",
         \/ pc \notin {"pay", "link", "save", "relink"}
         \/ pc = "pay" /\ Collected(c)
         \/ pc = "save" /\ outcome # "paid"
  PROVE  PaidInv'
  <1>0. TypeOK /\ LifeInv /\ MoneyInv /\ Turn
    BY DEF Before
  <1>1. /\ Moved(w, pc) /\ task[w].pc = "idle"
        /\ task'[w].pc = pc /\ task'[w].charge = c /\ task'[w].outcome = outcome
    BY <1>0, BeginMove, BeginIs
  <1>2. PaidFor(w)'
    BY <1>1 DEF PaidFor, Collected
  <1>. QED
    BY <1>0, <1>1, <1>2, CollectStays, PaidKeeps

\* POST /payments of a request that goes on to link a charge, or ends.
LEMMA PostPaid ==
  ASSUME Before, RowStep, PaidInv, NEW w \in Workers, NEW done \in {"link", "relink"},
         NEW failed \in {"rollback", "idle"}, PostCharge(w, done, failed), row' = row,
         task[w].pc \in {"post", "repost"}
  PROVE  PaidInv'
  <1>0. TypeOK /\ LifeInv /\ MoneyInv /\ Turn /\ done \in Pcs \ {"idle"}
    BY DEF Before, Pcs
  <1>1. CASE Goto(w, failed) /\ UNCHANGED gatewayVars
    BY <1>0, <1>1, GotoMove, PaidPlain DEF gatewayVars
  <1>2. ASSUME NEW c \in Charges, NEW s \in {"open", "paid", "deleted"}, charge[c] = "none",
               charge' = [charge EXCEPT ![c] = s],
               events' = IF s = "paid" THEN Notify("PAID", c) ELSE events,
               \A v \in Workers \ {w} : task'[v] = task[v],
               \/ Goto(w, failed)
               \/ task'[w].pc = done /\ task'[w].charge = c /\ task'[w].outcome = s
        PROVE  PaidInv'
    <2>1. CollectStep
      BY <1>0, <1>2, CollectMoves
    <2>2. charge'[c] = s
      BY <1>0, <1>2 DEF TypeOK
    <2>3. PICK pc : Moved(w, pc) /\ PaidFor(w)'
      <3>1. CASE Goto(w, failed)
        <4>1. Moved(w, failed)
          BY <1>0, <3>1, GotoMove
        <4>. QED
          BY <4>1 DEF Moved, PaidFor
      <3>2. CASE task'[w].pc = done /\ task'[w].charge = c /\ task'[w].outcome = s
        <4>1. Moved(w, done)
          BY <1>2, <3>2 DEF Moved
        <4>2. PaidFor(w)'
          BY <2>2, <3>2 DEF PaidFor, Collected
        <4>. QED
          BY <4>1, <4>2
      <3>. QED
        BY <1>2, <3>1, <3>2
    <2>. QED
      BY <1>0, <2>1, <2>3, PaidKeeps
  <1>. QED
    BY <1>0, <1>1, <1>2, PostChargeIs

LEMMA SavePaid ==
  ASSUME Before, RowStep, PaidInv, NoLostUpdate, NEW w \in Workers, Save(w) \/ Relink(w)
  PROVE  PaidInv'
  <1>0. /\ TypeOK /\ LifeInv /\ MoneyInv /\ Turn /\ task[w].mine \in Rows
        /\ charge' = charge /\ events' = events /\ task[w].pc \in {"save", "relink"}
    BY Here DEF Before, Save, Relink, At, gatewayVars
  <1>1. PICK pc \in {"pay", "drop", "idle"} :
          Goto(w, pc) /\ (pc = "pay" => task[w].outcome = "paid")
    BY DEF Save, Relink, End
  <1>2. task'[w] # task[w]
    BY <1>0, <1>1, GotoMoves
  <1>3. row' = row \/ (row'.status = task[w].mine.status /\ row'.payment = task[w].mine.payment)
    BY <1>0 DEF Save, Relink, Rows
  <1>4. row'.status = row.status
    BY <1>0, <1>2, <1>3, SaveIsSame DEF Same
  <1>5. Moved(w, pc)
    BY <1>0, <1>1, GotoMove
  <1>6. PaidFor(w)'
    <2>1. CASE pc = "pay"
      <3>1. task'[w].pc = pc /\ task'[w].charge = task[w].charge
        BY <1>0, <1>1, <2>1, GotoIs
      <3>2. task[w].charge = None \/ Collected(task[w].charge)
        BY <1>0, <1>1, <2>1 DEF PaidInv, PaidFor
      <3>. QED
        BY <1>0, <3>1, <3>2 DEF PaidFor, Collected
    <2>2. CASE pc # "pay"
      BY <1>5, <2>2 DEF Moved, PaidFor
    <2>. QED
      BY <2>1, <2>2
  <1>. QED
    BY <1>0, <1>4, <1>5, <1>6, CollectStays, PaidKeeps

LEMMA LinkPaid ==
  ASSUME Before, RowStep, PaidInv, NEW w \in Workers, Link(w)
  PROVE  PaidInv'
  <1>0. /\ TypeOK /\ LifeInv /\ MoneyInv /\ Turn /\ row' = row /\ charge' = charge
        /\ events' = events /\ task[w].pc \in {"link", "free"} /\ task \in [Workers -> Tasks]
        /\ Place(w)
    BY Here DEF Before, Link, At, gatewayVars
  <1>1. CASE End(w)
    BY <1>0, <1>1, GotoMove, PaidPlain DEF End
  <1>2. ASSUME NEW mine, NEW outcome,
               task' = [task EXCEPT ![w].pc = "save", ![w].outcome = outcome, ![w].mine = mine],
               outcome = "paid" => task[w].charge = None \/ Collected(task[w].charge)
        PROVE  PaidInv'
    <2>1. /\ Moved(w, "save") /\ task'[w].charge = task[w].charge
          /\ task'[w].pc = "save" /\ task'[w].outcome = outcome
      BY <1>0, <1>2 DEF Moved, Tasks
    <2>2. PaidFor(w)'
      BY <1>0, <1>2, <2>1 DEF PaidFor, Collected
    <2>. QED
      BY <1>0, <2>1, <2>2, CollectStays, PaidKeeps
  <1>3. CASE /\ task[w].pc = "link"
             /\ task' = [task EXCEPT ![w].pc = "save",
                     ![w].mine = [row EXCEPT !.gateway = "asaas", !.charge = task[w].charge]]
    <2>1. /\ Moved(w, "save") /\ task'[w].charge = task[w].charge
          /\ task'[w].pc = "save" /\ task'[w].outcome = task[w].outcome
      BY <1>0, <1>3 DEF Moved, Tasks
    <2>2. PaidFor(w)'
      BY <1>0, <1>3, <2>1 DEF PaidInv, PaidFor, Collected
    <2>. QED
      BY <1>0, <2>1, <2>2, CollectStays, PaidKeeps
  <1>4. CASE /\ task[w].pc = "free"
             /\ task' = [task EXCEPT ![w].pc = "save", ![w].outcome = "paid",
                     ![w].mine = [row EXCEPT !.gateway = "store_credit"]]
    BY <1>0, <1>2, <1>4 DEF Place
  <1>. QED
    BY <1>1, <1>3, <1>4 DEF Link, At

LEMMA CommitPaid ==
  ASSUME Before, RowStep, PaidInv, NEW w \in Workers, MarkOrderPaid(w)
  PROVE  PaidInv'
  <1>0. /\ TypeOK /\ LifeInv /\ MoneyInv /\ Turn /\ Place(w) /\ row \in Rows
        /\ task \in [Workers -> Tasks] /\ task[w].charge \in Charges \cup {None}
        /\ charge' = charge /\ events' \subseteq events /\ task[w].pc = "pay"
    BY Here
       DEF Before, MarkOrderPaid, At, gatewayVars, CommitOrder, ConflictOrder, EndWell
  <1>1. CASE End(w) /\ row' = row
    BY <1>0, <1>1, GotoMove, PaidPlain DEF End
  <1>2. ASSUME NEW mine, task' = [task EXCEPT ![w].pc = "claim", ![w].mine = mine],
               row'.status = "paid" => row.status = "paid"
        PROVE  PaidInv'
    <2>1. Moved(w, "claim")
      BY <1>0, <1>2 DEF Moved, Tasks
    <2>. QED
      BY <1>0, <1>2, <2>1, PaidPlain
  <1>3. CASE ConflictOrder(w)
    <2>1. row'.status = "stock_conflict"
      BY <1>0, <1>3 DEF ConflictOrder, Rows
    <2>. QED
      BY <1>2, <1>3, <2>1 DEF ConflictOrder
  <1>4. CASE CommitOrder(w) /\ Unpaid(row.status)
    <2>1. /\ row'.gateway = row.gateway /\ Moved(w, "idle")
          /\ row'.charge = IF task[w].charge = None THEN row.charge ELSE task[w].charge
      BY <1>0, <1>4, GotoMove DEF CommitOrder, EndWell, End, Rows
    <2>2. ByCredit(row') \/ charge'[row'.charge] = "paid"
      <3>1. CASE task[w].charge = None
        BY <1>0, <1>4, <2>1, <3>1 DEF Place, ByCredit, Unpaid
      <3>2. CASE task[w].charge # None
        <4>1. Collected(task[w].charge) /\ task[w].charge \in Charges
          BY <1>0, <3>2 DEF PaidInv, PaidFor
        <4>2. charge[task[w].charge] \notin Back
          BY <1>4, <4>1 DEF PaidInv
        <4>. QED
          BY <1>0, <2>1, <3>2, <4>1, <4>2 DEF Collected
      <3>. QED
        BY <3>1, <3>2
    <2>3. PaidFor(w)'
      BY <2>1 DEF Moved, PaidFor
    <2>. QED
      BY <1>0, <2>1, <2>2, <2>3, CollectStays, PaidKeeps
  <1>. QED
    BY <1>1, <1>2, <1>3, <1>4 DEF MarkOrderPaid, EndWell

LEMMA RefundPaidPaid ==
  ASSUME Before, RowStep, PaidInv, "refund" \notin Faults, NEW w \in Workers,
         RefundPaid(w) \/ RefundStockConflict(w)
  PROVE  PaidInv'
  <1>0. /\ TypeOK /\ LifeInv /\ MoneyInv /\ Turn /\ Place(w) /\ Copy(w) /\ row' = row
        /\ task[w].mine \in Rows /\ task[w].pc \in {"refund", "refundPaid"}
        /\ Settled(task[w].mine)
    BY Here DEF Before, RefundPaid, RefundStockConflict, At, Place
  <1>1. ASSUME NEW c \in Charges, NEW done \in {"restock", "mark"}, NEW failed \in {"idle", "unclaim"},
               PostRefund(w, c, done, failed),
               done = "restock" \/ task[w].pc = "refund"
        PROVE  PaidInv'
    <2>1. CASE Goto(w, failed) /\ UNCHANGED gatewayVars
      BY <1>0, <1>1, <2>1, GotoMove, PaidPlain DEF gatewayVars
    <2>2. ASSUME NEW s \in Back, charge' = [charge EXCEPT ![c] = s],
                 events' = events \/ events' = Notify("REFUNDED", c),
                 Moved(w, done)
          PROVE  PaidInv'
      <3>1. Settled(row) \/ row.status = "deleted"
        BY <1>0 DEF Copy
      <3>2. task[w].pc = "refund" => row.status \in {"deleted", "stock_conflict"}
        BY <1>0 DEF LifeInv, Decided, Refunding
      <3>3. done = "restock" => \E v \in Workers : task'[v].pc = "restock"
        BY <2>2 DEF Moved
      <3>4. CollectStep
        BY <1>0, <1>1, <2>2, <3>1, <3>2, <3>3, CollectBack
      <3>5. PaidFor(w)'
        BY <1>1, <2>2 DEF Moved, PaidFor
      <3>. QED
        BY <1>0, <2>2, <3>4, <3>5, PaidKeeps
    <2>. QED
      BY <1>0, <1>1, <2>1, <2>2, PostRefundHeard
  <1>2. CASE RefundPaid(w)
    <2>1. task[w].mine.charge \in Charges
      BY <1>0, <1>2 DEF RefundPaid, At, LifeInv, CalmInv, TypeInv, ChargesKnown
    <2>. QED
      BY <1>1, <1>2, <2>1 DEF RefundPaid
  <1>3. CASE RefundStockConflict(w)
    <2>1. ASSUME NEW pc \in {"mark", "unclaim"}, Goto(w, pc), UNCHANGED gatewayVars
          PROVE  PaidInv'
      BY <1>0, <2>1, GotoMove, PaidPlain DEF gatewayVars
    <2>2. task[w].mine.charge # None => task[w].mine.charge \in Charges
      BY <1>0 DEF Rows
    <2>3. task[w].pc = "refund"
      BY <1>3 DEF RefundStockConflict, At
    <2>. QED
      BY <1>1, <1>3, <2>1, <2>2, <2>3 DEF RefundStockConflict
  <1>. QED
    BY <1>2, <1>3

LEMMA CreditPaid ==
  ASSUME Before, RowStep, PaidInv, NoLostUpdate, NEW w \in Workers, ReleaseStoreCredit(w)
  PROVE  PaidInv'
  <1>0. /\ TypeOK /\ LifeInv /\ MoneyInv /\ Turn /\ task[w].mine \in Rows
        /\ task \in [Workers -> Tasks]
    BY Here DEF Before
  <1>1. ASSUME NEW from, NEW to \in {"claimCreditSave", "creditSave"}, NEW after \in {"refund", "idle"},
               from # "restock", ReadCredit(w, from, to, after)
        PROVE  PaidInv'
    <2>1. /\ task[w].pc = from /\ row' = row /\ charge' = charge /\ events' \subseteq events
      BY <1>1 DEF ReadCredit, At, EndWell, gatewayVars
    <2>2. Moved(w, to) \/ Moved(w, after)
      <3>1. CASE task' = [task EXCEPT ![w].pc = to, ![w].mine = row]
        BY <1>0, <3>1 DEF Moved, Tasks
      <3>2. CASE Goto(w, after)
        BY <1>0, <3>2, GotoMove
      <3>. QED
        BY <1>1, <3>1, <3>2 DEF ReadCredit, EndWell, End
    <2>. QED
      BY <1>0, <1>1, <2>1, <2>2, PaidPlain
  <1>2. ASSUME NEW from \in {"claimCreditSave", "creditSave"}, NEW after \in {"refund", "idle"},
               SaveCredit(w, from, after)
        PROVE  PaidInv'
    <2>1. /\ task[w].pc = from /\ row' = [task[w].mine EXCEPT !.credit = FALSE]
          /\ charge' = charge /\ events' \subseteq events /\ Goto(w, after)
      BY <1>2 DEF SaveCredit, At, EndWell, End, gatewayVars
    <2>2. task'[w] # task[w]
      BY <1>0, <1>2, <2>1, GotoMoves
    <2>3. row'.status = task[w].mine.status /\ row'.payment = task[w].mine.payment
      BY <1>0, <2>1 DEF Rows
    <2>4. row'.status = row.status
      BY <1>0, <1>2, <2>1, <2>2, <2>3, SaveIsSame DEF Same
    <2>. QED
      BY <1>0, <1>2, <2>1, <2>4, GotoMove, PaidPlain
  <1>. QED
    BY <1>1, <1>2 DEF ReleaseStoreCredit

LEMMA PaidStep ==
  ASSUME "refund" \notin Panel, "refund" \notin Faults, "crash" \notin Faults,
         LifeInv, MoneyInv, PaidInv, [CalmStep]_vars
  PROVE  PaidInv'
  <1>0. /\ Before /\ TypeOK /\ Turn /\ RowStep /\ row \in Rows /\ task \in [Workers -> Tasks]
        /\ MoneyInv /\ RowTrue
    BY LifeStep, MoneyStep DEF Before, LifeInv, CalmInv, TypeInv, TypeOK, MoneyKept, MoneyInv
  <1>1. CASE UNCHANGED vars
    BY <1>0, <1>1, CollectStays, PaidStays DEF vars, gatewayVars
  <1>2. ASSUME NEW w \in Workers, Checkout(w)
        PROVE  PaidInv'
    <2>1. row'.status # "paid" /\ charge' = charge /\ events' = events
      BY <1>2 DEF Checkout, NoRow, gatewayVars
    <2>2. PICK pc \in {"free", "post"} : Begin(w, "checkout", pc, NoRow, None, "none")
      BY <1>2 DEF Checkout
    <2>. QED
      BY <1>0, <2>1, <2>2, BeginPaid
  <1>3. ASSUME NEW w \in Workers, Post(w) \/ Repost(w)
        PROVE  PaidInv'
    BY <1>0, <1>3, PostPaid DEF Post, Repost, At
  <1>4. ASSUME NEW w \in Workers,
               \/ Rollback(w) \/ Remove(w) \/ CancelPendingOrder(w) \/ RestockCanceledOrder(w)
        PROVE  PaidInv'
    <2>1. charge' = charge /\ events' \subseteq events
      BY <1>4 DEF Rollback, Remove, CancelPendingOrder, RestockCanceledOrder, gatewayVars
    <2>2. row' = row \/ row'.status # "paid"
      BY <1>0, <1>4
         DEF Rollback, Remove, CancelPendingOrder, RestockCanceledOrder, Rows, NoRow
    <2>3. PICK pc \in {"remove", "idle", "credit"} : Goto(w, pc)
      BY <1>4 DEF Rollback, Remove, CancelPendingOrder, RestockCanceledOrder, End
    <2>4. task[w].pc = "restock" => row'.status # "paid"
      BY <1>0, <1>4
         DEF Rollback, Remove, CancelPendingOrder, RestockCanceledOrder, Rows, At, Exists
    <2>. QED
      BY <1>0, <2>1, <2>2, <2>3, <2>4, GotoMove, PaidPlain
  <1>5. ASSUME NEW w \in Workers,
               \/ ClaimStockConflictRefund(w) \/ MarkConflictRefunded(w)
               \/ ReleaseClaim(w) \/ MarkRefunded(w)
        PROVE  PaidInv'
    <2>1. charge' = charge /\ events' \subseteq events
      BY <1>5 DEF ClaimStockConflictRefund, MarkConflictRefunded, ReleaseClaim, MarkRefunded,
                  EndWell, gatewayVars
    <2>2. row'.status = row.status
      BY <1>0, <1>5
         DEF ClaimStockConflictRefund, MarkConflictRefunded, ReleaseClaim, MarkRefunded, Rows
    <2>3. PICK pc \in {"claimCredit", "refund", "unclaim", "idle"} : Goto(w, pc)
      BY <1>5 DEF ClaimStockConflictRefund, MarkConflictRefunded, ReleaseClaim, MarkRefunded,
                  EndWell, End
    <2>4. task[w].pc # "restock"
      BY <1>5 DEF ClaimStockConflictRefund, MarkConflictRefunded, ReleaseClaim, MarkRefunded, At
    <2>. QED
      BY <1>0, <2>1, <2>2, <2>3, <2>4, GotoMove, PaidPlain
  <1>6. ASSUME NEW w \in Workers, Webhook(w)
        PROVE  PaidInv'
    <2>1. row' = row /\ charge' = charge /\ events' = events
      BY <1>6 DEF Webhook, gatewayVars
    <2>2. PICK e \in Events, c \in Charges :
            /\ <<e, c>> \in events
            /\ \/ e = "PAID" /\ Begin(w, e, "pay", row, c, "none")
               \/ Begin(w, e, "hookRefunded", row, c, "none")
               \/ Begin(w, e, "save", [row EXCEPT !.charge = c], c, "deleted")
      BY <1>6 DEF Webhook
    <2>3. e = "PAID" => Collected(c)
      BY <2>2 DEF PaidInv
    <2>. QED
      BY <1>0, <2>1, <2>2, <2>3, BeginPaid
  <1>7. ASSUME NEW w \in Workers, NEW kind \in {"cancel", "manual"},
               Status(w) \/ Switch(w) \/ Cancel(w, kind)
        PROVE  PaidInv'
    <2>1. row' = row /\ charge' = charge /\ events' = events
      BY <1>7 DEF Status, Switch, Cancel, gatewayVars
    <2>2. \E pc \in {"poll", "delete", "restock", "refundPaid"} : \E k, outcome :
            Begin(w, k, pc, row, row.charge, outcome)
      <3>1. CASE Status(w)
        BY <3>1 DEF Status
      <3>2. CASE Switch(w)
        BY <3>2 DEF Switch
      <3>3. CASE Cancel(w, kind)
        BY <3>3 DEF Cancel
      <3>. QED
        BY <1>7, <3>1, <3>2, <3>3
    <2>. QED
      BY <1>0, <2>1, <2>2, BeginPaid
  <1>8. ASSUME NEW w \in Workers, DeleteOrder(w)
        PROVE  PaidInv'
    <2>1. charge' = charge /\ events' = events /\ row'.status # "paid"
      BY <1>0, <1>8 DEF DeleteOrder, gatewayVars, Rows
    <2>2. Begin(w, "delete", "remove", row, row.charge, "none")
      BY <1>8 DEF DeleteOrder
    <2>. QED
      BY <1>0, <2>1, <2>2, BeginPaid
  <1>9. ASSUME NEW w \in Workers, Poll(w)
        PROVE  PaidInv'
    <2>1. row' = row /\ charge' = charge /\ events' = events /\ task[w].pc = "poll"
      BY <1>9 DEF Poll, gatewayVars, At
    <2>2. CASE charge[task[w].charge] = "paid" /\ Goto(w, "pay")
      <3>1. Moved(w, "pay") /\ task'[w].charge = task[w].charge
        BY <1>0, <2>2, GotoMove, GotoIs
      <3>2. PaidFor(w)'
        BY <2>1, <2>2, <3>1 DEF PaidFor, Collected
      <3>. QED
        BY <1>0, <2>1, <3>1, <3>2, CollectStays, PaidKeeps DEF Before
    <2>3. CASE task' = [task EXCEPT ![w].pc = "save", ![w].outcome = "deleted"]
      <3>1. Moved(w, "save") /\ task'[w].outcome = "deleted" /\ task'[w].pc = "save"
        BY <1>0, <2>3 DEF Moved, Tasks
      <3>2. PaidFor(w)'
        BY <3>1 DEF PaidFor
      <3>. QED
        BY <1>0, <2>1, <3>1, <3>2, CollectStays, PaidKeeps DEF Before
    <2>4. CASE End(w)
      BY <1>0, <2>1, <2>4, GotoMove, PaidPlain DEF End
    <2>. QED
      BY <1>9, <2>2, <2>3, <2>4 DEF Poll
  <1>10. ASSUME NEW w \in Workers, DeleteCharge(w)
         PROVE  PaidInv'
    <2>1. row' = row /\ task[w].pc = "delete" /\ Place(w) /\ task[w].charge \in Charges \cup {None}
      BY <1>0, <1>10, Here DEF DeleteCharge, At
    <2>2. PICK pc \in {"repost", "idle"} : Goto(w, pc)
      BY <1>10 DEF DeleteCharge, End
    <2>3. Moved(w, pc) /\ PaidFor(w)'
      <3>1. Moved(w, pc)
        BY <1>0, <2>2, GotoMove
      <3>. QED
        BY <3>1 DEF Moved, PaidFor
    <2>4. CollectStep
      <3>1. task[w].charge \in Charges
        BY <2>1 DEF Place, Switching
      <3>2. CASE UNCHANGED gatewayVars
        BY <3>2, CollectStays DEF gatewayVars
      <3>. QED
        BY <1>0, <1>10, <3>1, <3>2, CollectMoves DEF DeleteCharge
    <2>. QED
      BY <1>0, <2>1, <2>3, <2>4, PaidKeeps DEF Before
  <1>11. ASSUME NEW w \in Workers, IgnoreWebhook(w)
         PROVE  PaidInv'
    <2>1. row' = row /\ charge' = charge /\ events' \subseteq events /\ UNCHANGED task
      BY <1>11 DEF IgnoreWebhook
    <2>. QED
      BY <1>0, <2>1, CollectStays, PaidStays
  <1>12. ASSUME NEW c \in Charges, CustomerPays(c) \/ RefundSettles(c) \/ PanelRefund(c)
                                     \/ PanelDelete(c)
         PROVE  PaidInv'
    <2>1. row' = row /\ UNCHANGED task
      BY <1>12 DEF CustomerPays, RefundSettles, PanelRefund, PanelDelete, GatewayStep
    <2>2. CollectStep
      BY <1>0, <1>12, CollectMoves
         DEF CustomerPays, RefundSettles, PanelRefund, PanelDelete, GatewayStep
    <2>3. \A d \in Charges : charge'[d] \in Back => charge[d] \in Back
      BY <1>0, <1>12
         DEF CustomerPays, RefundSettles, PanelRefund, PanelDelete, GatewayStep, Back, TypeOK
    <2>. QED
      BY <1>0, <2>1, <2>2, <2>3, PaidStays
  <1>13. CASE ExpireOrder
    <2>1. /\ row'.charge = row.charge /\ row'.gateway = row.gateway
          /\ row.status = "pending" /\ row'.status = "expired"
          /\ charge' = charge /\ events' = events /\ UNCHANGED task
      BY <1>0, <1>13 DEF ExpireOrder, Rows, gatewayVars
    <2>. QED
      BY <1>0, <2>1, CollectStays, PaidStays
  <1>14. ~Crash
    BY DEF Crash
  <1>15. CASE CalmStep
    <2>1. Next /\ NoLostUpdate
      BY <1>15 DEF CalmStep
    <2>. QED
      BY <1>0, <1>2, <1>3, <1>4, <1>5, <1>6, <1>7, <1>8, <1>9, <1>10, <1>11, <1>12, <1>13, <1>14,
         <2>1, SavePaid, LinkPaid, CommitPaid, RefundPaidPaid, CreditPaid DEF Next
  <1>. QED
    BY <1>1, <1>15

LEMMA PaidInit == Init => PaidInv
  <1>. SUFFICES ASSUME Init PROVE PaidInv
    OBVIOUS
  <1>1. /\ \A w \in Workers : task[w].pc = "idle"
        /\ events = {}
        /\ \A c \in Charges : charge[c] \in {"open", "none"}
    BY DEF Init, Idle
  <1>2. row.status # "paid"
    <2>1. CASE row = NoRow
      BY <2>1 DEF NoRow
    <2>2. ASSUME NEW credit,
                 row = [NoRow EXCEPT !.status = "pending", !.gateway = "asaas",
                                     !.charge = FirstCharge, !.credit = credit]
          PROVE  row.status # "paid"
      BY <2>2 DEF NoRow
    <2>. QED
      BY <2>1, <2>2 DEF Init
  <1>. QED
    BY <1>1, <1>2 DEF PaidInv, PaidFor, Back

\* A paid order that is left alone has the money of its charge, whatever requests ran:
\* no cancellation that was late, no refund of a conflict and no webhook sends it back
\* and leaves the order paid.  The process must not stop and no answer to a refund be
\* lost between the refund and the cancellation of the order, and the manager must not
\* refund in the panel of the gateway: these leave a paid order without its money.
THEOREM PaidOrderHasItsMoneyHolds ==
  ASSUME "refund" \notin Panel, "refund" \notin Faults, "crash" \notin Faults
  PROVE  CalmSpec => []PaidOrderHasItsMoney
  <1>1. LifeInv /\ MoneyInv /\ [Next /\ NoLostUpdate]_vars => MoneyInv'
    BY MoneyStep DEF CalmStep, MoneyKept
  <1>2. LifeInv /\ MoneyInv /\ PaidInv /\ [Next /\ NoLostUpdate]_vars => PaidInv'
    BY PaidStep DEF CalmStep
  <1>3. PaidInv => PaidOrderHasItsMoney
    BY DEF PaidInv, PaidOrderHasItsMoney, Quiet, At, ByCredit
  <1>. QED
    BY <1>1, <1>2, <1>3, MoneyInit, PaidInit, LifeInvAlways, PTL DEF CalmSpec

-----------------------------------------------------------------------------
(* Where the money of the order is *)

Gone == {"deleted"} \cup Back

Live(c) == charge[c] \in {"open", "paid"}

Passed == row.status \notin {"absent", "pending", "expired"}

\* There is no charge, and nobody makes one.
Empty == NoCharge /\ \A v \in Workers : ~Linking(v)

\* A request that ends an order as never paid has a charge that is dead, or none was made.
AccountPlace(w) ==
    LET t == task[w]
    IN  /\ t.mine.status = "paid" => Passed
        /\ t.pc = "post" => row.payment # "failed"
        /\ t.pc \in {"rollback", "remove"} => Empty
        /\ t.pc = "drop" \/ (t.pc \in {"save", "link"} /\ t.outcome = "deleted") =>
            t.charge # None /\ charge[t.charge] \in Gone
        /\ t.pc \in {"credit", "creditSave"} => row.status \in Dead
        /\ t.pc \notin Switching

OneCharge == \A c, d \in Charges : charge[c] # "none" /\ charge[d] # "none" => c = d

\* The webhook of a payment stays on its way until the order knows of the payment.
PaymentsHeard ==
    \A c \in Charges : Unpaid(row.status) /\ charge[c] = "paid" => <<"PAID", c>> \in events

AccountInv ==
    /\ OneCharge
    /\ PaymentsHeard
    /\ row.payment = "failed" => \A c \in Charges : ~Live(c)
    /\ row.status = "deleted" => Empty
    /\ \A c \in Charges : <<"DELETED", c>> \in events => charge[c] = "deleted"
    /\ \A w \in Workers : AccountPlace(w)

\* A charge is made for a checkout that has none; later it is paid, deleted or refunded,
\* and the gateway tells of it.
AccountStep ==
    /\ OneCharge'
    /\ \A c \in Charges :
        /\ charge[c] = "none" /\ charge'[c] # "none" =>
            NoCharge /\ \E v \in Workers : task[v].pc = "post"
        /\ Live(c)' => Live(c) \/ charge[c] = "none"
        /\ charge[c] \in Gone => charge'[c] \in Gone
        /\ charge[c] = "deleted" => charge'[c] = "deleted"
        /\ charge'[c] = "paid" => charge[c] = "paid" \/ <<"PAID", c>> \in events'
        /\ <<"DELETED", c>> \in events' => <<"DELETED", c>> \in events \/ charge'[c] = "deleted"

\* No webhook of a payment is acknowledged while the order waits for it.
EventsKept ==
    \A c \in Charges :
        Unpaid(row.status) /\ Unpaid(row'.status) /\ <<"PAID", c>> \in events => <<"PAID", c>> \in events'

LEMMA AccountStays ==
  ASSUME AccountInv, charge' = charge, events' \subseteq events
  PROVE  AccountStep
  BY DEF AccountInv, AccountStep, OneCharge, Live

\* A charge that was made changes its state.
LEMMA AccountChanges ==
  ASSUME TypeOK, AccountInv, NEW c \in Charges, NEW s, charge' = [charge EXCEPT ![c] = s],
         \/ charge[c] = "open" /\ s = "paid" /\ events' = events \cup {<<"PAID", c>>}
         \/ charge[c] = "open" /\ s = "deleted" /\ events' = Notify("DELETED", c)
         \/ /\ charge[c] \in {"paid", "refunding"} /\ s \in Back
            /\ events' = events \/ events' = Notify("REFUNDED", c)
  PROVE  AccountStep /\ EventsKept
  <1>1. \A d \in Charges : charge'[d] = IF d = c THEN s ELSE charge[d]
    BY DEF TypeOK
  <1>2. OneCharge' /\ OneCharge
    BY <1>1 DEF AccountInv, OneCharge, Back
  <1>3. \A d \in Charges : <<"DELETED", d>> \in events' =>
          <<"DELETED", d>> \in events \/ (d = c /\ s = "deleted")
    BY DEF Notify
  <1>4. events \subseteq events'
    BY DEF Notify
  <1>5. s = "paid" => <<"PAID", c>> \in events'
    BY DEF Back
  <1>. QED
    BY <1>1, <1>2, <1>3, <1>4, <1>5 DEF AccountStep, EventsKept, Live, Gone, Back

\* A request that goes on.
LEMMA AccountKeeps ==
  ASSUME Before, RowStep, ChargeStep, AccountInv, AccountStep, EventsKept, row.status # "absent",
         NEW w \in Workers, NEW pc, Moved(w, pc),
         Linking(w)' => Linking(w),
         task'[w].mine.status \in {task[w].mine.status, row.status, row'.status, "absent"},
         pc \notin {"post"} \cup Switching,
         pc \in {"rollback", "remove"} => Empty \/ Empty',
         pc = "drop" \/ (pc \in {"save", "link"} /\ task'[w].outcome = "deleted") =>
            task'[w].charge \in Charges /\ charge'[task'[w].charge] \in Gone,
         pc \in {"credit", "creditSave"} => row'.status \in Dead,
         row'.payment = "failed" =>
            \/ row.payment = "failed"
            \/ /\ charge' = charge /\ \A c \in Charges : ~Live(c)
               /\ \A v \in Workers : task[v].pc # "post",
         row'.status = "deleted" => row.status = "deleted" \/ Empty
  PROVE  AccountInv'
  <1>0. TypeOK /\ LifeInv /\ MoneyInv /\ Turn /\ Linked
    BY DEF Before, MoneyInv
  <1>1. Empty => Empty'
    <2>. SUFFICES ASSUME Empty PROVE Empty'
      OBVIOUS
    <2>1. \A v \in Workers : task[v].pc # "post"
      BY DEF Empty, Linking
    <2>2. NoCharge'
      BY <2>1 DEF Empty, NoCharge, AccountStep
    <2>3. \A v \in Workers \ {w} : ~Linking(v)'
      BY DEF Empty, Linking, Moved
    <2>. QED
      BY <2>2, <2>3 DEF Empty
  <1>2. Passed => Passed'
    BY <1>0 DEF Passed, Turn, Same, Unpaid, Removable, Final, Dead
  <1>3. \A c \in Charges : Unpaid(row'.status) /\ charge'[c] = "paid" => <<"PAID", c>> \in events'
    <2>1. Unpaid(row'.status) => Unpaid(row.status)
      BY <1>2 DEF Passed, Unpaid
    <2>. QED
      BY <2>1 DEF AccountInv, PaymentsHeard, AccountStep, EventsKept
  <1>4. row'.payment = "failed" => \A c \in Charges : ~Live(c)'
    <2>1. CASE row.payment = "failed"
      BY <2>1 DEF AccountInv, AccountPlace, AccountStep, Live
    <2>2. CASE charge' = charge /\ \A c \in Charges : ~Live(c)
      BY <2>2 DEF Live
    <2>. QED
      BY <2>1, <2>2
  <1>5. row'.status = "deleted" => Empty'
    BY <1>1 DEF AccountInv
  <1>6. \A c \in Charges : <<"DELETED", c>> \in events' => charge'[c] = "deleted"
    BY DEF AccountInv, AccountStep
  <1>7. \A v \in Workers \ {w} : AccountPlace(v)'
    <2>. SUFFICES ASSUME NEW v \in Workers \ {w} PROVE AccountPlace(v)'
      OBVIOUS
    <2>1. task'[v] = task[v] /\ AccountPlace(v) /\ task[v].charge \in Charges \cup {None}
      BY <1>0 DEF Moved, AccountInv, TypeOK, Tasks
    <2>2. task[v].pc = "post" => row'.payment # "failed"
      BY <2>1 DEF AccountPlace
    <2>3. task[v].charge # None /\ charge[task[v].charge] \in Gone => charge'[task[v].charge] \in Gone
      BY <2>1 DEF AccountStep
    <2>4. row.status \in Dead => row'.status \in Dead
      BY DEF RowStep
    <2>. QED
      BY <1>1, <1>2, <2>1, <2>2, <2>3, <2>4 DEF AccountPlace
  <1>8. AccountPlace(w)'
    <2>1. row'.status = "paid" => Passed'
      BY DEF Passed
    <2>2. row.status = "paid" => Passed'
      BY <1>2 DEF Passed
    <2>3. task'[w].mine.status = "paid" => Passed'
      BY <1>2, <2>1, <2>2 DEF AccountInv, AccountPlace
    <2>4. task'[w].pc = pc
      BY DEF Moved
    <2>. QED
      BY <1>1, <2>3, <2>4, PaymentsAssumption DEF AccountPlace
  <1>. QED
    BY <1>3, <1>4, <1>5, <1>6, <1>7, <1>8 DEF AccountInv, AccountStep, PaymentsHeard

\* What is known when a step is taken.
Underway == Before /\ RowStep /\ ChargeStep /\ AccountInv

LEMMA UnderwayIs ==
  ASSUME Underway, NEW w \in Workers
  PROVE  /\ Before /\ RowStep /\ ChargeStep /\ AccountInv /\ AccountPlace(w)
         /\ TypeOK /\ LifeInv /\ MoneyInv /\ RowTrue /\ EventsTrue /\ Copy(w) /\ Place(w)
         /\ row \in Rows /\ task \in [Workers -> Tasks] /\ task[w].mine \in Rows
         /\ task[w].charge \in Charges \cup {None}
         /\ task[w].pc # "idle" => row.status # "absent"
  BY Here, NotAbsent DEF Underway, AccountInv

\* A request that ends, or goes on to where nothing is decided.
LEMMA GotoAccount ==
  ASSUME Underway, NEW w \in Workers, NEW pc, Goto(w, pc), task[w].pc # "idle",
         AccountStep, EventsKept,
         pc \notin {"post", "free", "link", "save", "drop", "rollback", "remove"} \cup Switching,
         pc \in {"credit", "creditSave"} => row'.status \in Dead,
         row'.payment = "failed" =>
            \/ row.payment = "failed"
            \/ /\ charge' = charge /\ \A c \in Charges : ~Live(c)
               /\ \A v \in Workers : task[v].pc # "post",
         row'.status = "deleted" => row.status = "deleted" \/ Empty
  PROVE  AccountInv'
  <1>0. Before /\ TypeOK /\ RowStep /\ ChargeStep /\ AccountInv /\ row.status # "absent"
    BY UnderwayIs
  <1>1. Moved(w, pc) /\ (task'[w].mine = task[w].mine \/ task'[w] = Idle)
    BY <1>0, GotoMove, GotoIs
  <1>2. task'[w].mine.status \in {task[w].mine.status, "absent"}
    BY <1>1 DEF Idle, NoRow
  <1>3. ~Linking(w)'
    BY <1>1 DEF Moved, Linking
  <1>. QED
    BY <1>0, <1>1, <1>2, <1>3, AccountKeeps

\* A request that ends well and acknowledges its webhook, of an order that is not waiting.
LEMMA EndAccount ==
  ASSUME Underway, NEW w \in Workers, NEW pc, Goto(w, pc), task[w].pc # "idle",
         charge' = charge,
         events' = events \/ (events' \subseteq events /\ ~(Unpaid(row.status) /\ Unpaid(row'.status))),
         pc \notin {"post", "free", "link", "save", "drop", "rollback", "remove"} \cup Switching,
         pc \in {"credit", "creditSave"} => row'.status \in Dead,
         row'.payment = "failed" => row.payment = "failed",
         row'.status = "deleted" => row.status = "deleted" \/ Empty
  PROVE  AccountInv'
  <1>1. AccountInv
    BY DEF Underway
  <1>2. AccountStep /\ EventsKept
    BY <1>1, AccountStays DEF EventsKept
  <1>. QED
    BY <1>2, GotoAccount

LEMMA PostChargeHeard ==
  ASSUME TypeOK, "post" \notin Faults, NEW w \in Workers, NEW done \in Pcs \ {"idle"}, NEW failed,
         PostCharge(w, done, failed)
  PROVE  \/ Goto(w, failed) /\ UNCHANGED gatewayVars
         \/ \E c \in Charges, s \in {"open", "paid", "deleted"} :
              /\ charge[c] = "none"
              /\ charge' = [charge EXCEPT ![c] = s]
              /\ events' = IF s = "paid" THEN Notify("PAID", c) ELSE events
              /\ Moved(w, done)
              /\ task'[w].kind = task[w].kind /\ task'[w].mine = task[w].mine
              /\ task'[w].charge = c /\ task'[w].outcome = s
  <1>1. ASSUME NEW c \in Charges, NEW s \in {"open", "paid", "deleted"}, NEW heard \in Heard("post"),
               task' = [task EXCEPT ![w] =
                          IF heard THEN [@ EXCEPT !.pc = done, !.charge = c, !.outcome = s]
                          ELSE Continue(@, failed)]
        PROVE  /\ Moved(w, done)
               /\ task'[w].kind = task[w].kind /\ task'[w].mine = task[w].mine
               /\ task'[w].charge = c /\ task'[w].outcome = s
    <2>1. heard
      BY <1>1 DEF Heard
    <2>2. task' = [task EXCEPT ![w] =
                      [task[w] EXCEPT !.pc = done, !.charge = c, !.outcome = s]]
      BY <1>1, <2>1
    <2>. QED
      BY <2>2 DEF Moved, TypeOK, Tasks
  <1>2. CASE ~(Goto(w, failed) /\ UNCHANGED gatewayVars)
    <2>1. PICK c \in Charges, s \in {"open", "paid", "deleted"}, heard \in Heard("post") :
            /\ charge[c] = "none"
            /\ charge' = [charge EXCEPT ![c] = s]
            /\ events' = IF s = "paid" THEN Notify("PAID", c) ELSE events
            /\ task' = [task EXCEPT ![w] =
                          IF heard THEN [@ EXCEPT !.pc = done, !.charge = c, !.outcome = s]
                          ELSE Continue(@, failed)]
      BY <1>2 DEF PostCharge
    <2>. QED
      BY <1>1, <2>1
  <1>. QED
    BY <1>2

LEMMA CheckoutAccount ==
  ASSUME Underway, NEW w \in Workers, Checkout(w)
  PROVE  AccountInv'
  <1>0. /\ TypeOK /\ MoneyInv /\ AccountInv /\ row.status = "absent"
        /\ charge' = charge /\ events' = events
    BY UnderwayIs DEF Checkout, gatewayVars
  <1>1. NoCharge /\ NoCharge' /\ \A v \in Workers : task[v] = Idle
    BY <1>0 DEF MoneyInv, Beginning, NoCharge
  <1>2. row'.status = "pending" /\ row'.payment = "pending"
    BY DEF Checkout, NoRow
  <1>3. PICK pc \in {"free", "post"} : Begin(w, "checkout", pc, NoRow, None, "none")
    BY DEF Checkout
  <1>4. /\ \A v \in Workers \ {w} : task'[v] = Idle
        /\ task'[w].pc = pc /\ task'[w].mine = NoRow
    BY <1>0, <1>1, <1>3, BeginIs
  <1>5. \A v \in Workers \ {w} : task'[v].pc = "idle" /\ task'[v].mine = NoRow
    BY <1>4 DEF Idle
  <1>6. \A v \in Workers : AccountPlace(v)'
    BY <1>2, <1>4, <1>5 DEF AccountPlace, NoRow, Switching
  <1>. QED
    BY <1>0, <1>1, <1>2, <1>6 DEF AccountInv, OneCharge, PaymentsHeard, NoCharge

LEMMA PostAccount ==
  ASSUME Underway, "post" \notin Faults, "PAID" \in Notified, NEW w \in Workers, Post(w)
  PROVE  AccountInv'
  <1>0. /\ Before /\ RowStep /\ ChargeStep /\ AccountInv /\ TypeOK /\ MoneyInv
        /\ Place(w) /\ AccountPlace(w)
        /\ task[w].pc = "post" /\ row' = row /\ row.status # "absent"
    BY UnderwayIs DEF Post, At
  <1>1. Linking(w) /\ task[w].charge = None /\ row.payment # "failed"
    BY <1>0 DEF Linking, Place, AccountPlace
  <1>2. NoCharge /\ \A v \in Workers \ {w} : ~Linking(v)
    BY <1>0, <1>1, PaymentsAssumption DEF MoneyInv, Linked, NoCharge
  <1>3. row.status # "deleted"
    BY <1>0, <1>1 DEF AccountInv, Empty
  <1>4. CASE Goto(w, "rollback") /\ UNCHANGED gatewayVars
    <2>1. /\ Moved(w, "rollback") /\ charge' = charge /\ events' = events
          /\ task'[w].mine = task[w].mine /\ task'[w].pc = "rollback"
      BY <1>0, <1>4, GotoMove, GotoIs DEF gatewayVars
    <2>2. Empty' /\ ~Linking(w)'
      BY <1>2, <2>1 DEF Empty, NoCharge, Linking, Moved
    <2>3. AccountStep /\ EventsKept
      BY <1>0, <2>1, AccountStays DEF EventsKept
    <2>. QED
      BY <1>0, <1>1, <1>3, <2>1, <2>2, <2>3, AccountKeeps DEF Switching
  <1>5. ASSUME NEW c \in Charges, NEW s \in {"open", "paid", "deleted"}, charge[c] = "none",
               charge' = [charge EXCEPT ![c] = s],
               events' = IF s = "paid" THEN Notify("PAID", c) ELSE events,
               Moved(w, "link"), task'[w].mine = task[w].mine,
               task'[w].charge = c, task'[w].outcome = s
        PROVE  AccountInv'
    <2>1. \A d \in Charges : charge'[d] = IF d = c THEN s ELSE "none"
      BY <1>0, <1>2, <1>5 DEF TypeOK, NoCharge
    <2>2. /\ events \subseteq events'
          /\ \A d \in Charges : <<"DELETED", d>> \in events' => <<"DELETED", d>> \in events
          /\ s = "paid" => <<"PAID", c>> \in events'
      BY <1>5 DEF Notify
    <2>3. AccountStep /\ EventsKept
      BY <1>0, <1>2, <2>1, <2>2
         DEF AccountStep, EventsKept, OneCharge, NoCharge, Live, Gone, Back
    <2>4. s = "deleted" => charge'[c] \in Gone
      BY <2>1 DEF Gone
    <2>. QED
      BY <1>0, <1>1, <1>3, <1>5, <2>3, <2>4, AccountKeeps DEF Switching
  <1>6. "link" \in Pcs \ {"idle"}
    BY DEF Pcs
  <1>. QED
    BY <1>0, <1>4, <1>5, <1>6, PostChargeHeard DEF Post

LEMMA LinkAccount ==
  ASSUME Underway, NEW w \in Workers, Link(w)
  PROVE  AccountInv'
  <1>0. /\ Before /\ RowStep /\ ChargeStep /\ AccountInv /\ TypeOK /\ AccountPlace(w)
        /\ task \in [Workers -> Tasks] /\ row \in Rows /\ task[w].charge \in Charges \cup {None}
        /\ row' = row /\ charge' = charge /\ events' = events
        /\ row.status # "absent" /\ task[w].pc \in {"link", "free"}
    BY UnderwayIs DEF Link, At, gatewayVars
  <1>1. AccountStep /\ EventsKept /\ Linking(w)
    BY <1>0, AccountStays DEF EventsKept, Linking
  <1>2. CASE End(w)
    BY <1>0, <1>2, EndAccount DEF End, Switching
  <1>3. CASE /\ task[w].pc = "link"
             /\ task' = [task EXCEPT ![w].pc = "save",
                     ![w].mine = [row EXCEPT !.gateway = "asaas", !.charge = task[w].charge]]
    <2>1. /\ Moved(w, "save") /\ task'[w].charge = task[w].charge
          /\ task'[w].outcome = task[w].outcome /\ task'[w].mine.status = row.status
      BY <1>0, <1>3 DEF Moved, Tasks, Rows
    <2>. QED
      BY <1>0, <1>1, <1>3, <2>1, AccountKeeps DEF AccountPlace, Switching
  <1>4. CASE task' = [task EXCEPT ![w].pc = "save", ![w].outcome = "paid",
                     ![w].mine = [row EXCEPT !.gateway = "store_credit"]]
    <2>1. /\ Moved(w, "save") /\ task'[w].outcome = "paid" /\ task'[w].mine.status = row.status
      BY <1>0, <1>4 DEF Moved, Tasks, Rows
    <2>. QED
      BY <1>0, <1>1, <2>1, AccountKeeps DEF Switching
  <1>. QED
    BY <1>2, <1>3, <1>4 DEF Link, At

LEMMA SaveAccount ==
  ASSUME Underway, NoLostUpdate, NEW w \in Workers, Save(w)
  PROVE  AccountInv'
  <1>0. /\ Before /\ RowStep /\ ChargeStep /\ AccountInv /\ TypeOK /\ AccountPlace(w)
        /\ task[w].mine \in Rows /\ task[w].charge \in Charges \cup {None}
        /\ row' = task[w].mine /\ charge' = charge /\ events' = events
        /\ row.status # "absent" /\ task[w].pc = "save"
    BY UnderwayIs DEF Save, At, gatewayVars
  <1>1. PICK pc \in {"pay", "drop", "idle"} :
          Goto(w, pc) /\ (pc = "drop" => task[w].outcome = "deleted")
    BY DEF Save, End
  <1>2. task'[w] # task[w]
    BY <1>0, <1>1, GotoMoves
  <1>3. row'.status = row.status /\ row'.payment = row.payment
    BY <1>0, <1>2, SaveIsSame DEF Same
  <1>4. CASE pc = "drop"
    <2>1. /\ Moved(w, "drop") /\ task'[w].mine = task[w].mine /\ task'[w].charge = task[w].charge
          /\ ~Linking(w)'
      BY <1>0, <1>1, <1>4, GotoMove, GotoIs DEF Linking
    <2>2. AccountStep /\ EventsKept
      BY <1>0, AccountStays DEF EventsKept
    <2>. QED
      BY <1>0, <1>1, <1>3, <1>4, <2>1, <2>2, AccountKeeps DEF AccountPlace, Switching
  <1>5. CASE pc # "drop"
    BY <1>0, <1>1, <1>3, <1>5, EndAccount DEF Switching
  <1>. QED
    BY <1>4, <1>5

LEMMA RollbackAccount ==
  ASSUME Underway, NEW w \in Workers, Rollback(w) \/ Remove(w)
  PROVE  AccountInv'
  <1>0. /\ Before /\ RowStep /\ ChargeStep /\ AccountInv /\ TypeOK /\ AccountPlace(w)
        /\ row \in Rows /\ row.status # "absent" /\ charge' = charge /\ events' = events
        /\ task[w].pc \in {"rollback", "remove"}
    BY UnderwayIs DEF Rollback, Remove, At, gatewayVars
  <1>1. Empty
    BY <1>0 DEF AccountPlace
  <1>2. (\A c \in Charges : ~Live(c)) /\ \A v \in Workers : task[v].pc # "post"
    BY <1>1 DEF Empty, NoCharge, Live, Linking
  <1>3. CASE Remove(w)
    <2>1. row'.payment = "pending" /\ Goto(w, "idle")
      BY <1>3 DEF Remove, NoRow, End
    <2>. QED
      BY <1>0, <1>1, <2>1, EndAccount DEF Switching
  <1>4. CASE Rollback(w) /\ Goto(w, "remove")
    <2>1. /\ Moved(w, "remove") /\ task'[w].mine = task[w].mine /\ task'[w].pc = "remove"
      BY <1>0, <1>4, GotoMove, GotoIs
    <2>2. row' = row \/ row'.status = "canceled"
      BY <1>0, <1>4 DEF Rollback, Rows
    <2>3. AccountStep /\ EventsKept /\ ~Linking(w)'
      BY <1>0, <2>1, AccountStays DEF EventsKept, Linking
    <2>. QED
      BY <1>0, <1>1, <1>2, <2>1, <2>2, <2>3, AccountKeeps DEF Switching
  <1>5. CASE Goto(w, "idle") /\ row' = row
    BY <1>0, <1>5, EndAccount DEF Switching
  <1>. QED
    BY <1>3, <1>4, <1>5 DEF Rollback, End

LEMMA CommitAccount ==
  ASSUME Underway, NEW w \in Workers, MarkOrderPaid(w)
  PROVE  AccountInv'
  <1>0. /\ Before /\ RowStep /\ ChargeStep /\ AccountInv /\ TypeOK /\ AccountPlace(w)
        /\ row \in Rows /\ task \in [Workers -> Tasks] /\ row.status # "absent"
        /\ charge' = charge /\ events' \subseteq events /\ task[w].pc = "pay"
    BY UnderwayIs
       DEF MarkOrderPaid, At, gatewayVars, CommitOrder, ConflictOrder, EndWell
  <1>1. CASE (task[w].mine.status = "paid" \/ row.status = "paid") /\ EndWell(w) /\ row' = row
    <2>1. ~Unpaid(row.status) /\ Goto(w, "idle")
      BY <1>0, <1>1 DEF AccountPlace, Passed, Unpaid, EndWell, End
    <2>. QED
      BY <1>0, <1>1, <2>1, EndAccount DEF Switching
  <1>2. CASE CommitOrder(w)
    <2>1. row'.status = "paid" /\ row'.payment = "confirmed" /\ Goto(w, "idle")
      BY <1>0, <1>2 DEF CommitOrder, EndWell, End, Rows
    <2>. QED
      BY <1>0, <2>1, EndAccount DEF Switching, Unpaid
  <1>3. ASSUME Moved(w, "claim"), task'[w].mine.status \in {row.status, row'.status},
               events' = events,
               row' = row \/ (row'.payment = "refund_pending" /\ row'.status = "stock_conflict")
        PROVE  AccountInv'
    <2>1. AccountStep /\ EventsKept /\ ~Linking(w)'
      BY <1>0, <1>3, AccountStays DEF EventsKept, Linking, Moved
    <2>. QED
      BY <1>0, <1>3, <2>1, AccountKeeps DEF Switching
  <1>4. CASE ConflictOrder(w)
    <2>1. /\ row'.payment = "refund_pending" /\ row'.status = "stock_conflict" /\ events' = events
          /\ Moved(w, "claim") /\ task'[w].mine = row'
      BY <1>0, <1>4 DEF ConflictOrder, Rows, gatewayVars, Moved, Tasks
    <2>. QED
      BY <1>3, <2>1
  <1>5. CASE /\ task' = [task EXCEPT ![w].pc = "claim", ![w].mine = row]
             /\ UNCHANGED <<row, unitsOut, gatewayVars>>
    <2>1. Moved(w, "claim") /\ task'[w].mine = row /\ row' = row /\ events' = events
      BY <1>0, <1>5 DEF gatewayVars, Moved, Tasks
    <2>. QED
      BY <1>3, <2>1
  <1>6. CASE End(w) /\ UNCHANGED <<row, unitsOut, gatewayVars>>
    BY <1>0, <1>6, EndAccount DEF End, Switching, gatewayVars
  <1>. QED
    BY <1>1, <1>2, <1>4, <1>5, <1>6 DEF MarkOrderPaid

\* The refund of a conflict: the order is one, or is deleted.
LEMMA ConflictAccount ==
  ASSUME Underway, NEW w \in Workers,
         \/ ClaimStockConflictRefund(w) \/ MarkConflictRefunded(w)
         \/ ReleaseClaim(w) \/ MarkRefunded(w)
  PROVE  AccountInv'
  <1>0. /\ TypeOK /\ LifeInv /\ MoneyInv /\ Place(w) /\ Copy(w) /\ row \in Rows
    BY UnderwayIs
  <1>1. charge' = charge /\ events' \subseteq events
    BY DEF ClaimStockConflictRefund, MarkConflictRefunded, ReleaseClaim, MarkRefunded,
           EndWell, gatewayVars
  <1>2. /\ row'.status = row.status
        /\ row'.payment \in {row.payment, "refunded"}
    BY <1>0 DEF ClaimStockConflictRefund, MarkConflictRefunded, ReleaseClaim, MarkRefunded, Rows
  <1>3. PICK pc \in {"claimCredit", "refund", "unclaim", "idle"} : Goto(w, pc)
    BY DEF ClaimStockConflictRefund, MarkConflictRefunded, ReleaseClaim, MarkRefunded, EndWell, End
  <1>4. task[w].pc \in {"claim", "mark", "unclaim", "hookRefunded"}
    BY DEF ClaimStockConflictRefund, MarkConflictRefunded, ReleaseClaim, MarkRefunded, At
  <1>5. ~Unpaid(row.status)
    <2>1. CASE task[w].pc = "claim"
      BY <1>0, <2>1, Statuses DEF Place, Copy, Dead, Unpaid
    <2>2. CASE task[w].pc # "claim"
      BY <1>0, <1>4, <2>2 DEF LifeInv, Decided, Refunding, At, Unpaid
    <2>. QED
      BY <2>1, <2>2
  <1>. QED
    BY <1>1, <1>2, <1>3, <1>4, <1>5, EndAccount DEF Switching

LEMMA RefundAccount ==
  ASSUME Underway, NEW w \in Workers, RefundPaid(w) \/ RefundStockConflict(w)
  PROVE  AccountInv'
  <1>0. /\ TypeOK /\ LifeInv /\ AccountInv /\ row' = row /\ task[w].mine \in Rows
        /\ task[w].pc \in {"refund", "refundPaid"}
        /\ Before /\ RowStep /\ ChargeStep /\ row.status # "absent"
    BY UnderwayIs DEF RefundPaid, RefundStockConflict, At
  <1>1. ASSUME NEW c \in Charges, NEW done \in {"restock", "mark"}, NEW failed \in {"idle", "unclaim"},
               PostRefund(w, c, done, failed)
        PROVE  AccountInv'
    <2>1. CASE Goto(w, failed) /\ UNCHANGED gatewayVars
      BY <1>0, <1>1, <2>1, EndAccount DEF gatewayVars, Switching
    <2>2. ASSUME NEW s \in Back, charge[c] = "paid", charge' = [charge EXCEPT ![c] = s],
                 events' = IF s = "refunded" THEN Notify("REFUNDED", c) ELSE events
          PROVE  AccountStep /\ EventsKept
      BY <1>0, <2>2, AccountChanges
    <2>3. CASE AccountStep /\ EventsKept /\ Goto(w, failed)
      BY <1>0, <1>1, <2>3, GotoAccount DEF Switching
    <2>4. CASE /\ AccountStep /\ EventsKept
               /\ \A v \in Workers \ {w} : task'[v] = task[v]
               /\ task'[w].pc = done /\ task'[w].mine = task[w].mine
      <3>1. Moved(w, done) /\ ~Linking(w)'
        BY <1>1, <2>4 DEF Moved, Linking
      <3>. QED
        BY <1>0, <1>1, <2>4, <3>1, AccountKeeps DEF Switching
    <2>5. done \in Pcs \ {"idle"}
      BY DEF Pcs
    <2>. QED
      BY <1>0, <1>1, <2>1, <2>2, <2>3, <2>4, <2>5, PostRefundIs
  <1>2. CASE RefundPaid(w)
    <2>1. task[w].mine.charge \in Charges
      BY <1>0, <1>2 DEF RefundPaid, At, LifeInv, CalmInv, TypeInv, ChargesKnown
    <2>. QED
      BY <1>1, <1>2, <2>1 DEF RefundPaid
  <1>3. CASE RefundStockConflict(w)
    <2>1. ASSUME NEW pc \in {"mark", "unclaim"}, Goto(w, pc), UNCHANGED gatewayVars
          PROVE  AccountInv'
      BY <1>0, <2>1, EndAccount DEF gatewayVars, Switching
    <2>2. task[w].mine.charge # None => task[w].mine.charge \in Charges
      BY <1>0 DEF Rows
    <2>. QED
      BY <1>1, <1>3, <2>1, <2>2 DEF RefundStockConflict
  <1>. QED
    BY <1>2, <1>3

LEMMA CreditAccount ==
  ASSUME Underway, NoLostUpdate, NEW w \in Workers, ReleaseStoreCredit(w)
  PROVE  AccountInv'
  <1>0. /\ Before /\ RowStep /\ ChargeStep /\ AccountInv /\ TypeOK /\ LifeInv /\ AccountPlace(w)
        /\ task[w].mine \in Rows /\ task \in [Workers -> Tasks] /\ row \in Rows
    BY UnderwayIs
  <1>1. task[w].pc \in {"claimCredit", "claimCreditSave", "credit", "creditSave"}
    BY DEF ReleaseStoreCredit, ReadCredit, SaveCredit, At
  <1>2. ~Unpaid(row.status) /\ row.status # "absent"
    BY <1>0, <1>1 DEF LifeInv, Decided, Refunding, AccountPlace, Unpaid, Dead
  <1>3. ASSUME NEW from, NEW to, NEW after, ReadCredit(w, from, to, after),
               \/ from = "claimCredit" /\ to = "claimCreditSave" /\ after = "refund"
               \/ from = "credit" /\ to = "creditSave" /\ after = "idle"
        PROVE  AccountInv'
    <2>1. task[w].pc = from /\ row' = row /\ charge' = charge /\ events' \subseteq events
      BY <1>3 DEF ReadCredit, At, EndWell, gatewayVars
    <2>2. CASE Goto(w, after)
      BY <1>1, <1>2, <1>3, <2>1, <2>2, EndAccount DEF Switching
    <2>3. CASE task' = [task EXCEPT ![w].pc = to, ![w].mine = row]
      <3>1. Moved(w, to) /\ task'[w].mine = row /\ task'[w].pc = to
        BY <1>0, <2>3 DEF Moved, Tasks
      <3>2. AccountStep /\ EventsKept /\ ~Linking(w)'
        BY <1>0, <1>2, <1>3, <2>1, <3>1, AccountStays DEF EventsKept, Linking
      <3>3. to = "creditSave" => row'.status \in Dead
        BY <1>0, <1>3, <2>1 DEF AccountPlace
      <3>. QED
        BY <1>0, <1>2, <1>3, <2>1, <3>1, <3>2, <3>3, AccountKeeps DEF Switching
    <2>. QED
      BY <1>3, <2>2, <2>3 DEF ReadCredit, EndWell, End
  <1>4. ASSUME NEW from \in {"claimCreditSave", "creditSave"}, NEW after \in {"refund", "idle"},
               SaveCredit(w, from, after)
        PROVE  AccountInv'
    <2>1. /\ task[w].pc = from /\ row' = [task[w].mine EXCEPT !.credit = FALSE]
          /\ charge' = charge /\ events' \subseteq events /\ Goto(w, after)
      BY <1>4 DEF SaveCredit, At, EndWell, End, gatewayVars
    <2>2. task'[w] # task[w]
      BY <1>0, <1>4, <2>1, GotoMoves
    <2>3. row'.status = task[w].mine.status /\ row'.payment = task[w].mine.payment
      BY <1>0, <2>1 DEF Rows
    <2>4. row'.status = row.status /\ row'.payment = row.payment
      BY <1>0, <1>4, <2>1, <2>2, <2>3, SaveIsSame DEF Same
    <2>. QED
      BY <1>1, <1>2, <1>4, <2>1, <2>4, EndAccount DEF Switching
  <1>. QED
    BY <1>3, <1>4 DEF ReleaseStoreCredit

LEMMA DropAccount ==
  ASSUME Underway, NEW w \in Workers, CancelPendingOrder(w)
  PROVE  AccountInv'
  <1>0. /\ AccountInv /\ MoneyInv /\ AccountPlace(w) /\ row \in Rows
        /\ task[w].charge \in Charges \cup {None}
        /\ task[w].pc = "drop" /\ charge' = charge /\ events' = events
    BY UnderwayIs DEF CancelPendingOrder, At, gatewayVars
  <1>1. task[w].charge \in Charges /\ charge[task[w].charge] \in Gone
    BY <1>0 DEF AccountPlace
  <1>2. \A c \in Charges : ~Live(c)
    BY <1>0, <1>1 DEF AccountInv, OneCharge, Live, Gone, Back
  <1>3. \A v \in Workers : task[v].pc # "post"
    <2>. SUFFICES ASSUME NEW v \in Workers, task[v].pc = "post" PROVE FALSE
      OBVIOUS
    <2>1. Linking(v) /\ Linked /\ Place(v)
      BY <1>0 DEF Linking, MoneyInv
    <2>2. task[v].charge = None
      BY <2>1 DEF Place
    <2>. QED
      BY <1>1, <2>1, <2>2, PaymentsAssumption DEF Linked, Gone, Back
  <1>4. CASE Exists /\ row.status \notin {"paid", "stock_conflict"}
    <2>1. row'.status = "canceled" /\ Goto(w, "credit")
      BY <1>0, <1>4 DEF CancelPendingOrder, Rows
    <2>2. AccountStep /\ EventsKept
      BY <1>0, AccountStays DEF EventsKept
    <2>. QED
      BY <1>0, <1>2, <1>3, <1>4, <2>1, <2>2, GotoAccount DEF Dead, Switching
  <1>5. CASE ~(Exists /\ row.status \notin {"paid", "stock_conflict"})
    BY <1>0, <1>5, EndAccount DEF CancelPendingOrder, End, Switching
  <1>. QED
    BY <1>4, <1>5

LEMMA RestockAccount ==
  ASSUME Underway, NEW w \in Workers, RestockCanceledOrder(w)
  PROVE  AccountInv'
  <1>0. /\ row \in Rows /\ task[w].pc = "restock" /\ charge' = charge /\ events' = events
    BY UnderwayIs DEF RestockCanceledOrder, At, gatewayVars
  <1>1. CASE Exists
    <2>1. /\ row'.status = "canceled" /\ row'.payment # "failed" /\ Goto(w, "credit")
      BY <1>0, <1>1 DEF RestockCanceledOrder, Rows
    <2>. QED
      BY <1>0, <2>1, EndAccount DEF Dead, Switching
  <1>2. CASE ~Exists
    BY <1>0, <1>2, EndAccount DEF RestockCanceledOrder, End, Switching
  <1>. QED
    BY <1>1, <1>2

\* A request that begins.
LEMMA BeginAccount ==
  ASSUME Underway, NEW w \in Workers, NEW kind, NEW pc, NEW mine, NEW c, NEW outcome,
         Begin(w, kind, pc, mine, c, outcome), row' = row, charge' = charge, events' = events,
         mine.status = row.status, row.status # "absent", kind # "checkout",
         \/ pc \in {"pay", "hookRefunded", "poll", "restock", "refundPaid"}
         \/ pc = "save" /\ c \in Charges /\ charge[c] = "deleted"
  PROVE  AccountInv'
  <1>0. Before /\ TypeOK /\ RowStep /\ ChargeStep /\ AccountInv
    BY UnderwayIs
  <1>1. /\ Moved(w, pc) /\ task'[w].mine = mine /\ task'[w].charge = c
        /\ task'[w].kind = kind
    BY <1>0, BeginMove, BeginIs
  <1>2. AccountStep /\ EventsKept /\ ~Linking(w)'
    BY <1>0, <1>1, AccountStays DEF EventsKept, Linking, Moved
  <1>. QED
    BY <1>0, <1>1, <1>2, AccountKeeps DEF Switching, Gone

LEMMA WebhookAccount ==
  ASSUME Underway, NEW w \in Workers, Webhook(w)
  PROVE  AccountInv'
  <1>0. AccountInv /\ row \in Rows /\ row' = row /\ charge' = charge /\ events' = events
    BY UnderwayIs DEF Webhook, gatewayVars
  <1>1. PICK e \in Events, c \in Charges :
          /\ <<e, c>> \in events /\ Exists
          /\ \/ Begin(w, e, "pay", row, c, "none")
             \/ Begin(w, e, "hookRefunded", row, c, "none")
             \/ e = "DELETED" /\ Begin(w, e, "save", [row EXCEPT !.charge = c], c, "deleted")
    BY DEF Webhook
  <1>2. e # "checkout" /\ row.status # "absent" /\ [row EXCEPT !.charge = c].status = row.status
    BY <1>0, <1>1 DEF Events, Exists, Rows
  <1>3. e = "DELETED" => charge[c] = "deleted"
    BY <1>0, <1>1 DEF AccountInv
  <1>. QED
    BY <1>0, <1>1, <1>2, <1>3, BeginAccount

LEMMA PollAccount ==
  ASSUME Underway, NEW w \in Workers, Poll(w)
  PROVE  AccountInv'
  <1>0. /\ Before /\ RowStep /\ ChargeStep /\ AccountInv /\ TypeOK /\ Place(w)
        /\ task \in [Workers -> Tasks] /\ row.status # "absent"
        /\ task[w].charge \in Charges \cup {None}
        /\ row' = row /\ charge' = charge /\ events' = events /\ task[w].pc = "poll"
    BY UnderwayIs DEF Poll, At, gatewayVars
  <1>1. CASE Goto(w, "pay") \/ Goto(w, "idle")
    BY <1>0, <1>1, EndAccount DEF Switching
  <1>2. CASE /\ charge[task[w].charge] \in {"deleted", "refunding", "refunded"}
             /\ task' = [task EXCEPT ![w].pc = "save", ![w].outcome = "deleted"]
    <2>1. /\ Moved(w, "save") /\ task'[w].charge = task[w].charge
          /\ task'[w].mine = task[w].mine /\ task'[w].kind = task[w].kind
      BY <1>0, <1>2 DEF Moved, Tasks
    <2>2. task[w].charge \in Charges /\ task[w].kind # "checkout"
      BY <1>0 DEF Place, Switching
    <2>3. AccountStep /\ EventsKept /\ ~Linking(w)'
      BY <1>0, <2>1, <2>2, AccountStays DEF EventsKept, Linking, Moved
    <2>. QED
      BY <1>0, <1>2, <2>1, <2>2, <2>3, AccountKeeps DEF Switching, Gone, Back
  <1>. QED
    BY <1>1, <1>2 DEF Poll, End

\* The gateway, the sweep, a webhook that is ignored, or a crash.
LEMMA QuietAccount ==
  ASSUME Underway, AccountStep, EventsKept, row.status # "absent" \/ row' = row,
         row'.payment = row.payment, row'.status = row.status \/ row'.status = "expired",
         row.status = "expired" \/ row.status = "pending" \/ row' = row,
         \A c \in Charges : charge'[c] # "none" => charge[c] # "none",
         \A v \in Workers : task'[v] = task[v] \/ task'[v] = Idle
  PROVE  AccountInv'
  <1>0. TypeOK /\ AccountInv
    BY DEF Underway, Before
  <1>1. \A v \in Workers : Linking(v)' => Linking(v) /\ task'[v] = task[v]
    BY DEF Linking, Idle
  <1>2. Empty => Empty'
    BY <1>1 DEF Empty, NoCharge, Linking
  <1>3. \A v \in Workers : AccountPlace(v)'
    <2>. SUFFICES ASSUME NEW v \in Workers PROVE AccountPlace(v)'
      OBVIOUS
    <2>1. AccountPlace(v) /\ task[v].charge \in Charges \cup {None}
      BY <1>0 DEF AccountInv, TypeOK, Tasks
    <2>2. CASE task'[v] = task[v]
      <3>1. task[v].charge # None /\ charge[task[v].charge] \in Gone
              => charge'[task[v].charge] \in Gone
        BY <2>1 DEF AccountStep
      <3>. QED
        BY <1>2, <2>1, <2>2, <3>1 DEF AccountPlace, Passed, Dead
    <2>3. CASE task'[v] = Idle
      <3>1. task'[v].pc = "idle" /\ task'[v].mine.status = "absent"
        BY <2>3 DEF Idle, NoRow
      <3>. QED
        BY <3>1 DEF AccountPlace, Switching
    <2>. QED
      BY <2>2, <2>3
  <1>4. PaymentsHeard'
    BY <1>0 DEF AccountInv, PaymentsHeard, AccountStep, EventsKept, Unpaid
  <1>5. row'.payment = "failed" => \A c \in Charges : ~Live(c)'
    BY <1>0 DEF AccountInv, AccountStep, Live
  <1>. QED
    BY <1>0, <1>2, <1>3, <1>4, <1>5 DEF AccountInv, AccountStep

LEMMA IgnoreAccount ==
  ASSUME Underway, NEW w \in Workers, IgnoreWebhook(w)
  PROVE  AccountInv'
  <1>0. AccountInv /\ RowTrue /\ EventsTrue /\ row \in Rows
    BY UnderwayIs
  <1>1. PICK e \in Events, c \in Charges :
          /\ <<e, c>> \in events
          /\ \/ row.charge \notin {None, c}
             \/ e = "REFUNDED"
             \/ e = "DELETED"
          /\ events' = events \ {<<e, c>>}
    BY DEF IgnoreWebhook
  <1>2. row' = row /\ charge' = charge /\ UNCHANGED task
    BY DEF IgnoreWebhook
  <1>3. row.charge \in {None, c}
    BY <1>0, <1>1 DEF AccountInv, OneCharge, RowTrue, Known, EventsTrue, Rows
  <1>4. EventsKept
    BY <1>1, <1>3 DEF EventsKept
  <1>5. AccountStep
    BY <1>0, <1>1, <1>2, AccountStays
  <1>. QED
    BY <1>2, <1>4, <1>5, QuietAccount

LEMMA GatewayAccount ==
  ASSUME Underway, "PAID" \in Notified, NEW c \in Charges,
         CustomerPays(c) \/ RefundSettles(c) \/ PanelRefund(c) \/ PanelDelete(c)
  PROVE  AccountInv'
  <1>0. TypeOK /\ AccountInv
    BY DEF Underway, Before
  <1>1. row' = row /\ UNCHANGED task
    BY DEF CustomerPays, RefundSettles, PanelRefund, PanelDelete, GatewayStep
  <1>2. AccountStep /\ EventsKept
    BY <1>0, AccountChanges
       DEF CustomerPays, RefundSettles, PanelRefund, PanelDelete, GatewayStep, Notify, Back
  <1>3. \A d \in Charges : charge'[d] # "none" => charge[d] # "none"
    BY <1>0 DEF CustomerPays, RefundSettles, PanelRefund, PanelDelete, GatewayStep, TypeOK
  <1>. QED
    BY <1>1, <1>2, <1>3, QuietAccount

LEMMA AccountInvStep ==
  ASSUME Kinds \cap {"switch", "delete"} = {}, "post" \notin Faults, "PAID" \in Notified,
         LifeInv, MoneyInv, AccountInv, [CalmStep]_vars
  PROVE  AccountInv'
  <1>0. Underway /\ row \in Rows
    BY LifeStep, MoneyStep DEF Before, Underway, LifeInv, CalmInv, TypeInv, TypeOK, MoneyKept
  <1>1. CASE UNCHANGED vars
    <2>1. AccountStep /\ EventsKept /\ row' = row /\ UNCHANGED <<task, charge>>
      BY <1>1, AccountStays DEF vars, gatewayVars, EventsKept
    <2>. QED
      BY <1>0, <2>1, QuietAccount
  <1>2. CASE ExpireOrder
    <2>1. /\ row'.payment = row.payment /\ row.status = "pending" /\ row'.status = "expired"
          /\ UNCHANGED <<task, charge, events>>
      BY <1>0, <1>2 DEF ExpireOrder, Rows, gatewayVars
    <2>2. AccountStep /\ EventsKept
      BY <2>1, AccountStays DEF EventsKept
    <2>. QED
      BY <1>0, <2>1, <2>2, QuietAccount
  <1>3. CASE Crash
    <2>1. row' = row /\ UNCHANGED <<charge, events>> /\ \A v \in Workers : task'[v] = Idle
      BY <1>3 DEF Crash, gatewayVars
    <2>2. AccountStep /\ EventsKept
      BY <2>1, AccountStays DEF EventsKept
    <2>. QED
      BY <1>0, <2>1, <2>2, QuietAccount
  <1>4. ASSUME NEW w \in Workers, NEW kind \in {"cancel", "manual"}, Status(w) \/ Cancel(w, kind)
        PROVE  AccountInv'
    <2>1. row' = row /\ charge' = charge /\ events' = events /\ row.status # "absent"
      BY <1>4 DEF Status, Cancel, gatewayVars, Unpaid
    <2>2. \E k, outcome : \E pc \in {"poll", "restock", "refundPaid"} :
            Begin(w, k, pc, row, row.charge, outcome) /\ k # "checkout"
      <3>1. CASE Status(w)
        BY <3>1 DEF Status
      <3>2. CASE Cancel(w, kind)
        BY <3>2 DEF Cancel
      <3>. QED
        BY <1>4, <3>1, <3>2
    <2>. QED
      BY <1>0, <2>1, <2>2, BeginAccount
  <1>5. ASSUME NEW w \in Workers
        PROVE  ~Switch(w) /\ ~DeleteOrder(w) /\ ~DeleteCharge(w) /\ ~Repost(w) /\ ~Relink(w)
    <2>1. task[w].pc \notin Switching
      BY <1>5 DEF AccountInv, AccountPlace
    <2>. QED
      BY <2>1 DEF Switch, DeleteOrder, DeleteCharge, Repost, Relink, At, Switching
  <1>6. CASE CalmStep
    <2>1. Next /\ NoLostUpdate
      BY <1>6 DEF CalmStep
    <2>. QED
      BY <1>0, <1>2, <1>3, <1>4, <1>5, <2>1, CheckoutAccount, PostAccount, LinkAccount, SaveAccount,
         RollbackAccount, CommitAccount, ConflictAccount, RefundAccount, CreditAccount, DropAccount,
         RestockAccount, WebhookAccount, PollAccount, IgnoreAccount, GatewayAccount DEF Next
  <1>. QED
    BY <1>1, <1>6

LEMMA AccountInit == Init => AccountInv
  <1>. SUFFICES ASSUME Init PROVE AccountInv
    OBVIOUS
  <1>1. /\ \A w \in Workers : task[w].pc = "idle" /\ task[w].mine = NoRow
        /\ events = {}
        /\ \A c \in Charges : charge[c] = IF c = row.charge THEN "open" ELSE "none"
    BY DEF Init, Idle
  <1>2. row.payment = "pending" /\ row.status \in {"absent", "pending"}
    <2>1. CASE row = NoRow
      BY <2>1 DEF NoRow
    <2>2. ASSUME NEW credit,
                 row = [NoRow EXCEPT !.status = "pending", !.gateway = "asaas",
                                     !.charge = FirstCharge, !.credit = credit]
          PROVE  row.payment = "pending" /\ row.status \in {"absent", "pending"}
      BY <2>2 DEF NoRow
    <2>. QED
      BY <2>1, <2>2 DEF Init
  <1>3. \A w \in Workers : AccountPlace(w)
    BY <1>1 DEF AccountPlace, NoRow, Switching
  <1>. QED
    BY <1>1, <1>2, <1>3 DEF AccountInv, OneCharge, PaymentsHeard

LEMMA AccountIsTrue ==
  ASSUME LifeInv, MoneyInv, AccountInv
  PROVE  MoneyIsAccountedFor
  <1>. SUFFICES ASSUME Quiet, NEW c \in Charges, charge[c] = "paid"
                PROVE  /\ row.charge = c
                       /\ \/ row.status = "paid"
                          \/ /\ row.status \in {"canceled", "stock_conflict"}
                             /\ row.payment = "refund_pending"
    BY DEF MoneyIsAccountedFor
  <1>0. row \in Rows /\ RowTrue /\ StatusesAgree /\ OneCharge
    BY DEF LifeInv, CalmInv, TypeInv, TypeOK, MoneyInv, AccountInv
  <1>1. ~NoCharge /\ row.payment # "failed"
    BY DEF NoCharge, AccountInv, Live
  <1>2. row.status \notin {"absent", "deleted"} /\ ~ByCredit(row)
    BY <1>0, <1>1 DEF MoneyInv, Beginning, AccountInv, Empty, RowTrue
  <1>3. ~Unpaid(row.status)
    BY DEF AccountInv, PaymentsHeard, Quiet
  <1>4. Settled(row) /\ row.status \in {"paid", "canceled", "stock_conflict"}
    BY <1>0, <1>1, <1>2, <1>3 DEF StatusesAgree, Settled, Unpaid, Rows
  <1>5. row.charge = c
    BY <1>0, <1>2, <1>4 DEF RowTrue, Honest, Known, OneCharge, Rows
  <1>6. row.payment # "refunded"
    BY <1>0, <1>2, <1>5 DEF RowTrue, Honest, Returned, Back
  <1>. QED
    BY <1>0, <1>1, <1>4, <1>5, <1>6 DEF StatusesAgree, Settled

\* No charge that is paid is left without an order that says so: the order is paid, or
\* its money is on the list of refunds to make, whatever checkouts, webhooks, polls,
\* cancellations and refunds of conflicts interleave, and wherever they stop.  The
\* gateway must send its PAYMENT events and answer every POST /payments, and nobody
\* switches the order to card or deletes it: these lose money.
THEOREM MoneyIsAccountedForHolds ==
  ASSUME Kinds \cap {"switch", "delete"} = {}, "post" \notin Faults, "PAID" \in Notified
  PROVE  CalmSpec => []MoneyIsAccountedFor
  <1>1. LifeInv /\ MoneyInv /\ [Next /\ NoLostUpdate]_vars => MoneyInv'
    BY MoneyStep DEF CalmStep, MoneyKept
  <1>2. LifeInv /\ MoneyInv /\ AccountInv /\ [Next /\ NoLostUpdate]_vars => AccountInv'
    BY AccountInvStep DEF CalmStep
  <1>3. LifeInv /\ MoneyInv /\ AccountInv => MoneyIsAccountedFor
    BY AccountIsTrue
  <1>. QED
    BY <1>1, <1>2, <1>3, MoneyInit, AccountInit, LifeInvAlways, PTL DEF CalmSpec

-----------------------------------------------------------------------------
(* One charge at a time *)

OneLive == \A c, d \in Charges : Live(c) /\ Live(d) => c = d

\* A request that can be deleting a charge, making another or linking it finds no other.
SwitchPlace(w) ==
    LET t == task[w]
    IN  /\ t.mine.status = "paid" => Passed
        /\ t.pc = "delete" =>
            /\ \A c \in Charges : Live(c) => c = t.charge
            /\ row.status = "pending" => row.charge = t.charge
        /\ t.pc = "repost" => \A c \in Charges : ~Live(c)
        /\ t.pc = "relink" => \A c \in Charges : Live(c) => c = t.charge
        /\ t.pc \in Switching => t.kind = "switch"
        /\ t.kind = "switch" => t.pc \in Switching \cup {"pay", "claim"} \/ Refunding(w)
        /\ t.pc = "save" =>
            t.kind = "checkout" /\ (t.mine.gateway = "asaas" => t.mine.charge = t.charge)
        /\ t.pc \in {"credit", "creditSave"} => row.status \in Dead
        /\ t.pc # "poll"

\* An order that waits for its payment, and is not being switched, names its charge.
ChargeOfRow ==
    /\ row.status = "pending" /\ row.gateway = "asaas"
    /\ \A w \in Workers : task[w].kind # "switch"
    => \A c \in Charges : Live(c) => c = row.charge

SwitchInv == OneLive /\ ChargeOfRow /\ \A w \in Workers : SwitchPlace(w)

Trading == Before /\ RowStep /\ ChargeStep /\ SwitchInv

NoneNew == \A c \in Charges : Live(c)' => Live(c)

LEMMA TradingIs ==
  ASSUME Trading, NEW w \in Workers
  PROVE  /\ Before /\ RowStep /\ ChargeStep /\ SwitchInv /\ SwitchPlace(w)
         /\ TypeOK /\ LifeInv /\ MoneyInv /\ RowTrue /\ EventsTrue /\ Copy(w) /\ Place(w)
         /\ row \in Rows /\ task \in [Workers -> Tasks] /\ task[w].mine \in Rows
         /\ task[w].charge \in Charges \cup {None}
         /\ task[w].pc # "idle" => row.status # "absent"
         /\ task[w].kind = "switch" =>
            \A v \in Workers \ {w} : task[v].kind # "switch" /\ task[v].pc \notin Switching
  <1>1. /\ Before /\ SwitchInv /\ TypeOK /\ LifeInv /\ MoneyInv
        /\ task[w].pc # "idle" => row.status # "absent"
    BY Here, NotAbsent DEF Trading
  <1>2. task[w].kind = "switch" =>
            \A v \in Workers \ {w} : task[v].kind # "switch" /\ task[v].pc \notin Switching
    BY <1>1 DEF LifeInv, CalmInv, Units, Locking, SwitchInv, SwitchPlace
  <1>. QED
    BY <1>1, <1>2, Here DEF Trading, SwitchInv

\* One request goes on, and no other one switches, or nothing changes for that one.
LEMMA SwitchKeeps ==
  ASSUME Trading, NEW w \in Workers, NEW pc, Moved(w, pc),
         OneLive', ChargeOfRow', SwitchPlace(w)', row.status # "absent",
         \/ \A v \in Workers \ {w} : task[v].pc \notin Switching
         \/ /\ NoneNew
            /\ row'.status = "pending" => row.status = "pending" /\ row'.charge = row.charge
  PROVE  SwitchInv'
  <1>1. Turn /\ RowStep
    BY DEF Trading, Before
  <1>2. Passed => Passed'
    BY <1>1 DEF Passed, Turn, Same, Unpaid, Removable, Final, Dead
  <1>. SUFFICES ASSUME NEW v \in Workers \ {w} PROVE SwitchPlace(v)'
    BY DEF SwitchInv
  <1>3. task'[v] = task[v] /\ SwitchPlace(v)
    BY DEF Moved, Trading, SwitchInv
  <1>4. task[v].pc \in Switching =>
          /\ NoneNew
          /\ row'.status = "pending" => row.status = "pending" /\ row'.charge = row.charge
    OBVIOUS
  <1>5. row.status \in Dead => row'.status \in Dead
    BY <1>1 DEF RowStep
  <1>. QED
    BY <1>2, <1>3, <1>4, <1>5 DEF SwitchPlace, NoneNew, Switching, Refunding

Chain == {"pay", "claim", "claimCredit", "claimCreditSave", "refund", "mark", "unclaim"}

\* A step that makes no charge, and leaves that of a pending order.
LEMMA SwitchPlain ==
  ASSUME Trading, NEW w \in Workers, NEW pc, Moved(w, pc), row.status # "absent", NoneNew,
         row'.status = "pending" =>
            row.status = "pending" /\ row'.charge = row.charge /\ row'.gateway = row.gateway,
         pc \notin {"save", "poll"} \cup Switching,
         task'[w].mine.status \in {task[w].mine.status, row.status, row'.status, "absent"},
         task'[w].kind = "switch" => pc \in Chain,
         task[w].kind = "switch" =>
            \/ task'[w].kind = "switch" \/ row'.status # "pending"
            \/ \A c \in Charges : Live(c) => c = row.charge,
         pc \in {"credit", "creditSave"} => row'.status \in Dead
  PROVE  SwitchInv'
  <1>1. Turn /\ SwitchInv /\ SwitchPlace(w)
    BY DEF Trading, Before, SwitchInv
  <1>2. Passed => Passed'
    BY <1>1 DEF Passed, Turn, Same, Unpaid, Removable, Final, Dead
  <1>3. task'[w].mine.status = "paid" => Passed'
    <2>1. row.status = "paid" => Passed
      BY DEF Passed
    <2>2. row'.status = "paid" => Passed'
      BY DEF Passed
    <2>. QED
      BY <1>1, <1>2, <2>1, <2>2 DEF SwitchPlace
  <1>4. task'[w].pc = pc
    BY DEF Moved
  <1>5. SwitchPlace(w)'
    BY <1>3, <1>4 DEF SwitchPlace, Switching, Refunding, Chain
  <1>6. OneLive'
    BY <1>1 DEF SwitchInv, OneLive, NoneNew
  <1>7. ChargeOfRow'
    BY <1>1 DEF SwitchInv, ChargeOfRow, NoneNew, Moved
  <1>. QED
    BY <1>5, <1>6, <1>7, SwitchKeeps

\* ... that goes to another place.
LEMMA GotoSwitch ==
  ASSUME Trading, NEW w \in Workers, NEW pc, Goto(w, pc), task[w].pc # "idle", NoneNew,
         row'.status = "pending" =>
            row.status = "pending" /\ row'.charge = row.charge /\ row'.gateway = row.gateway,
         pc \notin {"save", "poll"} \cup Switching,
         task[w].kind = "switch" =>
            \/ pc \in Chain \/ row.status # "pending"
            \/ \A c \in Charges : Live(c) => c = row.charge,
         task[w].kind = "switch" => pc \in Chain \cup {"idle"},
         pc \in {"credit", "creditSave"} => row'.status \in Dead
  PROVE  SwitchInv'
  <1>1. TypeOK /\ row.status # "absent"
    BY TradingIs
  <1>2. Moved(w, pc) /\ (task'[w] = Idle \/ (task'[w].mine = task[w].mine /\ task'[w].kind = task[w].kind))
    BY <1>1, GotoMove, GotoIs
  <1>3. /\ task'[w].mine.status \in {task[w].mine.status, "absent"}
        /\ task'[w].kind \in {task[w].kind, "none"}
    BY <1>2 DEF Idle, NoRow
  <1>4. pc # "idle" => task'[w].kind = task[w].kind
    BY <1>1, GotoIs
  <1>5. pc = "idle" => task'[w].kind = "none"
    BY <1>1, GotoIs DEF Idle
  <1>6. pc \in Chain => pc # "idle"
    BY DEF Chain
  <1>. QED
    BY <1>1, <1>2, <1>3, <1>4, <1>5, <1>6, SwitchPlain

LEMMA NoneIsNew ==
  ASSUME charge' = charge
  PROVE  NoneNew
  BY DEF NoneNew, Live

\* A step that leaves the gateway, of an order that is not pending after it, or as before.
LEMMA EndSwitch ==
  ASSUME Trading, NEW w \in Workers, NEW pc, Goto(w, pc), task[w].pc # "idle", charge' = charge,
         row' = row \/ row'.status # "pending",
         pc \notin {"save", "poll"} \cup Switching,
         task[w].kind = "switch" =>
            /\ pc \in Chain \cup {"idle"}
            /\ \/ pc \in Chain \/ row.status # "pending" \/ row'.status # "pending"
               \/ \A c \in Charges : Live(c) => c = row.charge,
         pc \in {"credit", "creditSave"} => row'.status \in Dead
  PROVE  SwitchInv'
  <1>1. NoneNew
    BY NoneIsNew
  <1>2. CASE row'.status # "pending"
    <2>1. TypeOK /\ row.status # "absent"
      BY TradingIs
    <2>2. Moved(w, pc) /\ (task'[w] = Idle \/ (task'[w].mine = task[w].mine /\ task'[w].kind = task[w].kind))
      BY <2>1, GotoMove, GotoIs
    <2>3. /\ task'[w].mine.status \in {task[w].mine.status, "absent"}
          /\ task'[w].kind \in {task[w].kind, "none"}
      BY <2>2 DEF Idle, NoRow
    <2>4. pc = "idle" => task'[w].kind = "none"
      BY <2>1, GotoIs DEF Idle
    <2>. QED
      BY <1>1, <1>2, <2>1, <2>2, <2>3, <2>4, SwitchPlain
  <1>3. CASE row' = row
    BY <1>1, <1>3, GotoSwitch
  <1>. QED
    BY <1>2, <1>3

LEMMA CheckoutSwitch ==
  ASSUME Trading, NEW w \in Workers, Checkout(w)
  PROVE  SwitchInv'
  <1>0. /\ TypeOK /\ MoneyInv /\ row.status = "absent" /\ charge' = charge
    BY TradingIs DEF Checkout, gatewayVars
  <1>1. NoCharge /\ NoCharge' /\ \A v \in Workers : task[v] = Idle
    BY <1>0 DEF MoneyInv, Beginning, NoCharge
  <1>2. PICK pc \in {"free", "post"} : Begin(w, "checkout", pc, NoRow, None, "none")
    BY DEF Checkout
  <1>3. /\ \A v \in Workers \ {w} : task'[v] = Idle
        /\ task'[w].pc = pc /\ task'[w].mine = NoRow /\ task'[w].kind = "checkout"
    BY <1>0, <1>1, <1>2, BeginIs
  <1>4. \A v \in Workers \ {w} : /\ task'[v].pc = "idle" /\ task'[v].mine = NoRow
                                 /\ task'[v].kind = "none"
    BY <1>3 DEF Idle
  <1>5. \A v \in Workers : SwitchPlace(v)'
    BY <1>3, <1>4 DEF SwitchPlace, NoRow, Switching
  <1>. QED
    BY <1>1, <1>5 DEF SwitchInv, OneLive, ChargeOfRow, NoCharge, Live

LEMMA PostSwitch ==
  ASSUME Trading, "post" \notin Faults, NEW w \in Workers, Post(w)
  PROVE  SwitchInv'
  <1>0. /\ TypeOK /\ MoneyInv /\ Place(w) /\ SwitchPlace(w)
        /\ task[w].pc = "post" /\ row' = row /\ row.status # "absent"
    BY TradingIs DEF Post, At
  <1>1. Linking(w) /\ task[w].charge = None /\ task[w].kind = "checkout"
    BY <1>0 DEF Linking, Place
  <1>2. NoCharge /\ row.gateway = "none" /\ \A v \in Workers \ {w} : task[v].pc \notin Switching
    BY <1>0, <1>1, PaymentsAssumption DEF MoneyInv, Linked, NoCharge
  <1>3. CASE Goto(w, "rollback") /\ UNCHANGED gatewayVars
    BY <1>0, <1>1, <1>3, EndSwitch DEF gatewayVars, Switching
  <1>4. ASSUME NEW c \in Charges, NEW s, charge' = [charge EXCEPT ![c] = s],
               Moved(w, "link"), task'[w].kind = task[w].kind, task'[w].mine = task[w].mine
        PROVE  SwitchInv'
    <2>1. \A d \in Charges : charge'[d] = IF d = c THEN s ELSE "none"
      BY <1>0, <1>2, <1>4 DEF TypeOK, NoCharge
    <2>2. OneLive' /\ ChargeOfRow'
      BY <1>0, <1>2, <2>1 DEF OneLive, ChargeOfRow, Live
    <2>3. SwitchPlace(w)'
      BY <1>0, <1>1, <1>4 DEF SwitchPlace, Moved, Switching, Passed
    <2>. QED
      BY <1>0, <1>2, <1>4, <2>2, <2>3, SwitchKeeps
  <1>5. "link" \in Pcs \ {"idle"}
    BY DEF Pcs
  <1>. QED
    BY <1>0, <1>3, <1>4, <1>5, PostChargeHeard DEF Post

LEMMA LinkSwitch ==
  ASSUME Trading, NEW w \in Workers, Link(w)
  PROVE  SwitchInv'
  <1>0. /\ TypeOK /\ MoneyInv /\ Place(w) /\ SwitchPlace(w) /\ SwitchInv
        /\ task \in [Workers -> Tasks] /\ row \in Rows /\ task[w].charge \in Charges \cup {None}
        /\ row' = row /\ charge' = charge
        /\ row.status # "absent" /\ task[w].pc \in {"link", "free"}
    BY TradingIs DEF Link, At, gatewayVars
  <1>1. Linking(w) /\ task[w].kind = "checkout" /\ NoneNew
    BY <1>0, NoneIsNew DEF Linking, Place
  <1>2. row.gateway = "none" /\ \A v \in Workers \ {w} : task[v].pc \notin Switching
    BY <1>0, <1>1 DEF MoneyInv, Linked
  <1>3. CASE End(w)
    BY <1>0, <1>1, <1>3, EndSwitch DEF End, Switching
  <1>4. ASSUME Moved(w, "save"), task'[w].kind = "checkout", task'[w].mine.status = row.status,
               task'[w].mine.gateway = "asaas" => task'[w].mine.charge = task'[w].charge
        PROVE  SwitchInv'
    <2>1. task'[w].pc = "save"
      BY <1>4 DEF Moved
    <2>2. OneLive' /\ ChargeOfRow'
      BY <1>0, <1>2 DEF SwitchInv, OneLive, ChargeOfRow, Live
    <2>3. SwitchPlace(w)'
      BY <1>0, <1>4, <2>1 DEF SwitchPlace, Switching, Passed
    <2>. QED
      BY <1>0, <1>2, <1>4, <2>2, <2>3, SwitchKeeps
  <1>5. CASE task' = [task EXCEPT ![w].pc = "save",
                     ![w].mine = [row EXCEPT !.gateway = "asaas", !.charge = task[w].charge]]
    <2>1. /\ Moved(w, "save") /\ task'[w].kind = task[w].kind /\ task'[w].mine.status = row.status
          /\ task'[w].mine.charge = task[w].charge /\ task'[w].charge = task[w].charge
      BY <1>0, <1>5 DEF Moved, Tasks, Rows
    <2>. QED
      BY <1>1, <1>4, <2>1
  <1>6. CASE task' = [task EXCEPT ![w].pc = "save", ![w].outcome = "paid",
                     ![w].mine = [row EXCEPT !.gateway = "store_credit"]]
    <2>1. /\ Moved(w, "save") /\ task'[w].kind = task[w].kind /\ task'[w].mine.status = row.status
          /\ task'[w].mine.gateway = "store_credit"
      BY <1>0, <1>6 DEF Moved, Tasks, Rows
    <2>. QED
      BY <1>1, <1>4, <2>1
  <1>. QED
    BY <1>3, <1>5, <1>6 DEF Link

LEMMA SaveSwitch ==
  ASSUME Trading, NEW w \in Workers, Save(w)
  PROVE  SwitchInv'
  <1>0. /\ TypeOK /\ MoneyInv /\ SwitchPlace(w) /\ SwitchInv
        /\ row' = task[w].mine /\ charge' = charge /\ row.status # "absent" /\ task[w].pc = "save"
    BY TradingIs DEF Save, At, gatewayVars
  <1>1. /\ task[w].kind = "checkout" /\ Linking(w)
        /\ task[w].mine.gateway = "asaas" => task[w].mine.charge = task[w].charge
    BY <1>0 DEF SwitchPlace, Linking
  <1>2. /\ \A v \in Workers \ {w} : task[v].pc \notin Switching
        /\ \A c \in Charges : charge[c] # "none" => c = task[w].charge
    BY <1>0, <1>1 DEF MoneyInv, Linked
  <1>3. OneLive' /\ ChargeOfRow'
    BY <1>0, <1>1, <1>2 DEF SwitchInv, OneLive, ChargeOfRow, Live
  <1>4. PICK pc \in {"pay", "drop", "idle"} : Goto(w, pc)
    BY DEF Save, End
  <1>5. Moved(w, pc) /\ (task'[w] = Idle \/ (task'[w].mine = task[w].mine /\ task'[w].kind = task[w].kind))
    BY <1>0, <1>4, GotoMove, GotoIs
  <1>6. task'[w].mine.status \in {row'.status, "absent"} /\ task'[w].kind # "switch" /\ task'[w].pc = pc
    BY <1>0, <1>1, <1>5 DEF Idle, NoRow, Moved
  <1>7. SwitchPlace(w)'
    BY <1>6 DEF SwitchPlace, Switching, Passed
  <1>. QED
    BY <1>0, <1>2, <1>3, <1>5, <1>7, SwitchKeeps

\* The requests that end an order, or find it ended.
LEMMA EndsSwitch ==
  ASSUME Trading, NEW w \in Workers,
         \/ Rollback(w) \/ Remove(w) \/ CancelPendingOrder(w) \/ RestockCanceledOrder(w)
  PROVE  SwitchInv'
  <1>0. row \in Rows /\ SwitchPlace(w)
    BY TradingIs
  <1>1. task[w].pc \in {"rollback", "remove", "drop", "restock"} /\ charge' = charge
    BY DEF Rollback, Remove, CancelPendingOrder, RestockCanceledOrder, At, gatewayVars
  <1>2. task[w].kind # "switch"
    BY <1>0, <1>1 DEF SwitchPlace, Refunding, Switching
  <1>3. row' = row \/ row'.status # "pending"
    BY <1>0 DEF Rollback, Remove, CancelPendingOrder, RestockCanceledOrder, Rows, NoRow
  <1>4. CASE Goto(w, "credit") /\ Exists /\ row'.status = "canceled"
    BY <1>1, <1>2, <1>3, <1>4, EndSwitch DEF Dead, Switching
  <1>5. ASSUME NEW pc \in {"remove", "idle"}, Goto(w, pc)
        PROVE  SwitchInv'
    BY <1>1, <1>2, <1>3, <1>5, EndSwitch DEF Switching
  <1>6. CASE CancelPendingOrder(w) \/ RestockCanceledOrder(w)
    <2>1. \/ Goto(w, "credit") /\ row'.status = "canceled" /\ Exists
          \/ Goto(w, "idle")
      BY <1>0, <1>6 DEF CancelPendingOrder, RestockCanceledOrder, Rows, End
    <2>. QED
      BY <1>4, <1>5, <2>1
  <1>7. CASE Rollback(w) \/ Remove(w)
    BY <1>5, <1>7 DEF Rollback, Remove, End
  <1>. QED
    BY <1>6, <1>7

LEMMA CommitSwitch ==
  ASSUME Trading, NEW w \in Workers, MarkOrderPaid(w)
  PROVE  SwitchInv'
  <1>0. /\ SwitchPlace(w) /\ row \in Rows /\ task \in [Workers -> Tasks] /\ row.status # "absent"
        /\ charge' = charge /\ task[w].pc = "pay"
    BY TradingIs DEF MarkOrderPaid, At, gatewayVars, CommitOrder, ConflictOrder, EndWell
  <1>1. CASE (task[w].mine.status = "paid" \/ row.status = "paid") /\ EndWell(w) /\ row' = row
    <2>1. row.status # "pending" /\ Goto(w, "idle")
      BY <1>0, <1>1 DEF SwitchPlace, Passed, EndWell, End
    <2>. QED
      BY <1>0, <1>1, <2>1, EndSwitch DEF Switching
  <1>2. CASE CommitOrder(w)
    <2>1. row'.status = "paid" /\ Goto(w, "idle")
      BY <1>0, <1>2 DEF CommitOrder, EndWell, End, Rows
    <2>. QED
      BY <1>0, <2>1, EndSwitch DEF Switching
  <1>3. ASSUME Moved(w, "claim"), task'[w].mine.status \in {row.status, row'.status},
               row'.status # "pending"
        PROVE  SwitchInv'
    <2>1. NoneNew
      BY <1>0, NoneIsNew
    <2>. QED
      BY <1>0, <1>3, <2>1, SwitchPlain DEF Switching, Chain
  <1>4. CASE ConflictOrder(w)
    <2>1. row'.status = "stock_conflict" /\ Moved(w, "claim") /\ task'[w].mine = row'
      BY <1>0, <1>4 DEF ConflictOrder, Rows, Moved, Tasks
    <2>. QED
      BY <1>3, <2>1
  <1>5. CASE /\ row.status \in {"canceled", "stock_conflict"}
             /\ task' = [task EXCEPT ![w].pc = "claim", ![w].mine = row]
             /\ UNCHANGED <<row, unitsOut, gatewayVars>>
    <2>1. Moved(w, "claim") /\ task'[w].mine = row /\ row' = row
      BY <1>0, <1>5 DEF Moved, Tasks
    <2>. QED
      BY <1>3, <1>5, <2>1
  <1>6. CASE ~Exists /\ End(w) /\ UNCHANGED <<row, unitsOut, gatewayVars>>
    BY <1>0, <1>6, EndSwitch DEF End, Switching, Exists
  <1>. QED
    BY <1>1, <1>2, <1>4, <1>5, <1>6 DEF MarkOrderPaid

LEMMA ConflictSwitch ==
  ASSUME Trading, NEW w \in Workers,
         \/ ClaimStockConflictRefund(w) \/ MarkConflictRefunded(w)
         \/ ReleaseClaim(w) \/ MarkRefunded(w)
  PROVE  SwitchInv'
  <1>0. /\ TypeOK /\ LifeInv /\ Place(w) /\ Copy(w) /\ row \in Rows
    BY TradingIs
  <1>1. charge' = charge
    BY DEF ClaimStockConflictRefund, MarkConflictRefunded, ReleaseClaim, MarkRefunded,
           EndWell, gatewayVars
  <1>2. row'.status = row.status
    BY <1>0 DEF ClaimStockConflictRefund, MarkConflictRefunded, ReleaseClaim, MarkRefunded, Rows
  <1>3. PICK pc \in {"claimCredit", "refund", "unclaim", "idle"} : Goto(w, pc)
    BY DEF ClaimStockConflictRefund, MarkConflictRefunded, ReleaseClaim, MarkRefunded, EndWell, End
  <1>4. task[w].pc \in {"claim", "mark", "unclaim", "hookRefunded"}
    BY DEF ClaimStockConflictRefund, MarkConflictRefunded, ReleaseClaim, MarkRefunded, At
  <1>5. row.status # "pending"
    <2>1. CASE task[w].pc = "claim"
      BY <1>0, <2>1, Statuses DEF Place, Copy, Dead, Unpaid
    <2>2. CASE task[w].pc # "claim"
      BY <1>0, <1>4, <2>2 DEF LifeInv, Decided, Refunding, At
    <2>. QED
      BY <2>1, <2>2
  <1>. QED
    BY <1>1, <1>2, <1>3, <1>4, <1>5, EndSwitch DEF Switching, Chain

LEMMA RefundSwitch ==
  ASSUME Trading, NEW w \in Workers, RefundPaid(w) \/ RefundStockConflict(w)
  PROVE  SwitchInv'
  <1>0. /\ TypeOK /\ LifeInv /\ SwitchPlace(w) /\ row' = row /\ task[w].mine \in Rows
        /\ task[w].pc \in {"refund", "refundPaid"} /\ row.status # "absent"
    BY TradingIs DEF RefundPaid, RefundStockConflict, At
  <1>1. task[w].pc = "refund" => row.status # "pending"
    BY <1>0 DEF LifeInv, Decided, Refunding
  <1>2. task[w].pc = "refundPaid" => task[w].kind # "switch"
    BY <1>0 DEF SwitchPlace, Refunding, Switching
  <1>3. ASSUME NEW c \in Charges, NEW done, NEW failed, PostRefund(w, c, done, failed),
               \/ task[w].pc = "refund" /\ done = "mark" /\ failed = "unclaim"
               \/ task[w].pc = "refundPaid" /\ done = "restock" /\ failed = "idle"
        PROVE  SwitchInv'
    <2>1. CASE Goto(w, failed) /\ UNCHANGED gatewayVars
      BY <1>0, <1>1, <1>2, <1>3, <2>1, EndSwitch DEF gatewayVars, Switching, Chain
    <2>2. ASSUME NEW s \in Back, charge' = [charge EXCEPT ![c] = s]
          PROVE  NoneNew
      BY <1>0, <2>2 DEF NoneNew, Live, Back, TypeOK
    <2>3. CASE NoneNew /\ Goto(w, failed)
      BY <1>0, <1>1, <1>2, <1>3, <2>3, GotoSwitch DEF Switching, Chain
    <2>4. CASE /\ NoneNew
               /\ \A v \in Workers \ {w} : task'[v] = task[v]
               /\ task'[w].pc = done /\ task'[w].mine = task[w].mine
               /\ task'[w].kind = task[w].kind
      <3>1. Moved(w, done)
        BY <2>4 DEF Moved
      <3>. QED
        BY <1>0, <1>1, <1>2, <1>3, <2>4, <3>1, SwitchPlain DEF Switching, Chain
    <2>5. done \in Pcs \ {"idle"}
      BY <1>3 DEF Pcs
    <2>. QED
      BY <1>0, <2>1, <2>2, <2>3, <2>4, <2>5, <1>3, PostRefundIs
  <1>4. CASE RefundPaid(w)
    <2>1. task[w].pc = "refundPaid" /\ task[w].mine.charge \in Charges
      BY <1>0, <1>4 DEF RefundPaid, At, LifeInv, CalmInv, TypeInv, ChargesKnown
    <2>. QED
      BY <1>3, <1>4, <2>1 DEF RefundPaid
  <1>5. CASE RefundStockConflict(w)
    <2>0. task[w].pc = "refund"
      BY <1>5 DEF RefundStockConflict, At
    <2>1. ASSUME NEW pc \in {"mark", "unclaim"}, Goto(w, pc), UNCHANGED gatewayVars
          PROVE  SwitchInv'
      BY <1>0, <1>1, <2>0, <2>1, EndSwitch DEF gatewayVars, Switching, Chain
    <2>2. task[w].mine.charge # None => task[w].mine.charge \in Charges
      BY <1>0 DEF Rows
    <2>. QED
      BY <1>3, <1>5, <2>0, <2>1, <2>2 DEF RefundStockConflict
  <1>. QED
    BY <1>4, <1>5

LEMMA CreditSwitch ==
  ASSUME Trading, NoLostUpdate, NEW w \in Workers, ReleaseStoreCredit(w)
  PROVE  SwitchInv'
  <1>0. /\ TypeOK /\ LifeInv /\ SwitchPlace(w) /\ task[w].mine \in Rows
        /\ task \in [Workers -> Tasks] /\ row \in Rows
    BY TradingIs
  <1>1. task[w].pc \in {"claimCredit", "claimCreditSave", "credit", "creditSave"}
    BY DEF ReleaseStoreCredit, ReadCredit, SaveCredit, At
  <1>2. row.status \notin {"absent", "pending"}
    BY <1>0, <1>1 DEF LifeInv, Decided, Refunding, SwitchPlace, Dead
  <1>3. task[w].pc \in {"credit", "creditSave"} => task[w].kind # "switch" /\ row.status \in Dead
    BY <1>0 DEF SwitchPlace, Refunding, Switching
  <1>4. ASSUME NEW from, NEW to, NEW after, ReadCredit(w, from, to, after),
               \/ from = "claimCredit" /\ to = "claimCreditSave" /\ after = "refund"
               \/ from = "credit" /\ to = "creditSave" /\ after = "idle"
        PROVE  SwitchInv'
    <2>1. task[w].pc = from /\ row' = row /\ charge' = charge
      BY <1>4 DEF ReadCredit, At, EndWell, gatewayVars
    <2>2. CASE Goto(w, after)
      BY <1>1, <1>2, <1>3, <1>4, <2>1, <2>2, EndSwitch DEF Switching, Chain
    <2>3. CASE task' = [task EXCEPT ![w].pc = to, ![w].mine = row]
      <3>1. Moved(w, to) /\ task'[w].mine = row /\ task'[w].kind = task[w].kind
        BY <1>0, <2>3 DEF Moved, Tasks
      <3>2. NoneNew
        BY <2>1, NoneIsNew
      <3>3. task[w].kind = "switch" => to \in Chain
        BY <1>3, <1>4, <2>1 DEF Chain
      <3>4. to \in {"credit", "creditSave"} => row'.status \in Dead
        BY <1>3, <1>4, <2>1
      <3>5. to \notin {"save", "poll"} \cup Switching
        BY <1>4 DEF Switching
      <3>. QED
        BY <1>2, <2>1, <3>1, <3>2, <3>3, <3>4, <3>5, SwitchPlain
    <2>. QED
      BY <1>4, <2>2, <2>3 DEF ReadCredit, EndWell, End
  <1>5. ASSUME NEW from \in {"claimCreditSave", "creditSave"}, NEW after,
               after = IF from = "creditSave" THEN "idle" ELSE "refund",
               SaveCredit(w, from, after)
        PROVE  SwitchInv'
    <2>1. /\ task[w].pc = from /\ row' = [task[w].mine EXCEPT !.credit = FALSE]
          /\ charge' = charge /\ Goto(w, after)
      BY <1>5 DEF SaveCredit, At, EndWell, End, gatewayVars
    <2>2. task'[w] # task[w]
      BY <1>0, <1>5, <2>1, GotoMoves
    <2>3. row'.status = task[w].mine.status /\ row'.payment = task[w].mine.payment
      BY <1>0, <2>1 DEF Rows
    <2>4. row'.status = row.status
      BY <1>0, <1>5, <2>1, <2>2, <2>3, SaveIsSame DEF Same
    <2>. QED
      BY <1>1, <1>2, <1>3, <1>5, <2>1, <2>4, EndSwitch DEF Switching, Chain
  <1>. QED
    BY <1>4, <1>5 DEF ReleaseStoreCredit

\* A request that begins, other than a switch.
LEMMA BeginSwitch ==
  ASSUME Trading, NEW w \in Workers, NEW kind, NEW pc, NEW mine, NEW c, NEW outcome,
         Begin(w, kind, pc, mine, c, outcome), charge' = charge, row.status # "absent",
         row' = row \/ row'.status # "pending", mine.status = row.status, kind # "switch",
         pc \notin {"save", "poll", "credit", "creditSave"} \cup Switching
  PROVE  SwitchInv'
  <1>0. TypeOK /\ SwitchPlace(w) /\ NoneNew
    BY TradingIs, NoneIsNew
  <1>1. /\ Moved(w, pc) /\ task[w].pc = "idle" /\ task'[w].mine = mine /\ task'[w].kind = kind
    BY <1>0, BeginMove, BeginIs
  <1>2. task[w].kind # "switch"
    BY <1>0, <1>1 DEF SwitchPlace, Switching, Refunding
  <1>. QED
    BY <1>0, <1>1, <1>2, SwitchPlain

LEMMA BeginsSwitch ==
  ASSUME Trading, "DELETED" \notin Notified, NEW w \in Workers,
         \/ Webhook(w) \/ DeleteOrder(w) \/ \E kind \in {"cancel", "manual"} : Cancel(w, kind)
  PROVE  SwitchInv'
  <1>0. TypeOK /\ row \in Rows
    BY TradingIs
  <1>1. CASE Webhook(w)
    <2>1. PICK e \in Events, c \in Charges :
            /\ <<e, c>> \in events /\ Exists
            /\ \/ Begin(w, e, "pay", row, c, "none")
               \/ Begin(w, e, "hookRefunded", row, c, "none")
               \/ e = "DELETED"
      BY <1>1 DEF Webhook
    <2>2. e # "DELETED" /\ e # "switch" /\ row.status # "absent"
      BY <1>0, <2>1 DEF TypeOK, Events, Exists
    <2>3. row' = row /\ charge' = charge
      BY <1>1 DEF Webhook, gatewayVars
    <2>. QED
      BY <2>1, <2>2, <2>3, BeginSwitch DEF Switching
  <1>2. CASE DeleteOrder(w)
    <2>1. /\ Exists /\ charge' = charge /\ Begin(w, "delete", "remove", row, row.charge, "none")
          /\ row' = row \/ row'.status # "pending"
      BY <1>0, <1>2 DEF DeleteOrder, gatewayVars, Rows
    <2>. QED
      BY <2>1, BeginSwitch DEF Switching, Exists
  <1>3. ASSUME NEW kind \in {"cancel", "manual"}, Cancel(w, kind)
        PROVE  SwitchInv'
    <2>1. row' = row /\ charge' = charge /\ row.status # "absent"
      BY <1>3 DEF Cancel, gatewayVars
    <2>2. \E outcome : \E pc \in {"restock", "refundPaid"} :
            Begin(w, kind, pc, row, row.charge, outcome)
      BY <1>3 DEF Cancel
    <2>. QED
      BY <2>1, <2>2, BeginSwitch DEF Switching
  <1>. QED
    BY <1>1, <1>2, <1>3

LEMMA BeginTheSwitch ==
  ASSUME Trading, NEW w \in Workers, Switch(w)
  PROVE  SwitchInv'
  <1>0. TypeOK /\ SwitchInv /\ row \in Rows
    BY TradingIs
  <1>1. /\ row' = row /\ charge' = charge /\ row.status = "pending" /\ row.gateway = "asaas"
        /\ Begin(w, "switch", "delete", row, row.charge, "none")
    BY DEF Switch, gatewayVars
  <1>2. \A v \in Workers : task[v].kind # "switch"
    BY <1>1 DEF Begin, LockFree, Locking
  <1>3. /\ \A c \in Charges : Live(c) => c = row.charge
        /\ \A v \in Workers : task[v].pc \notin Switching
    BY <1>0, <1>1, <1>2 DEF SwitchInv, ChargeOfRow, SwitchPlace
  <1>4. /\ Moved(w, "delete") /\ task'[w].mine = row /\ task'[w].kind = "switch"
        /\ task'[w].charge = row.charge
    BY <1>0, <1>1, BeginMove, BeginIs
  <1>5. OneLive' /\ ChargeOfRow'
    BY <1>0, <1>1, <1>4 DEF SwitchInv, OneLive, ChargeOfRow, Live
  <1>6. SwitchPlace(w)'
    BY <1>1, <1>3, <1>4 DEF SwitchPlace, Moved, Live, Switching
  <1>. QED
    BY <1>1, <1>3, <1>4, <1>5, <1>6, SwitchKeeps

\* The switch goes on: it is alone.
LEMMA GoOnSwitching ==
  ASSUME Trading, NEW w \in Workers, NEW pc \in {"repost", "relink"}, Moved(w, pc), row' = row,
         task[w].kind = "switch", task'[w].kind = "switch", task'[w].mine = task[w].mine,
         pc = "repost" => \A c \in Charges : ~Live(c)',
         pc = "relink" => \A c \in Charges : Live(c)' => c = task'[w].charge,
         row.status # "absent"
  PROVE  SwitchInv'
  <1>1. SwitchPlace(w) /\ \A v \in Workers \ {w} : task[v].pc \notin Switching
    BY TradingIs
  <1>2. OneLive' /\ ChargeOfRow'
    BY DEF OneLive, ChargeOfRow
  <1>3. SwitchPlace(w)'
    BY <1>1 DEF SwitchPlace, Moved, Switching, Passed
  <1>. QED
    BY <1>1, <1>2, <1>3, SwitchKeeps

LEMMA DeleteChargeSwitch ==
  ASSUME Trading, NEW w \in Workers, DeleteCharge(w)
  PROVE  SwitchInv'
  <1>0. /\ TypeOK /\ SwitchPlace(w) /\ row' = row /\ row.status # "absent"
        /\ task[w].pc = "delete"
    BY TradingIs DEF DeleteCharge, At
  <1>1. /\ task[w].kind = "switch"
        /\ \A c \in Charges : Live(c) => c = task[w].charge
        /\ row.status = "pending" => row.charge = task[w].charge
    BY <1>0 DEF SwitchPlace, Switching
  <1>2. ASSUME Goto(w, "repost"), \A c \in Charges : ~Live(c)'
        PROVE  SwitchInv'
    <2>1. Moved(w, "repost") /\ task'[w].kind = "switch" /\ task'[w].mine = task[w].mine
      BY <1>0, <1>1, <1>2, GotoMove, GotoIs
    <2>. QED
      BY <1>0, <1>1, <1>2, <2>1, GoOnSwitching
  <1>3. CASE charge[task[w].charge] = "open"
    <2>1. Goto(w, "repost") /\ charge' = [charge EXCEPT ![task[w].charge] = "deleted"]
      BY <1>3 DEF DeleteCharge
    <2>2. \A c \in Charges : ~Live(c)'
      BY <1>0, <1>1, <2>1 DEF Live, TypeOK
    <2>. QED
      BY <1>2, <2>1, <2>2
  <1>4. CASE charge[task[w].charge] = "deleted"
    <2>1. Goto(w, "repost") /\ charge' = charge
      BY <1>4 DEF DeleteCharge, gatewayVars
    <2>2. \A c \in Charges : ~Live(c)'
      BY <1>1, <1>4, <2>1 DEF Live
    <2>. QED
      BY <1>2, <2>1, <2>2
  <1>5. CASE charge[task[w].charge] \notin {"open", "deleted"}
    <2>1. Goto(w, "idle") /\ charge' = charge
      BY <1>5 DEF DeleteCharge, gatewayVars, End
    <2>. QED
      BY <1>0, <1>1, <2>1, EndSwitch DEF Switching
  <1>. QED
    BY <1>3, <1>4, <1>5

LEMMA RepostSwitch ==
  ASSUME Trading, "post" \notin Faults, NEW w \in Workers, Repost(w)
  PROVE  SwitchInv'
  <1>0. /\ TypeOK /\ SwitchPlace(w) /\ row' = row /\ row.status # "absent"
        /\ task[w].pc = "repost"
    BY TradingIs DEF Repost, At
  <1>1. task[w].kind = "switch" /\ \A c \in Charges : ~Live(c)
    BY <1>0 DEF SwitchPlace, Switching
  <1>2. CASE Goto(w, "idle") /\ UNCHANGED gatewayVars
    BY <1>0, <1>1, <1>2, EndSwitch DEF gatewayVars, Switching
  <1>3. ASSUME NEW c \in Charges, NEW s, charge' = [charge EXCEPT ![c] = s],
               Moved(w, "relink"), task'[w].kind = task[w].kind, task'[w].mine = task[w].mine,
               task'[w].charge = c
        PROVE  SwitchInv'
    <2>1. \A d \in Charges : Live(d)' => d = c
      BY <1>0, <1>1, <1>3 DEF Live, TypeOK
    <2>. QED
      BY <1>0, <1>1, <1>3, <2>1, GoOnSwitching
  <1>4. "relink" \in Pcs \ {"idle"}
    BY DEF Pcs
  <1>. QED
    BY <1>0, <1>2, <1>3, <1>4, PostChargeHeard DEF Repost

LEMMA RelinkSwitch ==
  ASSUME Trading, NEW w \in Workers, Relink(w)
  PROVE  SwitchInv'
  <1>0. /\ TypeOK /\ SwitchInv /\ SwitchPlace(w) /\ charge' = charge /\ row.status # "absent"
        /\ task[w].pc = "relink" /\ task[w].mine \in Rows /\ task[w].charge \in Charges \cup {None}
    BY TradingIs DEF Relink, At, gatewayVars
  <1>1. /\ task[w].kind = "switch"
        /\ \A c \in Charges : Live(c) => c = task[w].charge
        /\ \A v \in Workers \ {w} : task[v].pc \notin Switching
    <2>1. task[w].kind = "switch"
      BY <1>0 DEF SwitchPlace, Switching
    <2>. QED
      BY <1>0, <2>1, TradingIs DEF SwitchPlace
  <1>2. CASE task[w].outcome = "paid"
    <2>1. Goto(w, "pay") /\ row' = row
      BY <1>2 DEF Relink
    <2>. QED
      BY <1>0, <2>1, EndSwitch DEF Switching, Chain
  <1>3. CASE task[w].outcome # "paid"
    <2>1. End(w) /\ row' = [task[w].mine EXCEPT !.charge = task[w].charge]
      BY <1>3 DEF Relink
    <2>2. Moved(w, "idle") /\ task'[w] = Idle
      BY <1>0, <2>1, GotoMove, GotoIs DEF End
    <2>3. row'.charge = task[w].charge
      BY <1>0, <2>1 DEF Rows
    <2>4. OneLive' /\ ChargeOfRow'
      BY <1>0, <1>1, <2>3 DEF SwitchInv, OneLive, ChargeOfRow, Live
    <2>5. task'[w].pc = "idle" /\ task'[w].kind = "none" /\ task'[w].mine.status = "absent"
      BY <2>2 DEF Idle, NoRow
    <2>6. SwitchPlace(w)'
      BY <2>5 DEF SwitchPlace, Switching
    <2>. QED
      BY <1>0, <1>1, <2>2, <2>4, <2>6, SwitchKeeps
  <1>. QED
    BY <1>2, <1>3

\* The gateway, the sweep, a webhook that is ignored: no request moves.
LEMMA QuietSwitch ==
  ASSUME Trading, UNCHANGED task, NoneNew,
         row'.charge = row.charge, row'.gateway = row.gateway,
         row'.status = row.status \/ row'.status = "expired"
  PROVE  SwitchInv'
  <1>1. SwitchInv /\ Turn /\ RowStep
    BY DEF Trading, Before
  <1>2. Passed => Passed'
    BY <1>1 DEF Passed, Turn, Same, Unpaid, Removable, Final, Dead
  <1>3. ASSUME NEW v \in Workers PROVE SwitchPlace(v)'
    <2>1. SwitchPlace(v) /\ (row.status \in Dead => row'.status \in Dead)
      BY <1>1 DEF SwitchInv, RowStep
    <2>. QED
      BY <1>2, <2>1 DEF SwitchPlace, NoneNew, Refunding
  <1>. QED
    BY <1>1, <1>3 DEF SwitchInv, OneLive, ChargeOfRow, NoneNew

LEMMA OutsideSwitch ==
  ASSUME Trading,
         \/ UNCHANGED vars \/ ExpireOrder \/ \E w \in Workers : IgnoreWebhook(w)
         \/ \E c \in Charges :
               CustomerPays(c) \/ RefundSettles(c) \/ PanelRefund(c) \/ PanelDelete(c)
  PROVE  SwitchInv'
  <1>0. TypeOK /\ row \in Rows
    BY DEF Trading, Before, TypeOK
  <1>1. /\ UNCHANGED task /\ row'.charge = row.charge /\ row'.gateway = row.gateway
        /\ row'.status = row.status \/ row'.status = "expired"
    BY <1>0 DEF vars, ExpireOrder, IgnoreWebhook, CustomerPays, RefundSettles, PanelRefund,
                PanelDelete, GatewayStep, Rows
  <1>2. CASE charge' = charge
    BY <1>1, <1>2, NoneIsNew, QuietSwitch
  <1>3. ASSUME NEW c \in Charges,
               CustomerPays(c) \/ RefundSettles(c) \/ PanelRefund(c) \/ PanelDelete(c)
        PROVE  NoneNew
    BY <1>0, <1>3
       DEF CustomerPays, RefundSettles, PanelRefund, PanelDelete, GatewayStep, TypeOK, NoneNew, Live
  <1>4. \/ charge' = charge
        \/ \E c \in Charges :
               CustomerPays(c) \/ RefundSettles(c) \/ PanelRefund(c) \/ PanelDelete(c)
    BY DEF vars, gatewayVars, ExpireOrder, IgnoreWebhook
  <1>. QED
    BY <1>1, <1>2, <1>3, <1>4, QuietSwitch

LEMMA SwitchInvStep ==
  ASSUME Faults \cap {"post", "crash"} = {}, "DELETED" \notin Notified, "status" \notin Kinds,
         LifeInv, MoneyInv, SwitchInv, [CalmStep]_vars
  PROVE  SwitchInv'
  <1>0. Trading
    BY LifeStep, MoneyStep DEF Before, Trading, LifeInv, CalmInv, TypeInv, MoneyKept
  <1>1. ~Crash /\ \A w \in Workers : ~Status(w) /\ ~Poll(w)
    BY <1>0 DEF Crash, Status, Poll, At, Trading, SwitchInv, SwitchPlace
  <1>2. CASE CalmStep
    <2>1. Next /\ NoLostUpdate
      BY <1>2 DEF CalmStep
    <2>. QED
      BY <1>0, <1>1, <2>1, CheckoutSwitch, PostSwitch, LinkSwitch, SaveSwitch, EndsSwitch,
         CommitSwitch, ConflictSwitch, RefundSwitch, CreditSwitch, BeginsSwitch, BeginTheSwitch,
         DeleteChargeSwitch, RepostSwitch, RelinkSwitch, OutsideSwitch DEF Next
  <1>. QED
    BY <1>0, <1>2, OutsideSwitch

LEMMA SwitchInit == Init => SwitchInv
  <1>. SUFFICES ASSUME Init PROVE SwitchInv
    OBVIOUS
  <1>1. \A w \in Workers : task[w].pc = "idle" /\ task[w].kind = "none" /\ task[w].mine.status = "absent"
    BY DEF Init, Idle, NoRow
  <1>2. \A w \in Workers : SwitchPlace(w)
    BY <1>1 DEF SwitchPlace, Switching
  <1>3. \A c \in Charges : Live(c) => c = row.charge
    BY DEF Init, Live
  <1>. QED
    BY <1>2, <1>3 DEF SwitchInv, OneLive, ChargeOfRow

LEMMA OneIsOne ==
  ASSUME OneLive
  PROVE  AtMostOneCharge
  <1>1. {c \in Charges : charge[c] \in {"open", "paid"}} = {c \in Charges : Live(c)}
    BY DEF Live
  <1>2. CASE \A c \in Charges : ~Live(c)
    <2>1. {c \in Charges : Live(c)} = {}
      BY <1>2
    <2>. QED
      BY <1>1, <2>1, FS_EmptySet DEF AtMostOneCharge
  <1>3. ASSUME NEW c \in Charges, Live(c) PROVE AtMostOneCharge
    <2>1. {d \in Charges : Live(d)} = {c}
      BY <1>3 DEF OneLive
    <2>2. Cardinality({c}) = 1
      BY FS_Singleton
    <2>. QED
      BY <1>1, <2>1, <2>2 DEF AtMostOneCharge
  <1>. QED
    BY <1>2, <1>3

\* The customer is never left with two charges to pay: however switches to card, paid or
\* refused, webhooks, cancellations, deletions and the customer's payments interleave, at
\* most one charge of the order is open or paid.  It takes an answer to every
\* POST /payments, no crash between the new charge and the save that names it, no poll
\* of the status, and a gateway that sends no PAYMENT_DELETED: each of them can put a
\* charge that is gone back in the row, and the next switch then deletes nothing.
THEOREM AtMostOneChargeHolds ==
  ASSUME Faults \cap {"post", "crash"} = {}, "DELETED" \notin Notified, "status" \notin Kinds
  PROVE  CalmSpec => []AtMostOneCharge
  <1>1. LifeInv /\ MoneyInv /\ [Next /\ NoLostUpdate]_vars => MoneyInv'
    BY MoneyStep DEF CalmStep, MoneyKept
  <1>2. LifeInv /\ MoneyInv /\ SwitchInv /\ [Next /\ NoLostUpdate]_vars => SwitchInv'
    BY SwitchInvStep DEF CalmStep
  <1>3. SwitchInv => AtMostOneCharge
    BY OneIsOne DEF SwitchInv
  <1>. QED
    BY <1>1, <1>2, <1>3, MoneyInit, SwitchInit, LifeInvAlways, PTL DEF CalmSpec

=============================================================================
