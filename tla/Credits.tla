-------------------------------- MODULE Credits --------------------------------
(***************************************************************************)
(* The credits of the customers: CreditsService (src/src/credits/credits.  *)
(* service.ts) over store_credits and store_credit_allocations.            *)
(*                                                                         *)
(* reserveBalance and release are each one transaction that locks the rows *)
(* it reads, so each is one action; it is conjoined with the step of the   *)
(* caller.  A reservation is named by the order that makes it (an order    *)
(* makes at most one; the code draws a random id).  Amounts in cents.      *)
(*                                                                         *)
(* reserve(code) is called by nothing and is left out; so is the branch of *)
(* release for the codes it would return.                                  *)
(***************************************************************************)
EXTENDS Integers, FiniteSets, FiniteSetsExt, SequencesExt, Sums

CONSTANTS
    Reservations,   \* who may reserve credit
    Credits,        \* rows of store_credits
    OwnerOf,        \* [Credits -> customers]
    InitialAmount,  \* [Credits -> Nat]
    ExpiryOrder,    \* the credits, the first to expire first
    Expiring        \* a bound: the credits whose time may pass

ASSUME CreditsAssumption ==
    /\ IsFiniteSet(Credits)
    /\ InitialAmount \in [Credits -> Nat \ {0}]
    /\ ExpiryOrder \in SetToSeqs(Credits)

VARIABLES
    balance,       \* store_credits.balance
    creditStatus,  \* store_credits.status
    overdue,       \* the credits whose expires_at has passed
    allocated,     \* store_credit_allocations.amount, 0 where there is no row
    freed,         \* store_credit_allocations.released_amount
    validating     \* what validate() read of a credit and is about to save

creditVars == <<balance, creditStatus, overdue>>
allocationVars == <<allocated, freed>>
walletVars == <<creditVars, allocationVars, validating>>

NoCheck == <<>>

CreditsTypeOK ==
    /\ \A c \in Credits : balance[c] \in 0 .. InitialAmount[c]
    /\ creditStatus \in [Credits -> {"active", "used", "expired"}]
    /\ overdue \subseteq Credits
    /\ \A r \in Reservations, c \in Credits :
        allocated[r][c] \in 0 .. InitialAmount[c] /\ freed[r][c] \in 0 .. allocated[r][c]

CreditsInit ==
    /\ balance = InitialAmount
    /\ creditStatus = [c \in Credits |-> "active"]
    /\ overdue = {}
    /\ allocated = [r \in Reservations |-> [c \in Credits |-> 0]]
    /\ freed = allocated
    /\ validating = NoCheck

Before(seq, c) == {seq[i] : i \in 1 .. (CHOOSE j \in DOMAIN seq : seq[j] = c) - 1}

\* What each of the credits, taken in the order seq, gives towards amount.
Shares(seq, have, amount) ==
    [c \in Credits |->
        LET left == amount - Total(have, Before(seq, c))
        IN  IF left > 0 THEN Min({have[c], left}) ELSE 0]

\* What of the reservation r is still taken from the customer.
Outstanding(r) == Total([c \in Credits |-> allocated[r][c] - freed[r][c]], Credits)

StatusFor(c, newBalance) == IF newBalance > 0 THEN "active" ELSE "used"

Spendable(customer) ==
    {c \in Credits : OwnerOf[c] = customer /\ creditStatus[c] = "active" /\ c \notin overdue}

\* The amount that reserveBalance takes for the reservation r.
Available(customer, maximum) == Min({maximum, Total(balance, Spendable(customer))})

ReserveBalance(r, customer, maximum) ==
    LET found == {c \in Credits : OwnerOf[c] = customer /\ creditStatus[c] = "active"}
        have  == [c \in Credits |-> IF c \in Spendable(customer) THEN balance[c] ELSE 0]
        used  == Shares(ExpiryOrder, have, maximum)
    IN  /\ balance' = [c \in Credits |-> balance[c] - used[c]]
        /\ creditStatus' = [c \in Credits |->
                CASE c \in found /\ c \in overdue -> "expired"
                  [] used[c] > 0 -> StatusFor(c, balance'[c])
                  [] OTHER -> creditStatus[c]]
        /\ allocated' = [allocated EXCEPT ![r] = used]
        /\ UNCHANGED <<overdue, freed, validating>>

\* Mutant: what was released is not written into the allocations.
ReleaseAgain(r, amount) ==
    /\ balance' = [c \in Credits |->
            Min({InitialAmount[c], balance[c] + Min({allocated[r][c], amount})})]
    /\ UNCHANGED <<creditStatus, overdue, allocationVars, validating>>

\* The rows of one reservation are created in one transaction, so ordering them
\* by created_at leaves their order open.
Release(r, amount) ==
    \E seq \in SetToSeqs(Credits) :
        LET taken    == [c \in Credits |-> allocated[r][c] - freed[r][c]]
            restored == Shares(seq, taken, amount)
        IN  /\ balance' = [c \in Credits |->
                    Min({InitialAmount[c], balance[c] + restored[c]})]
            /\ creditStatus' = [c \in Credits |->
                    CASE restored[c] = 0 -> creditStatus[c]
                      [] restored[c] > 0 /\ c \in overdue -> "expired"
                      [] OTHER -> StatusFor(c, balance'[c])]
            /\ freed' = [freed EXCEPT ![r] = [c \in Credits |-> freed[r][c] + restored[c]]]
            /\ UNCHANGED <<overdue, allocated, validating>>

\* The time a credit is good for passes.
CreditExpires(c) ==
    /\ c \in Expiring \ overdue
    /\ overdue' = overdue \cup {c}
    /\ UNCHANGED <<balance, creditStatus, allocationVars, validating>>

\* validate() reads a credit that is past its time, in no transaction, ...
ReadOverdue(c) ==
    /\ c \in overdue
    /\ validating = NoCheck
    /\ validating' = <<c, balance[c]>>
    /\ UNCHANGED <<creditVars, allocationVars>>

\* ... and saves the entity it read, with the balance it had then.
SaveOverdue ==
    /\ validating # NoCheck
    /\ creditStatus' = [creditStatus EXCEPT ![validating[1]] = "expired"]
    /\ balance' = [balance EXCEPT ![validating[1]] = validating[2]]
    /\ validating' = NoCheck
    /\ UNCHANGED <<overdue, allocationVars>>

-----------------------------------------------------------------------------
\* No credit is created or lost: what was given to a customer is in the balance
\* or in reservations that hold it, whatever orders reserve it and give it back,
\* in part or twice, in any order.  A credit past its time is worth nothing, and
\* there validate() may write an old balance back.
CreditConserved ==
    \A c \in Credits \ overdue :
        balance[c]
            + Total([r \in Reservations |-> allocated[r][c] - freed[r][c]], Reservations)
            = InitialAmount[c]

=============================================================================
