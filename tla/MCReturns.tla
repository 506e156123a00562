------------------------------ MODULE MCReturns ------------------------------
(***************************************************************************)
(* Three tops, bought with a discount, some of it with credit.  All are to *)
(* be returned, and one to be exchanged: only one of the requests fits.  Two  *)
(* managers are at work.                                                   *)
(***************************************************************************)
EXTENDS Returns, TLC

MCRequests == {"all", "swap"}
MCKind == [r \in MCRequests |-> IF r = "all" THEN "return" ELSE "exchange"]
MCLines == {"top"}
MCSold == [line \in MCLines |-> 3]
MCUnitPrice == [line \in MCLines |-> 1010]
MCItems == [r \in MCRequests |-> [line \in MCLines |-> IF r = "all" THEN 3 ELSE 1]]

\* What the theorems about the money ask of the interruptions.
ASSUME InterruptionsAssumption == InterruptedExchanges

LabelAndManagerSymmetry == Permutations(Labels) \cup Permutations(Managers)
=============================================================================
