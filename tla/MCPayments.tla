------------------------------ MODULE MCPayments ------------------------------
(***************************************************************************)
(* Three requests at a time.  A checkout makes one charge; the switch to     *)
(* card makes new ones (three charges in all).  The cfg files choose which *)
(* requests, panel operations, events and faults an instance has.          *)
(***************************************************************************)
EXTENDS Payments, TLC

WorkerSymmetry == Permutations(Workers)
=============================================================================
