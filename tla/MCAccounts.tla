------------------------------ MODULE MCAccounts ------------------------------
(* Two requests at once for an address. *)
EXTENDS Accounts, TLC

RequestSymmetry == Permutations(Workers)
=============================================================================
