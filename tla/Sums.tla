--------------------------------- MODULE Sums ---------------------------------
(***************************************************************************)
(* The sum of f[x] over the elements x of a finite set: SUM of SQL and     *)
(* reduce of the services.                                                 *)
(***************************************************************************)
EXTENDS Integers, FiniteSets, FiniteSetsExt

Total(f, S) == MapThenSumSet(LAMBDA x : f[x], S)
=============================================================================
