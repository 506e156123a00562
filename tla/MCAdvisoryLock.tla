---------------------------- MODULE MCAdvisoryLock ----------------------------
(***************************************************************************)
(* Three requests, two of them for one coupon, one for an order.  With     *)
(* PoolSize = 4 one connection is left when all three hold one; with three *)
(* none would be, and the holder would wait for its own queries.           *)
(***************************************************************************)
EXTENDS AdvisoryLock

MCRequests == {"r1", "r2", "r3"}
MCKeys == {"coupon", "order"}
MCKeyOf == [r \in MCRequests |-> IF r = "r3" THEN "order" ELSE "coupon"]
=============================================================================
