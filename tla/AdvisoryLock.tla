----------------------------- MODULE AdvisoryLock -----------------------------
(***************************************************************************)
(* AdvisoryLockService.withLock (src/src/persistence/advisory-lock.service *)
(* .ts): the mutual exclusion of requests that share a coupon, an order or *)
(* the returns of an order, by a session lock of PostgreSQL.               *)
(*                                                                         *)
(* The lock belongs to the connection that took it, so withLock keeps one  *)
(* connection of the pool from before the lock is asked for until after it *)
(* is given back, and fn() takes a second one for each of its queries.     *)
(* Checkout is proved about beside it, so the two share no name.           *)
(***************************************************************************)
EXTENDS Integers, FiniteSets

CONSTANTS
    Requests,    \* requests that run withLock
    Keys,        \* values of hashtext(key)
    KeyOf,       \* [Requests -> Keys], the key each request locks
    PoolSize     \* connections of the pool (pg's default is 10)

ASSUME LockAssumption ==
    /\ IsFiniteSet(Requests)
    /\ KeyOf \in [Requests -> Keys]
    /\ PoolSize \in Nat \ {0}

VARIABLES
    stage,       \* where each request is
    free,        \* idle connections of the pool
    owner        \* pg_locks: per key, the requests whose session holds it

lockVars == <<stage, free, owner>>

\* Running fn(), with the lock: before its first query, in a query, after one.
Inside == {"enter", "query", "fn"}

LockTypeOK ==
    /\ stage \in [Requests -> {"idle", "connect", "lock", "unlock"} \cup Inside]
    /\ free \in 0 .. PoolSize
    /\ owner \in [Keys -> SUBSET Requests]

LockInit ==
    /\ stage = [r \in Requests |-> "idle"]
    /\ free = PoolSize
    /\ owner = [k \in Keys |-> {}]

Move(r, from, to) ==
    /\ stage[r] = from
    /\ stage' = [stage EXCEPT ![r] = to]

\* pool.connect() resolves when a connection is idle, and waits without a limit.
TakeConnection == free > 0 /\ free' = free - 1

GiveConnection == free' = free + 1

Start(r) == Move(r, "idle", "connect") /\ UNCHANGED <<free, owner>>

\* queryRunner.connect()
Connect(r) == Move(r, "connect", "lock") /\ TakeConnection /\ UNCHANGED owner

\* Mutant: a lock that does not wait (pg_try_advisory_lock, result not read).
TryLock(r) ==
    /\ Move(r, "lock", "enter")
    /\ owner' = [owner EXCEPT ![KeyOf[r]] = IF @ = {} THEN {r} ELSE @]
    /\ UNCHANGED free

\* SELECT pg_advisory_lock(...): waits, with its connection, for the key.
Lock(r) ==
    /\ Move(r, "lock", "enter")
    /\ owner[KeyOf[r]] = {}
    /\ owner' = [owner EXCEPT ![KeyOf[r]] = {r}]
    /\ UNCHANGED free

\* fn() queries through the repositories: a second connection of the pool.
\* Every caller's fn() begins with one; the ones that follow it wait the same way
\* and are not told apart.
BeginQuery(r) == Move(r, "enter", "query") /\ TakeConnection /\ UNCHANGED owner

EndQuery(r) == Move(r, "query", "fn") /\ GiveConnection /\ UNCHANGED owner

\* fn() returned or threw: the finally block runs pg_advisory_unlock.
EndFn(r) ==
    /\ Move(r, "fn", "unlock")
    /\ owner' = [owner EXCEPT ![KeyOf[r]] = @ \ {r}]
    /\ UNCHANGED free

\* Mutant: no release() after the unlock.
KeepConnection(r) == Move(r, "unlock", "idle") /\ UNCHANGED <<free, owner>>

\* queryRunner.release()
ReleaseConnection(r) == Move(r, "unlock", "idle") /\ GiveConnection /\ UNCHANGED owner

LockNext ==
    \E r \in Requests :
        \/ Start(r) \/ Connect(r) \/ Lock(r) \/ BeginQuery(r) \/ EndQuery(r)
        \/ EndFn(r) \/ ReleaseConnection(r)

LockSpec == LockInit /\ [][LockNext]_lockVars

\* The event loop and the database go on, fn() ends, and whoever waits for a
\* connection or for the lock is served in turn (both queues are FIFO).
Fairness ==
    \A r \in Requests :
        /\ SF_lockVars(Connect(r)) /\ SF_lockVars(Lock(r))
        /\ SF_lockVars(BeginQuery(r)) /\ WF_lockVars(EndQuery(r))
        /\ WF_lockVars(EndFn(r)) /\ WF_lockVars(ReleaseConnection(r))

FairLockSpec == LockSpec /\ Fairness

-----------------------------------------------------------------------------
\* No two requests that share a key run their fn() at the same time: what the
\* check "still pending" of the payment and the recount of a coupon rely on.
MutualExclusion ==
    \A r, s \in Requests :
        r # s /\ stage[r] \in Inside /\ stage[s] \in Inside => KeyOf[r] # KeyOf[s]

\* No connection is lost or used twice, whichever way the requests end.
ConnectionsAccounted ==
    free = PoolSize - Cardinality({r \in Requests : stage[r] \notin {"idle", "connect"}})
                    - Cardinality({r \in Requests : stage[r] = "query"})

\* Every request that asks for the lock gets its turn and is answered.
EveryRequestEnds == \A r \in Requests : stage[r] = "connect" ~> stage[r] = "idle"

=============================================================================
