---------------------------- MODULE CountingLock ----------------------------
(***************************************************************************)
(* What mutex.c promises its clients: a lock with at most one owner, and a *)
(* counter that only the owner changes, one at a time.  Sleeping, waiter   *)
(* lists and wake-ups are not visible at this level.                       *)
(***************************************************************************)
EXTENDS Integers

CONSTANTS Clients, Nobody

VARIABLES owner, count

clVars == <<owner, count>>

CLInit == owner = Nobody /\ count = 0

Acquire(c) == owner = Nobody /\ owner' = c /\ UNCHANGED count

Increment(c) == owner = c /\ count' = count + 1 /\ UNCHANGED owner

Release(c) == owner = c /\ owner' = Nobody /\ UNCHANGED count

\* A new test starts counting from zero; nobody may own the lock then.
Restart == owner = Nobody /\ count' = 0 /\ UNCHANGED owner

CLNext == \/ \E c \in Clients : Acquire(c) \/ Increment(c) \/ Release(c)
          \/ Restart

CLSpec == CLInit /\ [][CLNext]_clVars
=============================================================================
