------------------------------ MODULE TryLock ------------------------------
(***************************************************************************)
(* What locker/contract promises of every Locker: a key is owned by at     *)
(* most one lease; a lease appears only on a free key and disappears only  *)
(* when its own holder gives it up.                                        *)
(***************************************************************************)
CONSTANTS Procs,  \* goroutines that call Acquire and Release
          Keys,   \* lock keys
          Free    \* the owner of a key nobody holds

VARIABLE owner    \* owner[k]: the goroutine whose lease on k is live, or Free

Init == owner = [k \in Keys |-> Free]

\* Acquire returned a Lease.
Obtain(p, k) == /\ owner[k] = Free
                /\ owner' = [owner EXCEPT ![k] = p]

\* The lease of p on k ended.
GiveUp(p, k) == /\ owner[k] = p
                /\ owner' = [owner EXCEPT ![k] = Free]

Next == \E p \in Procs, k \in Keys : Obtain(p, k) \/ GiveUp(p, k)

Spec == Init /\ [][Next]_owner
=============================================================================
