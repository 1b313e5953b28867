------------------------------- MODULE Locker -------------------------------
(***************************************************************************)
(* locker: NewLocker gives the application one of two Lockers with one     *)
(* contract, the memory locker when Redis is not configured.               *)
(***************************************************************************)
EXTENDS MemoryLocker, RedisLocker

VARIABLE mode    \* which one, as Mode() tells

lockerVars == <<mode, vars, redisVars>>

\* The leased lock works on one key.
LeaseKey == CHOOSE k \in Keys : TRUE

\* The Locker that was not made stays as it is, in one state like any other.
NewLocker == /\ mode \in {"memory", "redis"}
             /\ Init /\ RedisInit
             /\ mode = "memory" => prompt
             /\ mode = "redis" => key = [p \in Procs |-> LeaseKey]

LockerNext == /\ \/ mode = "memory" /\ Next /\ UNCHANGED redisVars
                 \/ mode = "redis" /\ RedisNext /\ UNCHANGED vars
              /\ UNCHANGED mode

LockerFairness == mode = "redis" => RedisFairness
LockerSpec == NewLocker /\ [][LockerNext]_lockerVars /\ LockerFairness
-----------------------------------------------------------------------------
\* A lease of the leased lock stands for the key while it is served in time and
\* its context is live.
sure == {l \in live : Served(l)}

leaseOf == IF mode = "memory" THEN owner
           ELSE [k \in Keys |-> IF k = LeaseKey /\ sure # {} THEN CHOOSE l \in sure : TRUE ELSE None]

Contract == INSTANCE TryLock WITH Procs <- Procs \cup Leases, Free <- None, owner <- leaseOf

\* Whichever locker the application has (contract.go:24-35): a lease appears
\* only on a key no other lease has, and is never passed on, although Redis
\* drops keys, renewals fail and map entries come and go.
ImplementsContract == Contract!Spec
=============================================================================
