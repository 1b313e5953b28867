------------------------------ MODULE Delayed ------------------------------
(***************************************************************************)
(* queue: NewQueue gives the application one of two delayed queues with    *)
(* one interface, the memory queue when Redis is not configured.           *)
(***************************************************************************)
EXTENDS MemoryDelayed, RedisDelayed

VARIABLE mode    \* which one was made

delayedVars == <<mode, memoryVars, vars>>

\* The queue that was not made stays as it is.
NewQueue == mode \in {"memory", "redis"} /\ MemoryInit /\ Init

DelayedNext == /\ \/ mode = "memory" /\ MemoryNext /\ UNCHANGED vars
                  \/ mode = "redis" /\ Next /\ UNCHANGED memoryVars
               /\ UNCHANGED mode

DelayedSpec == /\ NewQueue /\ [][DelayedNext]_delayedVars
               /\ mode = "redis" => Fairness
=============================================================================
