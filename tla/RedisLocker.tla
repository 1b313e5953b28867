---------------------------- MODULE RedisLocker -----------------------------
(***************************************************************************)
(* locker/redis: leases on one key of a Redis that drops it when its time  *)
(* to live is over.  A goroutine of each lease renews the key at every     *)
(* tick of a ticker; Release stops that goroutine, waits for it and        *)
(* deletes the key.  Redis takes a renewal or a deletion only for the      *)
(* token of the lease that made the key, so a lease stands for its token.  *)
(***************************************************************************)
EXTENDS Naturals

CONSTANTS Leases,
          Nobody,    \* the holder of a key that does not exist
          Gone,      \* a token whose lease nobody has any more
          TTLs,      \* terms asked for, in units of the clock
          Second,    \* units in a second
          Patience   \* units a prompt Redis and scheduler take at most

ASSUME HoldersDiffer == Nobody \notin Leases /\ Gone \notin Leases /\ Nobody # Gone
ASSUME Units == TTLs \subseteq Nat \ {0} /\ Second \in Nat \ {0} /\ Patience \in Nat

VARIABLES holder,  \* whose token the key has
          left,    \* how long the key lives
          stage,   \* of a lease: "idle", "asked", "held", "releasing", "deleting"
          ttl,     \* its term
          live,    \* leases whose context is not cancelled
          loop,    \* its renewing goroutine: "none", "wait", "sent", "done"
          ticker,  \* time to the next tick
          ticked,  \* leases with a tick in the ticker's channel
          lag,     \* how long an answer, or the handling of a tick, is under way
          prompt   \* whether none of these takes longer than Patience

lease == <<stage, ttl, live, loop, ticker, ticked, lag>>
redisVars == <<holder, left, lease, prompt>>

IntervalOfTerm(t) == IF t < Second THEN Second ELSE t   \* mutant: ttl, not ttl / 3
\* A third of the term, but a second at least.
Interval(t) == IF t \div 3 < Second THEN Second ELSE t \div 3

RedisInit == /\ holder = Nobody /\ left = 0
             /\ stage = [l \in Leases |-> "idle"] /\ loop = [l \in Leases |-> "none"]
             /\ live = {} /\ ticked = {}
             /\ ttl = [l \in Leases |-> 0] /\ ticker = [l \in Leases |-> 0]
             /\ lag = [l \in Leases |-> 0]
             /\ prompt \in BOOLEAN
-----------------------------------------------------------------------------
(* Acquire: Redis makes the key if it does not exist; a key that does is   *)
(* ErrNotObtained, which changes nothing.  newLease starts the ticker.     *)
Obtain(l, t) == /\ stage[l] = "idle" /\ holder = Nobody
                /\ holder' = l /\ left' = t
                /\ stage' = [stage EXCEPT ![l] = "asked"]
                /\ ttl' = [ttl EXCEPT ![l] = t] /\ lag' = [lag EXCEPT ![l] = 0]
                /\ UNCHANGED <<live, loop, ticker, ticked, prompt>>
NewLease(l) == /\ stage[l] = "asked" /\ stage' = [stage EXCEPT ![l] = "held"]
               /\ live' = live \cup {l} /\ loop' = [loop EXCEPT ![l] = "wait"]
               /\ ticker' = [ticker EXCEPT ![l] = Interval(ttl[l])]
               /\ lag' = [lag EXCEPT ![l] = 0]
               /\ UNCHANGED <<holder, left, ttl, ticked, prompt>>
\* The context given to Acquire ends, and that of the lease with it.
ParentEnds(l) == /\ l \in live /\ live' = live \ {l}
                 /\ UNCHANGED <<holder, left, stage, ttl, loop, ticker, ticked, lag, prompt>>
-----------------------------------------------------------------------------
(* The renewing goroutine.  With a tick waiting and the context cancelled, *)
(* the select takes either.                                                *)
Refresh(l) == /\ loop[l] = "wait" /\ l \in ticked
              /\ loop' = [loop EXCEPT ![l] = "sent"] /\ ticked' = ticked \ {l}
              /\ UNCHANGED <<holder, left, stage, ttl, live, ticker, lag, prompt>>
Refreshed(l) == /\ loop[l] = "sent" /\ holder = l /\ left' = ttl[l]
                /\ loop' = [loop EXCEPT ![l] = "wait"] /\ lag' = [lag EXCEPT ![l] = 0]
                /\ UNCHANGED <<holder, stage, ttl, live, ticker, ticked, prompt>>
RefreshIgnored(l) ==             \* mutant: logs the error and goes on
    /\ loop[l] = "sent" /\ left' = left
    /\ loop' = [loop EXCEPT ![l] = "wait"] /\ lag' = [lag EXCEPT ![l] = 0]
    /\ UNCHANGED <<holder, stage, ttl, live, ticker, ticked, prompt>>
LoopEnds(l) == /\ loop' = [loop EXCEPT ![l] = "done"] /\ ticked' = ticked \ {l}
               /\ ticker' = [ticker EXCEPT ![l] = 0] /\ lag' = [lag EXCEPT ![l] = 0]
\* The key is another's or gone, or there is no answer: Redis may have renewed it.
RefreshFails(l) == /\ loop[l] = "sent" /\ LoopEnds(l)
                   /\ left' \in {left} \cup {ttl[k] : k \in {l} \cap {holder}}
                   /\ live' = live \ {l}
                   /\ UNCHANGED <<holder, stage, ttl, prompt>>
StopRefreshing(l) == /\ loop[l] = "wait" /\ l \notin live /\ LoopEnds(l)
                     /\ UNCHANGED <<holder, left, stage, ttl, live, prompt>>
-----------------------------------------------------------------------------
(* Release: cancel, wait for the goroutine, delete the key if it is ours.  *)
Release(l) == /\ stage[l] = "held" /\ stage' = [stage EXCEPT ![l] = "releasing"]
              /\ live' = live \ {l}
              /\ UNCHANGED <<holder, left, ttl, loop, ticker, ticked, lag, prompt>>
Drained(l) == /\ stage[l] = "releasing" /\ loop[l] = "done"
              /\ stage' = [stage EXCEPT ![l] = "deleting"]
              /\ UNCHANGED <<holder, left, ttl, live, loop, ticker, ticked, lag, prompt>>
Ended(l) == /\ stage' = [stage EXCEPT ![l] = "idle"] /\ loop' = [loop EXCEPT ![l] = "none"]
            /\ live' = live \ {l} /\ ticked' = ticked \ {l}
            /\ ttl' = [ttl EXCEPT ![l] = 0] /\ ticker' = [ticker EXCEPT ![l] = 0]
            /\ lag' = [lag EXCEPT ![l] = 0] /\ UNCHANGED prompt
Delete(l) == /\ stage[l] = "deleting" /\ Ended(l)
             /\ IF holder = l THEN holder' = Nobody /\ left' = 0 ELSE UNCHANGED <<holder, left>>
\* Acquire or Release reports an error and leaves the key behind, or the
\* process ends.
Abandon(l) == /\ stage[l] # "idle" /\ Ended(l)
              /\ holder' = IF holder = l THEN Gone ELSE holder
              /\ UNCHANGED left
-----------------------------------------------------------------------------
UnderWay(l) == stage[l] = "asked" \/ loop[l] = "sent" \/ (loop[l] = "wait" /\ l \in ticked)
Ticking == {l \in Leases : loop[l] \in {"wait", "sent"}}

\* A unit of time.  The channel of a ticker holds one tick; others are dropped.
Pass == /\ prompt => \A l \in Leases : UnderWay(l) => lag[l] < Patience
        /\ left' = IF left = 0 THEN 0 ELSE left - 1
        /\ holder' = IF left' = 0 THEN Nobody ELSE holder
        /\ ticker' = [l \in Leases |-> IF l \notin Ticking THEN ticker[l]
                                       ELSE IF ticker[l] = 1 THEN Interval(ttl[l]) ELSE ticker[l] - 1]
        /\ ticked' = ticked \cup {l \in Ticking : ticker[l] = 1}
        /\ lag' = [l \in Leases |-> IF UnderWay(l) /\ lag[l] < Patience THEN lag[l] + 1 ELSE lag[l]]
        /\ UNCHANGED <<stage, ttl, live, loop, prompt>>

RedisNext == \/ Pass
             \/ \E l \in Leases :
                   \/ \E t \in TTLs : Obtain(l, t)
                   \/ NewLease(l) \/ ParentEnds(l)
                   \/ Refresh(l) \/ Refreshed(l) \/ RefreshFails(l) \/ StopRefreshing(l)
                   \/ Release(l) \/ Drained(l) \/ Delete(l) \/ Abandon(l)

\* Time passes, Redis answers or the client gives up, and a goroutine that can
\* go on does.  A select with a tick and an end to take takes the end some time.
RedisFairness ==
    /\ WF_redisVars(Pass)
    /\ \A l \in Leases :
          /\ WF_redisVars(NewLease(l)) /\ WF_redisVars(Refresh(l))
          /\ WF_redisVars(Refreshed(l) \/ RefreshFails(l))
          /\ SF_redisVars(StopRefreshing(l))
          /\ WF_redisVars(Drained(l)) /\ WF_redisVars(Delete(l))

RedisSpec == RedisInit /\ [][RedisNext]_redisVars /\ RedisFairness
-----------------------------------------------------------------------------
\* A term of three seconds or more, of which Redis and the scheduler never
\* take a third to answer.
Served(l) == prompt /\ ttl[l] >= 3 * Second /\ 3 * Patience < ttl[l]

\* A lease that is served in time and whose context is live owns the key:
\* automatic renewal (redis.go:101) is in time, at every tick.  (A term of a
\* second or less is over before the first renewal: Interval is a second.)
LiveLeaseOwnsKey == \A l \in live : Served(l) => holder = l

\* Whatever Redis does: a lease that has lost the key is cancelled in the end,
\* Release returns although a renewal may be under way, and a key whose process
\* is gone becomes free.
LeasesSettle ==
    /\ \A l \in Leases : /\ l \in live /\ holder # l ~> l \notin live
                         /\ stage[l] = "releasing" ~> stage[l] = "idle"
    /\ holder = Gone ~> holder # Gone
=============================================================================
