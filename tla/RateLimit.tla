----------------------------- MODULE RateLimit ------------------------------
(***************************************************************************)
(* TakeRateLimits of cache/memory and of cache/redis: five algorithms that *)
(* judge a group of keys at once and store a summary of what they let      *)
(* through, with a time to live.  The memory cache reads the clock BEFORE  *)
(* it takes the mutex; the Redis script reads it inside the atomic script. *)
(* A tick is a millisecond.  A token, or a unit of water, is den parts of  *)
(* which num flow in or out per tick, so that the arithmetic is exact.     *)
(***************************************************************************)
EXTENDS Integers, Sequences, FiniteSetsExt

CONSTANTS Callers,
          Keys,
          Stores,    \* which of "memory" and "redis" to start with
          RuleSets,  \* rules to start with, each in [Keys -> Rule]
          Slack,     \* what a bucket's time to live has beyond its filling time (1 s)
          Interval,  \* rateLimitCleanupInterval
          MaxTime,   \* the clock stops here (bound)
          None

Algorithms == {"TOKEN_BUCKET", "FIXED_WINDOW", "SLIDING_WINDOW_COUNTER",
               "SLIDING_WINDOW_LOG", "LEAKY_BUCKET"}
\* limit is Burst, Limit or Capacity; a rule of buckets has no use for window
\* and one of windows none for num and den.
Rule == [alg : Algorithms, limit : Nat \ {0}, window : Nat \ {0},
         num : Nat \ {0}, den : Nat \ {0}]

ASSUME StoreNames == Stores \subseteq {"memory", "redis"}
ASSUME ValidRules == RuleSets \subseteq [Keys -> Rule]
ASSUME Times == Slack \in Nat /\ Interval \in Nat /\ MaxTime \in Nat
ASSUME NoneIsNoCall == None \notin [group : SUBSET Keys, now : Nat]

VARIABLES store,     \* the cache in use
          rule,      \* the rule of each key
          clock,
          items,     \* rateLimitItems, or the keys of Redis
          cleanupAt, \* rateLimitCleanupAt
          call,      \* the group of a caller that has read the clock, and that time
          admitted,  \* admitted[k]: times of the requests let through, in order of commit
          last,      \* the decision of the latest step, None if it made none
          newest,    \* the latest time a decision was made with
          late       \* TRUE once a decision used an older time than one before it

history == <<admitted, newest, late>>
vars == <<store, rule, clock, items, cleanupAt, call, last, history>>

Groups == SUBSET Keys \ {{}}
\* rateLimitState; exp = 0 when there is none.
NoState == [id |-> 0, current |-> 0, previous |-> 0, events |-> <<>>,
            level |-> 0, at |-> 0, exp |-> 0]

Init == /\ store \in Stores /\ rule \in RuleSets
        /\ clock = 0
        /\ items = [k \in Keys |-> NoState]
        /\ cleanupAt = -1
        /\ call = [c \in Callers |-> None]
        /\ admitted = [k \in Keys |-> <<>>]
        /\ last = None /\ newest = 0 /\ late = FALSE
-----------------------------------------------------------------------------
(* The algorithms: what request r is told at a time, and the next state.   *)

CeilDiv(a, b) == (a + b - 1) \div b
Lesser(a, b) == IF a < b THEN a ELSE b
AtLeast(a, b) == IF a < b THEN b ELSE a

MinimumRetry(t) == AtLeast(t, 1)
Verdict(ok, retry, next) == [ok |-> ok, retry |-> IF ok THEN 0 ELSE MinimumRetry(retry), next |-> next]

TokenBucket(r, s, now) ==
    LET full  == r.limit * r.den
        level == IF s.exp = 0 THEN full ELSE Lesser(full, s.level + (now - s.at) * r.num)
    IN  Verdict(level >= r.den, CeilDiv(r.den - level, r.num),
                [s EXCEPT !.level = level - r.den, !.at = now])

LeakyBucket(r, s, now) ==
    LET full  == r.limit * r.den
        level == IF s.exp = 0 THEN 0 ELSE AtLeast(s.level - (now - s.at) * r.num, 0)
    IN  Verdict(level + r.den <= full, CeilDiv(level + r.den - full, r.num),
                [s EXCEPT !.level = level + r.den, !.at = now])

WindowRetry(r, now) == r.window - (now % r.window)

FixedWindow(r, s, now) ==
    LET id    == now \div r.window
        count == IF s.id = id THEN s.current ELSE 0
    IN  Verdict(count < r.limit, WindowRetry(r, now), [s EXCEPT !.id = id, !.current = count + 1])

SlidingCounterShortRetry(r, s, now) ==   \* mutant: a full window is free when the next begins
    LET id       == now \div r.window
        current  == IF s.id = id THEN s.current ELSE 0
        previous == CASE s.id = id -> s.previous [] s.id = id - 1 -> s.current [] OTHER -> 0
        used     == current * r.window + previous * WindowRetry(r, now)
    IN  Verdict(used + r.window <= r.limit * r.window, WindowRetry(r, now),
                [s EXCEPT !.id = id, !.current = current + 1, !.previous = previous])

SlidingCounter(r, s, now) ==
    LET id       == now \div r.window
        current  == IF s.id = id THEN s.current ELSE 0
        previous == CASE s.id = id -> s.previous [] s.id = id - 1 -> s.current [] OTHER -> 0
        used     == current * r.window + previous * WindowRetry(r, now)
        full     == current + 1 > r.limit
    IN  Verdict(used + r.window <= r.limit * r.window,
                WindowRetry(r, now) +
                    (IF current > 0 /\ full THEN CeilDiv((current + 1 - r.limit) * r.window, current) ELSE 0),
                [s EXCEPT !.id = id, !.current = current + 1, !.previous = previous])

\* Drops the expired events at the front; events behind a newer one stay.
Pruned(events, cutoff) == LET kept == {i \in DOMAIN events : events[i] > cutoff}
                          IN  IF kept = {} THEN <<>> ELSE SubSeq(events, Min(kept), Len(events))

SlidingLog(r, s, now) ==
    LET events == Pruned(s.events, now - r.window)
    IN  Verdict(Len(events) < r.limit, IF events = <<>> THEN 1 ELSE Head(events) + r.window - now,
                [s EXCEPT !.events = Append(events, now)])

Apply(r, s, now) == CASE r.alg = "TOKEN_BUCKET" -> TokenBucket(r, s, now)
                      [] r.alg = "FIXED_WINDOW" -> FixedWindow(r, s, now)
                      [] r.alg = "SLIDING_WINDOW_COUNTER" -> SlidingCounter(r, s, now)
                      [] r.alg = "SLIDING_WINDOW_LOG" -> SlidingLog(r, s, now)
                      [] r.alg = "LEAKY_BUCKET" -> LeakyBucket(r, s, now)

StateTTLOneWindow(r) ==          \* mutant: a count is gone when the next window looks back
    IF r.alg \in {"TOKEN_BUCKET", "LEAKY_BUCKET"}
    THEN CeilDiv(r.limit * r.den, r.num) + Slack ELSE r.window

StateTTL(r) == CASE r.alg \in {"TOKEN_BUCKET", "LEAKY_BUCKET"} -> CeilDiv(r.limit * r.den, r.num) + Slack
                 [] r.alg \in {"FIXED_WINDOW", "SLIDING_WINDOW_COUNTER"} -> r.window * 2
                 [] r.alg = "SLIDING_WINDOW_LOG" -> r.window

\* The state that counts at a time: Redis keeps a key up to and including the
\* millisecond it expires in, the memory cache does not.
Expired(s, now) == s.exp > 0 /\ IF store = "redis" THEN now > s.exp ELSE now >= s.exp
Live(s, now) == IF Expired(s, now) THEN NoState ELSE s
-----------------------------------------------------------------------------
Tick == /\ clock < MaxTime
        /\ clock' = clock + 1
        /\ last' = None
        /\ UNCHANGED <<store, rule, items, cleanupAt, call, history>>

\* Judge all keys of a group; store nothing unless every one of them passes.
Judge(g, now, kept) ==
    LET verdict == [k \in g |-> Apply(rule[k], Live(kept[k], now), now)]
        ok      == \A k \in g : verdict[k].ok
        longest == Max({verdict[k].retry : k \in g})
    IN  /\ items' = [k \in Keys |->
                       IF ok /\ k \in g THEN [verdict[k].next EXCEPT !.exp = now + StateTTL(rule[k])]
                       ELSE kept[k]]
        /\ admitted' = [k \in Keys |-> IF ok /\ k \in g THEN Append(admitted[k], now) ELSE admitted[k]]
        /\ last' = [group |-> g, now |-> now, ok |-> ok, retry |-> longest]
        /\ newest' = AtLeast(newest, now)
        /\ late' = (late \/ now < newest)

\* Memory: the clock is read before the mutex is taken.
ReadClock(c, g) == /\ store = "memory" /\ call[c] = None
                   /\ call' = [call EXCEPT ![c] = [group |-> g, now |-> clock]]
                   /\ last' = None
                   /\ UNCHANGED <<store, rule, clock, items, cleanupAt, history>>

\* The critical section, with the sweep of expired states that is due once
\* in an interval.
Section(c) ==
    /\ call[c] # None
    /\ LET now   == call[c].now
           sweep == now > cleanupAt
       IN  /\ Judge(call[c].group, now, IF sweep THEN [k \in Keys |-> Live(items[k], now)] ELSE items)
           /\ cleanupAt' = IF sweep THEN now + Interval ELSE cleanupAt
    /\ call' = [call EXCEPT ![c] = None]
    /\ UNCHANGED <<store, rule, clock>>

\* Redis: the script reads the time of the server and runs without interruption.
Script(g) == /\ store = "redis"
             /\ Judge(g, clock, items)
             /\ UNCHANGED <<store, rule, clock, cleanupAt, call>>

Next == \/ Tick
        \/ \E c \in Callers : Section(c) \/ \E g \in Groups : ReadClock(c, g)
        \/ \E g \in Groups : Script(g)

Spec == Init /\ [][Next]_vars
-----------------------------------------------------------------------------
(* What each algorithm promises, over the full history of what it let through. *)

Admissions(k, from, to) == Cardinality({i \in DOMAIN admitted[k] : admitted[k][i] \in from..to})

\* For buckets: after every past admission, those since then and one more fit
\* into the capacity and what has flowed meanwhile.
HasRoom(k, now) ==
    LET r      == rule[k]
        past   == admitted[k]
        id     == now \div r.window
        within == Admissions(k, id * r.window, now)
        before == Admissions(k, (id - 1) * r.window, id * r.window - 1)
    IN  CASE r.alg \in {"TOKEN_BUCKET", "LEAKY_BUCKET"} ->
               \A i \in DOMAIN past : (Len(past) - i + 2) * r.den <= r.limit * r.den + (now - past[i]) * r.num
          [] r.alg = "FIXED_WINDOW" -> within < r.limit
          [] r.alg = "SLIDING_WINDOW_COUNTER" ->
               (within + 1) * r.window + before * WindowRetry(r, now) <= r.limit * r.window
          [] r.alg = "SLIDING_WINDOW_LOG" -> Admissions(k, now - r.window + 1, now) < r.limit

\* Types, and the bounds of what a key stores: no log, count or bucket grows
\* beyond the limit of its rule, in whatever order the times come.
TypeOK == /\ store \in Stores /\ rule \in RuleSets
          /\ clock \in 0..MaxTime /\ cleanupAt \in Int
          /\ call \in [Callers -> [group : Groups, now : Nat] \cup {None}]
          /\ admitted \in [Keys -> Seq(Nat)]
          /\ \A k \in Keys : LET s == items[k] IN
                /\ s.id \in Nat /\ s.at \in Nat /\ s.exp \in Nat
                /\ {s.current, s.previous, Len(s.events)} \subseteq 0..rule[k].limit
                /\ s.level \in 0..(rule[k].limit * rule[k].den)

\* The summary a key stores, its expiry, the sweep and the judging of groups
\* lose nothing: a group is let through exactly if every key of it has room by
\* the definition of its algorithm over all requests it ever let through
\* (both caches, as long as the memory cache judges in the order of the times).
DecisionsMatchHistory ==
    [][last' # None /\ ~late'
         => (last'.ok <=> \A k \in last'.group : HasRoom(k, last'.now))]_vars

\* The retry time a refusal names is honest: from then on, for as long as
\* nothing else is let through, the same group passes (rate_limit.go: the
\* retry computations of applyRateLimit and of the script, and the maximum
\* over the refused keys).
RetryIsHonest ==
    [][last' # None /\ ~late' /\ ~last'.ok
         => \A k \in last'.group : \A t \in 0..(2 * rule[k].window + 1) :
               LET then == last'.now + last'.retry + t
               IN  Apply(rule[k], Live(items'[k], then), then).ok]_vars

\* What "atomic" (the comment of TakeRateLimits, rate_limit.go:33) promises a
\* fixed window: it never lets through more than its limit.  The memory cache
\* does not keep it: a caller that read the clock before the window changed
\* resets the count of the new window.
FixedWindowKept ==
    \A k \in Keys : rule[k].alg = "FIXED_WINDOW" =>
        \A id \in 0..(clock \div rule[k].window) :
            Admissions(k, id * rule[k].window, (id + 1) * rule[k].window - 1) <= rule[k].limit
=============================================================================
