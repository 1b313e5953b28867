---------------------------- MODULE MCRateLimit -----------------------------
EXTENDS RateLimit, TLC

CONSTANTS k1, k2

A(alg, limit, window, num, den) ==
    [alg |-> alg, limit |-> limit, window |-> window, num |-> num, den |-> den]

Bucket   == A("TOKEN_BUCKET", 2, 3, 2, 3)
Leaky    == A("LEAKY_BUCKET", 2, 3, 3, 4)
Fixed    == A("FIXED_WINDOW", 2, 2, 1, 1)
Counter  == A("SLIDING_WINDOW_COUNTER", 2, 2, 1, 1)
EventLog == A("SLIDING_WINDOW_LOG", 2, 3, 1, 1)

\* Every algorithm, and pairs of different ones for groups.
MCRules == {k1 :> Bucket @@ k2 :> Fixed, k1 :> Counter @@ k2 :> Leaky, k1 :> EventLog @@ k2 :> Bucket}
MCWindows == {k1 :> Fixed @@ k2 :> Fixed}
=============================================================================
