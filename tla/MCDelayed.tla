----------------------------- MODULE MCDelayed -----------------------------
EXTENDS Delayed

CONSTANTS v1, v2, v3, i1, i2

\* Two messages under one ID, and one under another.
MCIdOf == [v \in Versions |-> IF v = v3 THEN i2 ELSE i1]
=============================================================================
