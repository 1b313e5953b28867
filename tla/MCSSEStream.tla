----------------------------- MODULE MCSSEStream -----------------------------
EXTENDS SSEStream

CONSTANTS e1, e2

\* The publisher of e1 sets an ID, the one a count of the entries would give to
\* e2, which the stream numbers.
MCOwnId == [e \in Events |-> IF e = e1 THEN 2 ELSE 0]
MCBlanks == {{}, {e2}}
=============================================================================
