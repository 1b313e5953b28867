------------------------------ MODULE MCHPTimer ------------------------------
EXTENDS HPTimer, TLC

CONSTANTS r1, s1, s2   \* a repeating task; a one-shot task with its ID; another task

MCIdOf == [t \in Tasks |-> IF t = s2 THEN "b" ELSE "a"]
MCInterval == [t \in Tasks |-> IF t = r1 THEN 1 ELSE 0]
NoneAwaits == [t \in Tasks |-> FALSE]

CallerSymmetry == Permutations(Callers)
=============================================================================
