---------------------------- MODULE MCUserToken -----------------------------
EXTENDS UserToken, TLC

CONSTANTS w1, w2, w3, s1, s2

MCSymmetry == Permutations(Workers) \cup Permutations(Sessions)
=============================================================================
