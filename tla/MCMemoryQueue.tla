---------------------------- MODULE MCMemoryQueue ----------------------------
EXTENDS MemoryQueue, TLC

\* All messages go to one stream: streams share nothing but the map.
OneStream == [m \in Msgs |-> CHOOSE s \in Streams : TRUE]

Symmetry == Permutations(Msgs) \cup Permutations(Producers) \cup Permutations(Consumers)
=============================================================================
