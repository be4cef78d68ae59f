---------------------------- MODULE MCSharedArena ----------------------------
\* SharedArena for TLC: the constants are given in the configurations.
EXTENDS SharedArena, TLC

Symmetry == Permutations(Ref) \cup Permutations(Thread \ Owner)
=============================================================================
