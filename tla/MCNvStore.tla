------------------------------- MODULE MCNvStore -------------------------------
EXTENDS NvStore, TLC

Symmetry == Permutations(Items) \cup Permutations(Values)
=============================================================================
