-------------------------- MODULE MCRunPersistence --------------------------
EXTENDS RunPersistence, TLC
Symmetry == Permutations(Processes) \cup Permutations(Steps) \cup Permutations(Inodes)
=============================================================================
