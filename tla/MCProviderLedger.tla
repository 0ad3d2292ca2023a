-------------------------- MODULE MCProviderLedger --------------------------
EXTENDS ProviderLedger, TLC
Symmetry == Permutations(Runners)
=============================================================================
