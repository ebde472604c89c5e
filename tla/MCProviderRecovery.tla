------------------------ MODULE MCProviderRecovery ------------------------
EXTENDS ProviderRecovery, TLC

Symmetry == Permutations(Recoverers) \cup Permutations(Contents)
=============================================================================
