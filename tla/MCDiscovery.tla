---------------------------- MODULE MCDiscovery ----------------------------
EXTENDS Discovery, TLC

Symmetry == Permutations(Round)

=============================================================================
