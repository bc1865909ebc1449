---------------------------- MODULE MCMixedFleet ----------------------------
EXTENDS MixedFleet, TLC

Symmetry == Permutations(Instance)
=============================================================================
