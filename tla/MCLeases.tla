----------------------------- MODULE MCLeases -----------------------------
EXTENDS Leases, TLC

Symmetry == Permutations(Mac) \cup Permutations(Instance \ NoDhcp)
=============================================================================
