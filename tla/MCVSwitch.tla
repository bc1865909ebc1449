----------------------------- MODULE MCVSwitch -----------------------------
EXTENDS VSwitch, TLC

Symmetry == Permutations(Conn) \cup Permutations(UpCaller)
=============================================================================
