----------------------------- MODULE MCSessions -----------------------------
EXTENDS Sessions, TLC
CONSTANTS u1, u2, c1, c2
Symmetry == Permutations(Calls)
=============================================================================
