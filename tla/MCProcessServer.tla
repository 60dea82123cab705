--------------------------- MODULE MCProcessServer ---------------------------
EXTENDS ProcessServer, TLC

Symmetry == Permutations(Calls)
=============================================================================
