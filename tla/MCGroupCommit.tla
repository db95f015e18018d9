--------------------------- MODULE MCGroupCommit ---------------------------
EXTENDS GroupCommit, TLC

CONSTANTS c1, c2, c3

MCSymmetry == Permutations(Clients)
=============================================================================
