---------------------------- MODULE MCChangefeed ----------------------------
EXTENDS Changefeed, TLC

Symmetry == Permutations(Subs)
=============================================================================
