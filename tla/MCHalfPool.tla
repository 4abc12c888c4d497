----------------------------- MODULE MCHalfPool -----------------------------
EXTENDS HalfPool, TLC

Symmetry == Permutations(Callers)
=============================================================================
