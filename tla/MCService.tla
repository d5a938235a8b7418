----------------------------- MODULE MCService -----------------------------
EXTENDS Service, TLC
CallerSymmetry == Permutations(Callers)
=============================================================================
