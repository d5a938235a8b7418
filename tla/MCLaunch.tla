------------------------------ MODULE MCLaunch ------------------------------
EXTENDS Launch, TLC

\* The starts are told apart by nothing but their names.
Symmetry == Permutations(Flows)
=============================================================================
