-------------------------- MODULE MCSessionStatus --------------------------
EXTENDS SessionStatus, TLC
RequestSymmetry == Permutations(Callers) \cup Permutations(Tasks)
=============================================================================
