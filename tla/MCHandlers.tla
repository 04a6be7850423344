---------------------------- MODULE MCHandlers -----------------------------
EXTENDS Handlers, TLC
Symmetry == Permutations(Sessions) \cup Permutations(Relations)
=============================================================================
