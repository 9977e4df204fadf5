------------------------------ MODULE MCMirror ------------------------------
EXTENDS Mirror, TLC
Sizes == [v \in Versions |-> v]
Symmetry == Permutations(Requests)
=============================================================================
