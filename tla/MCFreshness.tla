---------------------------- MODULE MCFreshness ----------------------------
EXTENDS Freshness, TLC
Symmetry  == Permutations(Requests)
Different == {<<1, 2>>}
SameOrNot == {<<1, 1>>} \cup Different
=============================================================================
