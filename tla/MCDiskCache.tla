---------------------------- MODULE MCDiskCache ----------------------------
EXTENDS DiskCache, TLC
CONSTANTS k1, k2
TwoVersions == 1 .. 2
Sizes       == <<2, 1>>
Symmetry    == Permutations(Workers)
=============================================================================
