---- MODULE MCOneTimeCodes ----
EXTENDS OneTimeCodes, TLC
CONSTANTS r1, r2
Symmetry == Permutations(Requests)
====
