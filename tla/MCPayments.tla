---- MODULE MCPayments ----
EXTENDS Payments, TLC
CONSTANTS r1, r2, o1, o2
Symmetry == Permutations(Requests) \cup Permutations(Payouts)
====
