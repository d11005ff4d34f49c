------------------------------ MODULE MCLogin -------------------------------
EXTENDS Login, TLC

CONSTANTS a1, a2, ip1, ip2

Symmetry == Permutations(Ip) \cup Permutations(Try)
=============================================================================
