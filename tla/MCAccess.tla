------------------------------ MODULE MCAccess ------------------------------
EXTENDS Access, TLC

CONSTANTS d1, d2, d3, r1, r2, r3

Symmetry == Permutations(Db) \cup Permutations(Req)

Requests(c, s, m, d, f, k) ==
  [create |-> c, start |-> s, mint |-> m, delete |-> d, forward |-> f, crash |-> k]

\* First uses of a key that meet, and one that a crash cuts; pairs that change
\* hands; a gateway request whose port does; tokens while DELETE runs.
ManyBounds == {Requests(1, 0, 2, 0, 1, 1), Requests(3, 0, 0, 2, 0, 0),
               Requests(2, 0, 1, 1, 1, 0), Requests(1, 1, 1, 1, 1, 0)}
=============================================================================
