----------------------------- MODULE MCRebuild -----------------------------
(* Rebuild on two databases and two command processes. *)
EXTENDS Rebuild, TLC

CONSTANTS d1, d2, c1, c2
Symmetry == Permutations({d1, d2}) \cup Permutations({c1, c2})
============================================================================
