--------------------------- MODULE MCVerifyQueue ---------------------------
(* VerifyQueue on two databases. *)
EXTENDS VerifyQueue, TLC

CONSTANTS d1, d2
============================================================================
