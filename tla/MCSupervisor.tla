---------------------------- MODULE MCSupervisor ----------------------------
(***************************************************************************)
(* Supervisor for TLC.  Requests are interchangeable, and so are pids: no  *)
(* definition orders them, so the safety runs quotient by both.  The       *)
(* liveness run uses no symmetry.                                          *)
(***************************************************************************)
EXTENDS Supervisor, TLC

Symmetry == Permutations(Req) \cup Permutations(Pid)
=============================================================================
