-------------------------- MODULE MCControlBackup ---------------------------
(* Instances of ControlBackup for TLC. *)
EXTENDS ControlBackup

CONSTANTS c1, c2

\* Restarts and failures, a clock that may step back, a CLI that backs up
\* beside the server.
MCBudgets == {[cli |-> 1, fail |-> 1, boot |-> 1, run |-> 0, clock |-> 0],
              [cli |-> 0, fail |-> 1, boot |-> 0, run |-> 0, clock |-> 1],
              [cli |-> 0, fail |-> 0, boot |-> 1, run |-> 1, clock |-> 0]}
=============================================================================
