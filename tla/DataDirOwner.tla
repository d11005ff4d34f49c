---------------------------- MODULE DataDirOwner ----------------------------
(***************************************************************************)
(* What the supervisor promises about data directories, without saying     *)
(* how: while the API serves, a database's directory has at most one       *)
(* writer, and a new writer appears only where there is none.  Nothing is  *)
(* promised while the control plane is down, boots or exits.               *)
(***************************************************************************)
EXTENDS FiniteSets

CONSTANTS Db, Pid

VARIABLES
  open,      \* the promise holds
  writers    \* the sqld processes of each database; {} while not open

vars == <<open, writers>>

None == [d \in Db |-> {}]

AtMostOne(ps) == \A p, q \in ps : p = q

Init == open = TRUE /\ writers = None

\* A boot ends: whatever it adopted or launched, one per directory.
Open ==
  /\ ~open
  /\ open' = TRUE
  /\ writers' \in [Db -> SUBSET Pid]
  /\ \A d \in Db : AtMostOne(writers'[d])

Close == open /\ open' = FALSE /\ writers' = None

Launch(d, p) ==
  /\ open
  /\ writers[d] = {}
  /\ writers' = [writers EXCEPT ![d] = {p}]
  /\ UNCHANGED open

Exit(d) ==
  /\ open
  /\ writers' = [writers EXCEPT ![d] = {}]
  /\ UNCHANGED open

Next ==
  \/ Open
  \/ Close
  \/ \E d \in Db, p \in Pid : Launch(d, p)
  \/ \E d \in Db : Exit(d)

Spec == Init /\ [][Next]_vars
=============================================================================
