------------------------------ MODULE MCHealth ------------------------------
EXTENDS Health

CONSTANTS d1

None == [e \in Event \cup {"tick"} |-> 0]

\* A replica that is watched; one whose litestream, sqld or server stops between;
\* and the backup of the control plane with verifications and a restart.
MCBounds ==
  {[None EXCEPT !["tick"] = 4, !["line"] = 4, !["write"] = 1, !["upload"] = 1, !["verify"] = 1],
   [None EXCEPT !["tick"] = 3, !["line"] = 2, !["error"] = 1, !["write"] = 1, !["die"] = 1,
                !["flip"] = 1, !["upload"] = 1],
   [None EXCEPT !["tick"] = 5, !["upload"] = 2, !["verify"] = 1, !["restart"] = 1, !["line"] = 1]}
=============================================================================
