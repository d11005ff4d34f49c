------------------------------- MODULE MCJobs -------------------------------
EXTENDS Jobs

CONSTANTS t1, t2, w1

None == [e \in Event |-> 0]

\* A restore from a source that goes on; a restore and an import that a crash
\* cuts short, with deletes; an import from a directory that changes; a restore
\* beside an import; and a restore started and stopped by hand, with a delete and
\* crashes.
MCBounds ==
  {[None EXCEPT !["restore"] = 1, !["tick"] = 3, !["commit"] = 2, !["compact"] = 1],
   [None EXCEPT !["restore"] = 1, !["delete"] = 2, !["crash"] = 2, !["commit"] = 1,
                !["outage"] = 1],
   [None EXCEPT !["import"] = 1, !["delete"] = 2, !["crash"] = 2, !["leave"] = 1,
                !["drop"] = 2],
   [None EXCEPT !["restore"] = 1, !["import"] = 1, !["commit"] = 1, !["leave"] = 1],
   [None EXCEPT !["restore"] = 1, !["delete"] = 1, !["crash"] = 2, !["commit"] = 1,
                !["start"] = 2, !["stop"] = 1]}
=============================================================================
