----------------------------- MODULE Replicator -----------------------------
(***************************************************************************)
(* The litestream processes of the control plane (backup/replicator.ts):   *)
(* one per running database, started and stopped by a 5 s reconcile timer, *)
(* by restart timers with backoff, by DELETE /databases/:id and by the     *)
(* shutdown of index.ts.  Two litestreams on one replica path corrupt it.  *)
(*                                                                         *)
(* Assumption: SIGKILL works within the 5 s that stop() waits for it.      *)
(***************************************************************************)
EXTENDS Naturals, FiniteSets

CONSTANTS
  Db,          \* database ids
  Proc,        \* Proc objects, each with the process it may spawn
  DbOf,        \* the database an object is used for
  None,        \* no entry
  MaxFailures, \* bound: launches that fail
  MaxBoot      \* bound: crashes and shutdowns of the control plane

ASSUME ReplicatorAssumption ==
  /\ IsFiniteSet(Db)
  /\ DbOf \in [Proc -> Db]
  /\ None \notin Proc
  /\ MaxFailures \in Nat
  /\ MaxBoot \in Nat

VARIABLES
  rows,      \* what listDatabases says
  del,       \* how far DELETE /databases/:id is
  pstate,    \* the litestream process of an object
  mode,
  procs,     \* the map
  child,     \* objects whose child is not null
  stopping,  \* objects with stopping = true
  timer,     \* objects with a restart timer
  stops,     \* stop() calls that wait: <<object, caller, attempt>>
  failures,
  boots

envVars == <<rows, del, boots>>
objVars == <<pstate, procs, child, stopping, timer, stops, failures>>
vars == <<envVars, mode, objVars>>

Row == {"other", "running", "deleting", "gone"}
Caller == {"reconcile", "delete", "shutdown"}

TypeOK ==
  /\ rows \in [Db -> Row]
  /\ del \in [Db -> {"idle", "kill", "stop"}]
  /\ pstate \in [Proc -> {"free", "alive", "ended"}]
  /\ mode \in {"down", "sweep", "swept", "up", "draining"}
  /\ procs \in [Db -> Proc \cup {None}]
  /\ child \in SUBSET Proc
  /\ stopping \in SUBSET Proc
  /\ timer \in SUBSET Proc
  /\ stops \in SUBSET (Proc \X Caller \X {1, 2})
  /\ failures \in Nat
  /\ boots \in Nat

Init ==
  /\ rows = [d \in Db |-> "other"]
  /\ del = [d \in Db |-> "idle"]
  /\ pstate = [p \in Proc |-> "free"]
  /\ mode = "swept"
  /\ procs = [d \in Db |-> None]
  /\ child = {}
  /\ stopping = {}
  /\ timer = {}
  /\ stops = {}
  /\ failures = 0
  /\ boots = 0

-----------------------------------------------------------------------------
(* The supervisor and the routes change the rows.  A row in "deleting"     *)
(* only goes away (Supervisor shows where the code breaks this).           *)

RowChanges(d) ==
  /\ rows[d] \in {"other", "running"}
  /\ \E s \in {"other", "running"} \ {rows[d]} : rows' = [rows EXCEPT ![d] = s]
  /\ UNCHANGED <<del, boots, mode, objVars>>

RequestDelete(d) ==
  /\ mode \in {"up", "draining"}
  /\ rows[d] # "gone" /\ del[d] = "idle"
  /\ rows' = [rows EXCEPT ![d] = "deleting"]
  /\ del' = [del EXCEPT ![d] = "kill"]
  /\ UNCHANGED <<boots, mode, objVars>>

-----------------------------------------------------------------------------
(* Launch.                                                                 *)

Entries == {d \in Db : procs[d] # None}

\* A new object: its process, timer and map entry are gone.
Fresh(p) ==
  /\ pstate[p] = "free"
  /\ p \notin timer
  /\ \A d \in Db : procs[d] # p

\* Databases reconcile() launches for.
Unserved == {d \in Db : rows[d] = "running" /\ procs[d] = None}

-----------------------------------------------------------------------------
(* stop().                                                                 *)

\* Mutant of Dropped: stop() forgets the entry without waiting for the exit.
DroppedAll(D) == D \cap Entries

\* Without a child there is nothing to wait for: the entry goes at once.
Dropped(D) == {d \in D \cap Entries : procs[d] \notin child}

\* Objects that stop() marks and signals.
Marked(D) == {procs[d] : d \in D \cap Entries}

Waiting(D, caller) == {<<p, caller, 1>> : p \in Marked(D) \cap child}

StopAll(D, caller) ==
  /\ procs' = [d \in Db |-> IF d \in Dropped(D) THEN None ELSE procs[d]]
  /\ stopping' = stopping \cup Marked(D)
  /\ timer' = timer \ Marked(D)
  /\ stops' = stops \cup Waiting(D, caller)

\* Mutant of StopTimesOut: SIGTERM is not followed by SIGKILL.
StopWaitsOn(s) ==
  /\ s \in stops /\ s[3] = 1
  /\ UNCHANGED vars

\* 10 s after SIGTERM: SIGKILL.
StopTimesOut(s) ==
  /\ s \in stops /\ s[3] = 1
  /\ stops' = (stops \ {s}) \cup {<<s[1], s[2], 2>>}
  /\ UNCHANGED <<envVars, mode, pstate, procs, child, stopping, timer, failures>>

-----------------------------------------------------------------------------
(* reconcile(): at the end of start() and every 5 s.                       *)

Stale == {d \in Entries : rows[d] # "running"}

\* safeLaunch catches a launch that throws (disk full, EACCES): the entry is
\* a placeholder with a restart timer.
Reconcile ==
  \E f \in [Unserved -> Proc], bad \in SUBSET Unserved :
    LET added == {f[d] : d \in Unserved}
        failed == {f[d] : d \in bad} IN
    /\ mode \in {"swept", "up"}
    /\ \A d \in Unserved : Fresh(f[d]) /\ DbOf[f[d]] = d
    /\ failures + Cardinality(bad) <= MaxFailures
    /\ mode' = "up"
    /\ procs' = [d \in Db |-> IF d \in Unserved THEN f[d]
                              ELSE IF d \in Dropped(Stale) THEN None ELSE procs[d]]
    /\ pstate' = [p \in Proc |-> IF p \in added \ failed THEN "alive" ELSE pstate[p]]
    /\ child' = child \cup (added \ failed)
    /\ stopping' = (stopping \ added) \cup Marked(Stale)
    /\ timer' = (timer \cup failed) \ Marked(Stale)
    /\ stops' = stops \cup Waiting(Stale, "reconcile")
    /\ failures' = failures + Cardinality(bad)
    /\ UNCHANGED envVars

-----------------------------------------------------------------------------
(* Restart timers.                                                         *)

\* The callback does nothing for an entry that was replaced or is being stopped
\* (which never happens: ObjInv).
Fires(p) ==
  /\ mode \in {"up", "draining"}
  /\ p \in timer
  /\ procs[DbOf[p]] = p /\ p \notin stopping

\* The database does not run any more.
TimerForgets(p) ==
  /\ Fires(p)
  /\ rows[DbOf[p]] # "running"
  /\ timer' = timer \ {p}
  /\ procs' = [procs EXCEPT ![DbOf[p]] = None]
  /\ UNCHANGED <<envVars, mode, pstate, child, stopping, stops, failures>>

\* The relaunch gets an object of its own.
TimerRelaunches(p, q) ==
  /\ Fires(p)
  /\ rows[DbOf[p]] = "running"
  /\ Fresh(q) /\ DbOf[q] = DbOf[p]
  /\ timer' = timer \ {p}
  /\ procs' = [procs EXCEPT ![DbOf[p]] = q]
  /\ pstate' = [pstate EXCEPT ![q] = "alive"]
  /\ child' = child \cup {q}
  /\ stopping' = stopping \ {q}
  /\ UNCHANGED <<envVars, mode, stops, failures>>

\* The relaunch throws: the object stays and its timer is set again.
TimerRelaunchFails(p) ==
  /\ Fires(p)
  /\ rows[DbOf[p]] = "running"
  /\ failures < MaxFailures
  /\ failures' = failures + 1
  /\ UNCHANGED <<envVars, mode, pstate, procs, child, stopping, timer, stops>>

-----------------------------------------------------------------------------
(* Exits.                                                                  *)

\* Killed, told to end, crashed, or never started (the "error" event).
Dies(p) ==
  /\ pstate[p] = "alive"
  /\ pstate' = [pstate EXCEPT ![p] = IF p \in child THEN "ended" ELSE "free"]
  /\ UNCHANGED <<envVars, mode, procs, child, stopping, timer, stops, failures>>

\* Mutant of Rearmed: nobody restarts what ended by itself.
RearmedNever(p) == timer \ {p}

\* onEnd: an end nobody asked for is followed by a restart.
Rearmed(p) == IF p \in stopping THEN timer ELSE timer \cup {p}

\* onEnd, and the stop() calls that wait for it: each deletes the map entry.
ExitHandled(p) ==
  LET calls == {s \in stops : s[1] = p} IN
  /\ mode \in {"up", "draining"}
  /\ pstate[p] = "ended"
  /\ pstate' = [pstate EXCEPT ![p] = "free"]
  /\ child' = child \ {p}
  /\ timer' = Rearmed(p)
  /\ stops' = stops \ calls
  /\ procs' = IF calls = {} THEN procs ELSE [procs EXCEPT ![DbOf[p]] = None]
  /\ UNCHANGED <<envVars, mode, stopping, failures>>

-----------------------------------------------------------------------------
(* DELETE /databases/:id and the shutdown.                                 *)

Waits(d, caller) == \E s \in stops : DbOf[s[1]] = d /\ s[2] = caller

\* Mutant of DeleteStops: a stop in progress is not waited for.
DeleteStopsIfServed(d) ==
  /\ mode \in {"up", "draining"}
  /\ del[d] = "kill"
  /\ del' = [del EXCEPT ![d] = "stop"]
  /\ StopAll(IF procs[d] \in stopping THEN {} ELSE {d}, "delete")
  /\ UNCHANGED <<rows, boots, mode, pstate, child, failures>>

\* killByDbId is over: backup.stop(row.id, { removeConfig: true }).
DeleteStops(d) ==
  /\ mode \in {"up", "draining"}
  /\ del[d] = "kill"
  /\ del' = [del EXCEPT ![d] = "stop"]
  /\ StopAll({d}, "delete")
  /\ UNCHANGED <<rows, boots, mode, pstate, child, failures>>

\* backup.stop has returned: files and row go.
DeleteRemoves(d) ==
  /\ mode \in {"up", "draining"}
  /\ del[d] = "stop" /\ ~Waits(d, "delete")
  /\ del' = [del EXCEPT ![d] = "idle"]
  /\ rows' = [rows EXCEPT ![d] = "gone"]
  /\ UNCHANGED <<boots, mode, objVars>>

\* Mutant of ShutdownKeys: entries that already are being stopped are left out.
ShutdownServed == {d \in Entries : procs[d] \notin stopping}

ShutdownKeys == Entries

\* replicator.shutdown(), after the one of the supervisor.
Shutdown ==
  /\ mode = "up" /\ boots < MaxBoot
  /\ mode' = "draining"
  /\ StopAll(ShutdownKeys, "shutdown")
  /\ UNCHANGED <<envVars, pstate, child, failures>>

\* The memory is lost; processes live on, and are not our children any more.
PlaneGone ==
  /\ boots < MaxBoot
  /\ boots' = boots + 1
  /\ mode' = "down"
  /\ del' = [d \in Db |-> "idle"]
  /\ pstate' = [p \in Proc |-> IF pstate[p] = "ended" THEN "free" ELSE pstate[p]]
  /\ procs' = [d \in Db |-> None]
  /\ child' = {}
  /\ stopping' = {}
  /\ timer' = {}
  /\ stops' = {}
  /\ UNCHANGED <<rows, failures>>

Crash == mode # "down" /\ PlaneGone

\* process.exit(0), once every stop() of the shutdown has returned.
Exits ==
  /\ mode = "draining"
  /\ \A d \in Db : ~Waits(d, "shutdown")
  /\ PlaneGone

\* sweepOrphans: TERM to every litestream of our config directory ...
SweepBegins ==
  /\ mode = "down"
  /\ mode' = "sweep"
  /\ UNCHANGED <<envVars, objVars>>

\* ... and KILL to what is left of them after 10 s.
SweepEnds ==
  /\ mode = "sweep"
  /\ mode' = "swept"
  /\ pstate' = [p \in Proc |-> "free"]
  /\ UNCHANGED <<envVars, procs, child, stopping, timer, stops, failures>>

-----------------------------------------------------------------------------
TimerStep(p) ==
  \/ TimerForgets(p)
  \/ \E q \in Proc : TimerRelaunches(p, q)
  \/ TimerRelaunchFails(p)

PlaneStep == Shutdown \/ Crash \/ Exits \/ SweepBegins \/ SweepEnds

Next ==
  \/ \E d \in Db : RowChanges(d) \/ RequestDelete(d) \/ DeleteStops(d) \/ DeleteRemoves(d)
  \/ Reconcile
  \/ \E s \in stops : StopTimesOut(s)
  \/ \E p \in Proc : TimerStep(p)
  \/ \E p \in Proc : Dies(p) \/ ExitHandled(p)
  \/ PlaneStep

Spec == Init /\ [][Next]_vars

(* Timers fire, exit events are delivered, SIGKILL kills.                  *)
Fairness ==
  /\ WF_vars(Reconcile)
  /\ \A p \in Proc : /\ WF_vars(TimerStep(p))
                     /\ WF_vars(ExitHandled(p))
                     /\ WF_vars((\E c \in Caller : <<p, c, 2>> \in stops) /\ Dies(p))
                     /\ \A c \in Caller : WF_vars(StopTimesOut(<<p, c, 1>>))

FairSpec == Spec /\ Fairness

-----------------------------------------------------------------------------
(* Safety.                                                                 *)

Replicating(d) == {p \in Proc : pstate[p] = "alive" /\ DbOf[p] = d}

\* Two litestreams never write to one replica path once the sweep is over:
\* stop, start, restart timers, reconcile and crashes at any point included.
OneWriterPerReplica ==
  mode \in {"swept", "up", "draining"} =>
    \A d \in Db : \A p, q \in Replicating(d) : p = q

\* The data directory goes only after litestream has flushed and gone, also
\* when reconcile() was already stopping it (routes.ts, DELETE).
RemovesQuietDirs ==
  [][\A d \in Db : DeleteRemoves(d) => Replicating(d) = {}]_vars

\* A shutdown that runs to its end leaves no litestream behind.
ExitsClean == [][Exits => \A d \in Db : Replicating(d) = {}]_vars

-----------------------------------------------------------------------------
(* Why they hold.                                                          *)

\* Objects the map has lost have no process, timer or stop() call.
ObjInv ==
  \A p \in Proc :
    /\ mode \in {"swept", "up", "draining"} /\ pstate[p] # "free"
         => p \in child /\ procs[DbOf[p]] = p
    /\ p \in child => pstate[p] # "free" /\ procs[DbOf[p]] = p
    /\ p \in timer => procs[DbOf[p]] = p /\ p \notin child /\ p \notin stopping

EntryInv ==
  /\ \A d \in Db : procs[d] # None => DbOf[procs[d]] = d
  /\ mode \in {"down", "sweep", "swept"} =>
       \A d \in Db : procs[d] = None /\ del[d] = "idle"
  /\ \A s \in stops : s[1] \in child /\ s[1] \in stopping

\* A stop() that was called is over, or waits for the entry's object.
StopInv ==
  /\ \A d \in Db : del[d] # "idle" => rows[d] = "deleting"
  /\ \A d \in Db : del[d] = "stop" => procs[d] = None \/ Waits(d, "delete")
  /\ mode = "draining" => \A d \in Db : procs[d] = None \/ Waits(d, "shutdown")

EntriesAgree == ObjInv /\ EntryInv /\ StopInv

-----------------------------------------------------------------------------
(* Liveness, under Fairness.                                               *)

\* A database that stays running is replicated again and again, whatever
\* crashes and failing launches come between.
RunningIsReplicated ==
  \A d \in Db : <>[](rows[d] = "running" /\ mode = "up") => []<>(Replicating(d) # {})

\* Replication of a database that stays away from "running" ends.
StoppedIsReleased ==
  \A d \in Db : <>[](rows[d] # "running" /\ mode = "up") => <>[](Replicating(d) = {})
=============================================================================
