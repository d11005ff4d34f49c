----------------------------- MODULE Supervisor -----------------------------
(***************************************************************************)
(* The sqld supervisor of the control plane (supervisor/supervisor.ts),    *)
(* with the launcher it calls (supervisor/launcher.ts), the routes that    *)
(* call it (http/routes.ts), the restore/import jobs that hand it a row    *)
(* (backup/restore.ts, backup/import.ts) and the boot and shutdown code    *)
(* around it (index.ts).                                                   *)
(*                                                                         *)
(* Three kinds of state meet here: the metadata rows, which survive        *)
(* everything; the operating system's process table, which survives the    *)
(* control plane; and the supervisor's maps, which die with it.  One step  *)
(* is one stretch of code between two awaits.                              *)
(***************************************************************************)
EXTENDS Naturals, Sequences, FiniteSets

CONSTANTS
  Db,        \* database ids
  Req,       \* API requests; each is issued at most once
  Boot,      \* the thread that runs reconcile()
  Pid,       \* process ids
  NoPid,     \* a NULL pid
  Foreign,   \* the owner of a process that is not ours
  Kinds,     \* which requests clients send
  MaxClock,  \* bound: process starts, which also is the start_time clock
  MaxBoot    \* bound: restarts of the control plane

AllKinds == {"create", "start", "stop", "delete", "restore"}

ASSUME ConstAssumption ==
  /\ Boot \notin Req
  /\ NoPid \notin Pid
  /\ Foreign \notin Db
  /\ Kinds \subseteq AllKinds
  /\ MaxClock \in Nat
  /\ MaxBoot \in Nat

Thread == Req \cup {Boot}

VARIABLES
  \* metadata rows
  status,        \* "absent": never created, "gone": deleted
  auto_start,    \* auto_start = 1
  failed_reason, \* what the failed_reason text starts with
  row_pid,
  row_start,     \* start_time
  pending,       \* a restore/import target whose data file is not in place
  \* operating system
  pstate,
  pstart,        \* start time in /proc
  powner,        \* the database named by --db-path
  pterm,         \* SIGTERM was sent
  clock,
  \* memory of the control plane
  mode,
  mine,          \* processes whose parent is this control plane
  registry,
  children,
  adoptedPids,
  watch,         \* running watchAdopted timers, as <<pid, dbId>>
  locks,         \* withLock: the operations chained on each database
  todo,          \* rows reconcile() has still to visit
  awaited,       \* processes shutdown() waits for
  boots,
  termed,        \* the pids the sweep sent SIGTERM to, a second ago
  \* requests and the boot thread
  pc,
  kind,
  target,
  tpid           \* the child a thread has launched or is terminating

rowVars == <<status, auto_start, failed_reason, row_pid, row_start, pending>>
osVars == <<pstate, pstart, powner, pterm, clock>>
memVars == <<mode, mine, registry, children, adoptedPids, watch, locks, todo,
             awaited, boots, termed>>
threadVars == <<pc, kind, target, tpid>>
vars == <<rowVars, osVars, memVars, threadVars>>

Status == {"absent", "gone", "starting", "running", "stopped", "crashed",
           "failed", "deleting", "restoring"}
Reason == {"none", "launch", "bound", "restore"}
PState == {"free", "booting", "ready", "zombie"}
Mode == {"down", "boot", "sweep", "up", "stopping", "drained"}
PC == {"idle", "queued", "key", "wait", "answered", "reap", "termChild",
       "termAdopted", "rm", "drop", "fetch", "done"}
StartKinds == {"create", "start", "restore", "boot"}

TypeOK ==
  /\ status \in [Db -> Status]
  /\ auto_start \in [Db -> BOOLEAN]
  /\ failed_reason \in [Db -> Reason]
  /\ row_pid \in [Db -> Pid \cup {NoPid}]
  /\ row_start \in [Db -> Nat]
  /\ pending \in [Db -> BOOLEAN]
  /\ pstate \in [Pid -> PState]
  /\ pstart \in [Pid -> Nat]
  /\ powner \in [Pid -> Db \cup {Foreign}]
  /\ pterm \in [Pid -> BOOLEAN]
  /\ clock \in Nat
  /\ mode \in Mode
  /\ mine \in SUBSET Pid
  /\ registry \in SUBSET Pid
  /\ children \in [Db -> Pid \cup {NoPid}]
  /\ adoptedPids \in [Db -> Pid \cup {NoPid}]
  /\ watch \in SUBSET (Pid \X Db)
  /\ locks \in [Db -> Seq(Thread)]
  /\ todo \in SUBSET Db
  /\ awaited \in SUBSET Pid
  /\ boots \in Nat
  /\ termed \in SUBSET Pid
  /\ pc \in [Thread -> PC]
  /\ kind \in [Thread -> AllKinds \cup {"boot"}]
  /\ target \in [Thread -> Db]
  /\ tpid \in [Thread -> Pid \cup {NoPid}]

-----------------------------------------------------------------------------
Exists(d) == status[d] \notin {"absent", "gone"}

\* pidAlive: in /proc and not a zombie.
Alive(p) == pstate[p] \in {"booting", "ready"}

Sqlds(d) == {p \in Pid : Alive(p) /\ powner[p] = d}

\* A probe of the database's port is answered: somebody listens on it.
PortHeld(d) == \E p \in Sqlds(d) : pstate[p] = "ready"

AdoptedAlive(d) == adoptedPids[d] # NoPid /\ Alive(adoptedPids[d])

Serving == mode \in {"up", "stopping", "drained"}

\* RestoreService.jobs / ImportService.jobs
IsRestoring(d) ==
  \E t \in Req : kind[t] = "restore" /\ target[t] = d /\ pc[t] \notin {"idle", "done"}

\* assertNotRestoreTarget lets the request through.
NotRestoreTarget(d) ==
  /\ status[d] # "restoring"
  /\ ~IsRestoring(d)
  /\ ~(status[d] = "failed" /\ failed_reason[d] = "restore")

\* withLock: t's operation runs when everything chained before it has settled.
Holds(t) == locks[target[t]] # <<>> /\ Head(locks[target[t]]) = t

Enqueue(t, d) == locks' = [locks EXCEPT ![d] = Append(@, t)]

Release(t) == locks' = [locks EXCEPT ![target[t]] = Tail(@)]

\* Mutant of Done: reconcile() does not go on after a relaunch.
DoneForGood(t) == IF t \in Thread THEN "done" ELSE "idle"

Done(t) == IF t = Boot THEN "idle" ELSE "done"

\* UPDATE ... WHERE id = d touches no row once the row is deleted.
SetStatus(d, s) ==
  status' = [status EXCEPT ![d] = IF Exists(d) THEN s ELSE @]

\* clearRuntime
ClearRuntime(d) ==
  /\ row_pid' = [row_pid EXCEPT ![d] = NoPid]
  /\ row_start' = [row_start EXCEPT ![d] = 0]

\* markCrashedIfLive
MarkCrashedIfLive(d) ==
  IF status[d] \in {"running", "starting"}
  THEN SetStatus(d, "crashed") /\ ClearRuntime(d)
  ELSE UNCHANGED <<status, row_pid, row_start>>

Init ==
  /\ status = [d \in Db |-> "absent"]
  /\ auto_start = [d \in Db |-> FALSE]
  /\ failed_reason = [d \in Db |-> "none"]
  /\ row_pid = [d \in Db |-> NoPid]
  /\ row_start = [d \in Db |-> 0]
  /\ pending = [d \in Db |-> FALSE]
  /\ pstate = [p \in Pid |-> "free"]
  /\ pstart = [p \in Pid |-> 0]
  /\ powner = [p \in Pid |-> Foreign]
  /\ pterm = [p \in Pid |-> FALSE]
  /\ clock = 0
  /\ mode = "up"
  /\ mine = {}
  /\ registry = {}
  /\ children = [d \in Db |-> NoPid]
  /\ adoptedPids = [d \in Db |-> NoPid]
  /\ watch = {}
  /\ locks = [d \in Db |-> <<>>]
  /\ todo = {}
  /\ awaited = {}
  /\ boots = 0
  /\ termed = {}
  /\ pc = [t \in Thread |-> "idle"]
  /\ kind = [t \in Thread |-> IF t = Boot THEN "boot" ELSE "start"]
  /\ target \in {[t \in Thread |-> d] : d \in Db}
  /\ tpid = [t \in Thread |-> NoPid]

-----------------------------------------------------------------------------
(* The API routes, up to their first await. *)

Arrive(t, k, d, at) ==
  /\ Serving
  /\ pc[t] = "idle"
  /\ k \in Kinds
  /\ kind' = [kind EXCEPT ![t] = k]
  /\ target' = [target EXCEPT ![t] = d]
  /\ pc' = [pc EXCEPT ![t] = at]
  /\ UNCHANGED <<tpid, osVars, mode, mine, registry, children, adoptedPids,
                 watch, todo, awaited, boots, termed>>

\* POST /workspaces/:id/databases
RequestCreate(t, d) ==
  /\ status[d] = "absent"
  /\ status' = [status EXCEPT ![d] = "starting"]
  /\ auto_start' = [auto_start EXCEPT ![d] = TRUE]
  /\ Enqueue(t, d)
  /\ Arrive(t, "create", d, "queued")
  /\ UNCHANGED <<failed_reason, row_pid, row_start, pending>>

\* POST /databases/:id/start
RequestStart(t, d) ==
  /\ Exists(d)
  /\ status[d] # "deleting"
  /\ NotRestoreTarget(d)
  /\ Enqueue(t, d)
  /\ Arrive(t, "start", d, "queued")
  /\ UNCHANGED rowVars

\* POST /databases/:id/stop
RequestStop(t, d) ==
  /\ Exists(d)
  /\ status[d] # "deleting"
  /\ NotRestoreTarget(d)
  /\ Enqueue(t, d)
  /\ Arrive(t, "stop", d, "queued")
  /\ UNCHANGED rowVars

\* DELETE /databases/:id; a row that already is "deleting" is accepted again.
RequestDelete(t, d) ==
  /\ Exists(d)
  /\ ~IsRestoring(d)
  /\ status' = [status EXCEPT ![d] = "deleting"]
  /\ Enqueue(t, d)
  /\ Arrive(t, "delete", d, "queued")
  /\ UNCHANGED <<auto_start, failed_reason, row_pid, row_start, pending>>

\* POST /backups/:id/restore and POST /workspaces/:id/databases/import
RequestRestore(t, d) ==
  /\ status[d] = "absent"
  /\ status' = [status EXCEPT ![d] = "restoring"]
  /\ pending' = [pending EXCEPT ![d] = TRUE]
  /\ Arrive(t, "restore", d, "fetch")
  /\ UNCHANGED <<auto_start, failed_reason, row_pid, row_start, locks>>

\* The job's fail(): download, verification or placement went wrong.
RestoreFails(t) ==
  /\ pc[t] = "fetch"
  /\ SetStatus(target[t], "failed")
  /\ failed_reason' = [failed_reason EXCEPT ![target[t]] = "restore"]
  /\ pc' = [pc EXCEPT ![t] = "done"]
  /\ UNCHANGED <<auto_start, row_pid, row_start, pending, osVars, memVars,
                 kind, target, tpid>>

\* The file is verified and renamed into place; the row goes to the supervisor.
RestorePlaces(t) ==
  /\ pc[t] = "fetch"
  /\ pending' = [pending EXCEPT ![target[t]] = FALSE]
  /\ auto_start' = [auto_start EXCEPT ![target[t]] = TRUE]
  /\ SetStatus(target[t], "starting")
  /\ Enqueue(t, target[t])
  /\ pc' = [pc EXCEPT ![t] = "queued"]
  /\ UNCHANGED <<failed_reason, row_pid, row_start, osVars, mode, mine,
                 registry, children, adoptedPids, watch, todo, awaited, boots, termed,
                 kind, target, tpid>>

-----------------------------------------------------------------------------
(* startDatabaseLocked and launchSqld.                                     *)

\* What the caller of startDatabase does with ok = false.
CallerRecordsFailure(t) ==
  LET d == target[t] IN
  /\ IF kind[t] \in {"restore", "boot"}
     THEN SetStatus(d, "failed") ELSE UNCHANGED status
  /\ failed_reason' =
       IF kind[t] = "restore" THEN [failed_reason EXCEPT ![d] = "restore"]
                              ELSE failed_reason

StartRefused(t) ==
  /\ pc[t] = "queued" /\ kind[t] \in StartKinds /\ Holds(t)
  /\ \/ ~Exists(target[t])
     \/ status[target[t]] \in {"deleting", "restoring"}
  /\ CallerRecordsFailure(t)
  /\ Release(t)
  /\ pc' = [pc EXCEPT ![t] = Done(t)]
  /\ UNCHANGED <<auto_start, row_pid, row_start, pending, osVars, mode, mine,
                 registry, children, adoptedPids, watch, todo, awaited, boots, termed,
                 kind, target, tpid>>

StartChecked(t) ==
  /\ pc[t] = "queued" /\ kind[t] \in StartKinds /\ Holds(t)
  /\ Exists(target[t])
  /\ status[target[t]] \notin {"deleting", "restoring"}

StartAlreadyRunning(t) ==
  /\ StartChecked(t)
  /\ children[target[t]] # NoPid \/ AdoptedAlive(target[t])
  /\ Release(t)
  /\ pc' = [pc EXCEPT ![t] = Done(t)]
  /\ UNCHANGED <<rowVars, osVars, mode, mine, registry, children, adoptedPids,
                 watch, todo, awaited, boots, termed, kind, target, tpid>>

\* Mutant of StartAccepted: adopted processes are forgotten.
StartAcceptedByChildOnly(t) ==
  /\ StartChecked(t)
  /\ children[target[t]] = NoPid
  /\ pc' = [pc EXCEPT ![t] = "key"]
  /\ UNCHANGED <<rowVars, osVars, memVars, kind, target, tpid>>

\* The row was checked; the code now awaits ensureDbKey.
StartAccepted(t) ==
  /\ StartChecked(t)
  /\ children[target[t]] = NoPid /\ ~AdoptedAlive(target[t])
  /\ pc' = [pc EXCEPT ![t] = "key"]
  /\ UNCHANGED <<rowVars, osVars, memVars, kind, target, tpid>>

\* The kernel starts a process of `owner` under a free pid.  Assumption: not
\* under one that a watchAdopted timer (2 s) still polls; pids are handed out
\* in rotation.
Spawn(p, owner) ==
  /\ pstate[p] = "free"
  /\ \A w \in watch : w[1] # p
  /\ clock < MaxClock
  /\ clock' = clock + 1
  /\ pstate' = [pstate EXCEPT ![p] = "booting"]
  /\ pstart' = [pstart EXCEPT ![p] = clock + 1]
  /\ powner' = [powner EXCEPT ![p] = owner]
  /\ pterm' = [pterm EXCEPT ![p] = FALSE]

\* spawn + onSpawn: registered and persisted in one synchronous stretch.  The
\* row is written without another look at its status.
SpawnChild(t, p) ==
  LET d == target[t] IN
  /\ pc[t] = "key"
  /\ Spawn(p, d)
  /\ mine' = mine \cup {p}
  /\ registry' = registry \cup {p}
  /\ children' = [children EXCEPT ![d] = p]
  /\ SetStatus(d, "starting")
  /\ row_pid' = [row_pid EXCEPT ![d] = IF Exists(d) THEN p ELSE @]
  /\ row_start' = [row_start EXCEPT ![d] = IF Exists(d) THEN clock + 1 ELSE @]
  /\ tpid' = [tpid EXCEPT ![t] = p]
  /\ pc' = [pc EXCEPT ![t] = "wait"]
  /\ UNCHANGED <<auto_start, failed_reason, pending, mode, adoptedPids, watch,
                 locks, todo, awaited, boots, termed, kind, target>>

\* The !res.ok branch, and then the caller's reaction.
LaunchFailed(t) ==
  LET d == target[t] IN
  /\ SetStatus(d, "failed")
  /\ failed_reason' = [failed_reason EXCEPT
                         ![d] = IF kind[t] = "restore" THEN "restore" ELSE "launch"]
  /\ ClearRuntime(d)
  /\ Release(t)
  /\ pc' = [pc EXCEPT ![t] = Done(t)]
  /\ UNCHANGED <<auto_start, pending, osVars, mode, mine, registry, children,
                 adoptedPids, watch, todo, awaited, boots, termed, kind, target, tpid>>

\* No usable sqld binary, or spawn() itself fails.
SpawnRefused(t) == pc[t] = "key" /\ LaunchFailed(t)

\* GET /health is answered 200 by whichever process listens on the port.
ProbeAnswered(t) ==
  /\ pc[t] = "wait"
  /\ PortHeld(target[t])
  /\ pc' = [pc EXCEPT ![t] = "answered"]
  /\ UNCHANGED <<rowVars, osVars, memVars, kind, target, tpid>>

\* The answer reaches the launcher's loop; startDatabaseLocked returns ok.
LaunchReady(t) ==
  LET d == target[t] IN
  /\ pc[t] = "answered"
  /\ SetStatus(d, "running")
  /\ failed_reason' = [failed_reason EXCEPT ![d] = "none"]
  /\ Release(t)
  /\ pc' = [pc EXCEPT ![t] = Done(t)]
  /\ tpid' = [tpid EXCEPT ![t] = NoPid]
  /\ UNCHANGED <<auto_start, row_pid, row_start, pending, osVars, mode, mine,
                 registry, children, adoptedPids, watch, todo, awaited, boots, termed,
                 kind, target>>

\* Mutant of ProbeGivesUp: the child that did not get ready is not killed.
ProbeGivesUpSilently(t) ==
  /\ pc[t] = "wait"
  /\ pc' = [pc EXCEPT ![t] = "reap"]
  /\ UNCHANGED <<rowVars, osVars, memVars, kind, target, tpid>>

\* The child exited early or the readiness budget is spent: TERM it.
ProbeGivesUp(t) ==
  /\ pc[t] = "wait"
  /\ pterm' = IF tpid[t] # NoPid THEN [pterm EXCEPT ![tpid[t]] = TRUE] ELSE pterm
  /\ pc' = [pc EXCEPT ![t] = "reap"]
  /\ UNCHANGED <<rowVars, pstate, pstart, powner, clock, memVars, kind, target,
                 tpid>>

\* Mutant of LaunchReaped: the exit is not awaited.
LaunchReapedAtOnce(t) == pc[t] = "reap" /\ LaunchFailed(t)

\* The failed child's exit event was seen.
LaunchReaped(t) == pc[t] = "reap" /\ tpid[t] = NoPid /\ LaunchFailed(t)

-----------------------------------------------------------------------------
(* stopDatabase, killByDbId and the rest of the DELETE route.              *)

Terminate(p) == pterm' = [pterm EXCEPT ![p] = TRUE]

StopRefused(t) ==
  /\ pc[t] = "queued" /\ kind[t] = "stop" /\ Holds(t)
  /\ status[target[t]] = "deleting"
  /\ Release(t)
  /\ pc' = [pc EXCEPT ![t] = "done"]
  /\ UNCHANGED <<rowVars, osVars, mode, mine, registry, children, adoptedPids,
                 watch, todo, awaited, boots, termed, kind, target, tpid>>

TerminateBegins(t) ==
  /\ pc[t] = "queued" /\ kind[t] \in {"stop", "delete"} /\ Holds(t)
  /\ kind[t] = "stop" => status[target[t]] # "deleting"

TermChild(t) ==
  /\ TerminateBegins(t)
  /\ children[target[t]] # NoPid
  /\ Terminate(children[target[t]])
  /\ tpid' = [tpid EXCEPT ![t] = children[target[t]]]
  /\ pc' = [pc EXCEPT ![t] = "termChild"]
  /\ UNCHANGED <<rowVars, pstate, pstart, powner, clock, memVars, kind, target>>

\* No child, or its exit event was seen.
ChildIsGone(t) ==
  \/ TerminateBegins(t) /\ children[target[t]] = NoPid
  \/ pc[t] = "termChild" /\ tpid[t] = NoPid

TermAdopted(t) ==
  /\ ChildIsGone(t)
  /\ AdoptedAlive(target[t])
  /\ Terminate(adoptedPids[target[t]])
  /\ pc' = [pc EXCEPT ![t] = "termAdopted"]
  /\ UNCHANGED <<rowVars, pstate, pstart, powner, clock, memVars, kind, target,
                 tpid>>

AllGone(t) ==
  /\ ChildIsGone(t) \/ pc[t] = "termAdopted"
  /\ ~AdoptedAlive(target[t])

\* stopDatabase persists "stopped" whatever the row says by now.
StopFinishes(t) ==
  LET d == target[t] IN
  /\ kind[t] = "stop" /\ AllGone(t)
  /\ adoptedPids' = [adoptedPids EXCEPT ![d] = NoPid]
  /\ children' = [children EXCEPT ![d] = NoPid]
  /\ SetStatus(d, "stopped")
  /\ ClearRuntime(d)
  /\ Release(t)
  /\ pc' = [pc EXCEPT ![t] = "done"]
  /\ UNCHANGED <<auto_start, failed_reason, pending, osVars, mode, mine,
                 registry, watch, todo, awaited, boots, termed, kind, target, tpid>>

KillFinishes(t) ==
  LET d == target[t] IN
  /\ kind[t] = "delete" /\ AllGone(t)
  /\ registry' = registry \ {adoptedPids[d]}
  /\ adoptedPids' = [adoptedPids EXCEPT ![d] = NoPid]
  /\ children' = [children EXCEPT ![d] = NoPid]
  /\ Release(t)
  /\ pc' = [pc EXCEPT ![t] = "rm"]
  /\ UNCHANGED <<rowVars, osVars, mode, mine, watch, todo, awaited, boots, termed, kind,
                 target, tpid>>

\* backup.stop has flushed; rm -rf of the data dir.  The lock is not held.
RemoveFiles(t) ==
  /\ pc[t] = "rm"
  /\ pc' = [pc EXCEPT ![t] = "drop"]
  /\ UNCHANGED <<rowVars, osVars, memVars, kind, target, tpid>>

\* Keys, DNS record and ports are released; the row goes.  (The columns of a
\* row that is gone are reset here so that nothing depends on them.)
DropRow(t) ==
  LET d == target[t] IN
  /\ pc[t] = "drop"
  /\ status' = [status EXCEPT ![d] = "gone"]
  /\ ClearRuntime(d)
  /\ failed_reason' = [failed_reason EXCEPT ![d] = "none"]
  /\ auto_start' = [auto_start EXCEPT ![d] = FALSE]
  /\ pending' = [pending EXCEPT ![d] = FALSE]
  /\ pc' = [pc EXCEPT ![t] = "done"]
  /\ UNCHANGED <<osVars, memVars, kind, target, tpid>>

-----------------------------------------------------------------------------
(* Processes and the events they cause.                                    *)

\* sqld binds its port and answers; a taken port makes it exit instead (Dies).
BindsPort(p) ==
  /\ pstate[p] = "booting"
  /\ powner[p] \in Db => ~PortHeld(powner[p])
  /\ pstate' = [pstate EXCEPT ![p] = "ready"]
  /\ UNCHANGED <<rowVars, pstart, powner, pterm, clock, memVars, threadVars>>

\* A child of this control plane stays in /proc until its exit is seen.
Dies(p) ==
  /\ Alive(p)
  /\ pstate' = [pstate EXCEPT ![p] = IF p \in mine THEN "zombie" ELSE "free"]
  /\ awaited' = IF p \in mine THEN awaited ELSE awaited \ {p}
  /\ UNCHANGED <<rowVars, pstart, powner, pterm, clock, mode, mine, registry,
                 children, adoptedPids, watch, locks, todo, boots, termed, threadVars>>

\* An unrelated process takes a free pid.
ForeignStarts(p) ==
  /\ Spawn(p, Foreign)
  /\ UNCHANGED <<rowVars, memVars, threadVars>>

\* child.on("exit") and the launcher's / terminateGracefully's once("exit").
ExitEvent(p) ==
  LET d == powner[p] IN
  /\ mode # "down"
  /\ pstate[p] = "zombie"
  /\ pstate' = [pstate EXCEPT ![p] = "free"]
  /\ mine' = mine \ {p}
  /\ registry' = registry \ {p}
  /\ children' = [children EXCEPT ![d] = NoPid]
  /\ awaited' = awaited \ {p}
  /\ IF mode \in {"stopping", "drained"}
     THEN UNCHANGED <<status, row_pid, row_start>>
     ELSE MarkCrashedIfLive(d)
  /\ tpid' = [t \in Thread |-> IF tpid[t] = p THEN NoPid ELSE tpid[t]]
  /\ UNCHANGED <<auto_start, failed_reason, pending, pstart, powner, pterm,
                 clock, mode, adoptedPids, watch, locks, todo, boots, termed, pc, kind,
                 target>>

\* Mutant of WatchTick: the death is noticed and not written down.
WatchTickUnrecorded(p, d) ==
  /\ mode \in {"boot", "sweep", "up"}
  /\ <<p, d>> \in watch
  /\ ~Alive(p)
  /\ watch' = watch \ {<<p, d>>}
  /\ registry' = registry \ {p}
  /\ adoptedPids' = [adoptedPids EXCEPT ![d] = IF @ = p THEN NoPid ELSE @]
  /\ UNCHANGED <<rowVars, osVars, mode, mine, children, locks, todo, awaited,
                 boots, termed, threadVars>>

\* The 2 s timer of watchAdopted finds its pid dead.
WatchTick(p, d) ==
  /\ mode \in {"boot", "sweep", "up"}
  /\ <<p, d>> \in watch
  /\ ~Alive(p)
  /\ watch' = watch \ {<<p, d>>}
  /\ registry' = registry \ {p}
  /\ adoptedPids' = [adoptedPids EXCEPT ![d] = IF @ = p THEN NoPid ELSE @]
  /\ MarkCrashedIfLive(d)
  /\ UNCHANGED <<auto_start, failed_reason, pending, osVars, mode, mine,
                 children, locks, todo, awaited, boots, termed, threadVars>>

-----------------------------------------------------------------------------
(* The control plane dies, boots and shuts down.                           *)

\* Everything in memory is lost; children live on and are reaped by init.
PlaneGone ==
  /\ mode' = "down"
  /\ mine' = {}
  /\ registry' = {}
  /\ children' = [d \in Db |-> NoPid]
  /\ adoptedPids' = [d \in Db |-> NoPid]
  /\ watch' = {}
  /\ locks' = [d \in Db |-> <<>>]
  /\ todo' = {}
  /\ awaited' = {}
  /\ termed' = {}
  /\ pc' = [t \in Thread |-> IF t = Boot \/ pc[t] = "idle" THEN "idle" ELSE "done"]
  /\ tpid' = [t \in Thread |-> NoPid]

Reap(ps) == [p \in Pid |-> IF ps[p] = "zombie" THEN "free" ELSE ps[p]]

Crash ==
  /\ mode # "down"
  /\ boots < MaxBoot
  /\ PlaneGone
  /\ pstate' = Reap(pstate)
  /\ UNCHANGED <<rowVars, pstart, powner, pterm, clock, boots, kind, target>>

\* A crash between spawn() and the UPDATE of onSpawn.
CrashAfterSpawn(t, p) ==
  /\ pc[t] = "key"
  /\ boots < MaxBoot
  /\ pstate[p] = "free" /\ clock < MaxClock
  /\ \A w \in watch : w[1] # p
  /\ clock' = clock + 1
  /\ pstate' = [Reap(pstate) EXCEPT ![p] = "booting"]
  /\ pstart' = [pstart EXCEPT ![p] = clock + 1]
  /\ powner' = [powner EXCEPT ![p] = target[t]]
  /\ pterm' = [pterm EXCEPT ![p] = FALSE]
  /\ PlaneGone
  /\ UNCHANGED <<rowVars, boots, kind, target>>

\* ensureDbKey rejects.  A request answers 500 and a restore fails; in
\* reconcile() nothing catches it and the boot ends.
KeyUnreadable(t) ==
  /\ pc[t] = "key"
  /\ IF t = Boot
     THEN /\ boots < MaxBoot
          /\ PlaneGone
          /\ pstate' = Reap(pstate)
          /\ UNCHANGED <<status, failed_reason, boots>>
     ELSE /\ CallerRecordsFailure(t)
          /\ Release(t)
          /\ pc' = [pc EXCEPT ![t] = "done"]
          /\ UNCHANGED <<pstate, mode, mine, registry, children, adoptedPids,
                         watch, todo, awaited, boots, termed,
                         tpid>>
  /\ UNCHANGED <<auto_start, row_pid, row_start, pending, pstart, powner, pterm,
                 clock, kind, target>>

Restart ==
  /\ mode = "down"
  /\ boots < MaxBoot
  /\ boots' = boots + 1
  /\ mode' = "boot"
  /\ todo' = {d \in Db : Exists(d)}
  /\ UNCHANGED <<rowVars, osVars, mine, registry, children, adoptedPids, watch,
                 locks, awaited, termed, threadVars>>

\* reconcile() looks at the next row.
Visits(d) == mode = "boot" /\ pc[Boot] = "idle" /\ d \in todo /\ todo' = todo \ {d}

ShouldTrack(d) == status[d] \in {"running", "starting", "failed", "crashed"}

\* procStartEpochMs
StartTime(p) == pstart[p]

\* Mutant of Adoptable: no start time is compared.
AdoptableByPidAlone(d) == row_pid[d] # NoPid /\ Alive(row_pid[d])

\* The recorded pid is alive and has the recorded start time.
Adoptable(d) ==
  /\ row_pid[d] # NoPid
  /\ Alive(row_pid[d])
  /\ StartTime(row_pid[d]) = row_start[d]

BootLeaves(d) ==
  /\ Visits(d)
  /\ ~ShouldTrack(d)
  /\ UNCHANGED <<rowVars, osVars, mode, mine, registry, children, adoptedPids,
                 watch, locks, awaited, boots, termed, threadVars>>

BootAdopts(d) ==
  /\ Visits(d)
  /\ ShouldTrack(d) /\ Adoptable(d)
  /\ registry' = registry \cup {row_pid[d]}
  /\ adoptedPids' = [adoptedPids EXCEPT ![d] = row_pid[d]]
  /\ watch' = watch \cup {<<row_pid[d], d>>}
  /\ SetStatus(d, "running")
  /\ UNCHANGED <<auto_start, failed_reason, row_pid, row_start, pending, osVars,
                 mode, mine, children, locks, awaited, boots, termed, threadVars>>

\* The double-bind guard: an untracked process answers on the row's port.
BootFindsPortBound(d) ==
  /\ Visits(d)
  /\ ShouldTrack(d) /\ ~Adoptable(d) /\ auto_start[d]
  /\ PortHeld(d)
  /\ SetStatus(d, "failed")
  /\ failed_reason' = [failed_reason EXCEPT ![d] = "bound"]
  /\ UNCHANGED <<auto_start, row_pid, row_start, pending, osVars, mode, mine,
                 registry, children, adoptedPids, watch, locks, awaited, boots, termed,
                 threadVars>>

BootRelaunches(d) ==
  /\ Visits(d)
  /\ ShouldTrack(d) /\ ~Adoptable(d) /\ auto_start[d]
  /\ ~PortHeld(d)
  /\ Enqueue(Boot, d)
  /\ pc' = [pc EXCEPT ![Boot] = "queued"]
  /\ target' = [target EXCEPT ![Boot] = d]
  /\ UNCHANGED <<rowVars, osVars, mode, mine, registry, children, adoptedPids,
                 watch, awaited, boots, termed, kind, tpid>>

\* auto_start = 0: only a restore target has it.
BootMarksStopped(d) ==
  /\ Visits(d)
  /\ ShouldTrack(d) /\ ~Adoptable(d) /\ ~auto_start[d]
  /\ SetStatus(d, "stopped")
  /\ UNCHANGED <<auto_start, failed_reason, row_pid, row_start, pending, osVars,
                 mode, mine, registry, children, adoptedPids, watch, locks,
                 awaited, boots, termed, threadVars>>

\* Mutant of Orphans: only a sqld that already listens is found.
OrphansListening ==
  {p \in Pid : pstate[p] = "ready" /\ powner[p] \in Db /\ p \notin registry}

\* sweepOrphans: a sqld under our data root that nobody registered.  Assumption:
\* the binary at sqldPath is there and is the one the orphans were started from;
\* otherwise the sweep finds nothing.
Orphans == {p \in Pid : Alive(p) /\ powner[p] \in Db /\ p \notin registry}

SweepTerm ==
  /\ mode = "boot" /\ todo = {} /\ pc[Boot] = "idle"
  /\ pterm' = [p \in Pid |-> pterm[p] \/ p \in Orphans]
  /\ termed' = Orphans
  /\ mode' = "sweep"
  /\ UNCHANGED <<rowVars, pstate, pstart, powner, clock, mine, registry,
                 children, adoptedPids, watch, locks, todo, awaited, boots,
                 threadVars>>

\* One second after SIGTERM, SIGKILL to every pid on that list that is alive,
\* without another look at its exe or argv: whoever has the pid by then.
KillSurvivors ==
  pstate' = [p \in Pid |-> IF p \in termed /\ Alive(p) THEN "free" ELSE pstate[p]]

\* Survivors are killed; interrupted restores are marked; the server listens.
BootEnds ==
  /\ mode = "sweep"
  /\ mode' = "up"
  /\ KillSurvivors
  /\ termed' = {}
  /\ status' = [d \in Db |-> IF status[d] = "restoring" THEN "failed" ELSE status[d]]
  /\ failed_reason' = [d \in Db |-> IF status[d] = "restoring" THEN "restore"
                                                               ELSE failed_reason[d]]
  /\ UNCHANGED <<auto_start, row_pid, row_start, pending, pstart, powner, pterm,
                 clock, mine, registry, children, adoptedPids, watch, locks,
                 todo, awaited, boots, threadVars>>

\* SIGTERM: supervisor.shutdown() terminates what it tracks at this moment.
Shutdown ==
  LET kill == {p \in Pid : \E d \in Db : children[d] = p \/ (adoptedPids[d] = p /\ Alive(p))}
  IN
  /\ mode = "up"
  /\ boots < MaxBoot
  /\ mode' = "stopping"
  /\ pterm' = [p \in Pid |-> pterm[p] \/ p \in kill]
  /\ awaited' = kill
  /\ UNCHANGED <<rowVars, pstate, pstart, powner, clock, mine, registry,
                 children, adoptedPids, watch, locks, todo, boots, termed, threadVars>>

\* All of them are dead: the maps are cleared.  The API still answers.
ShutdownDrains ==
  /\ mode = "stopping"
  /\ awaited = {}
  /\ mode' = "drained"
  /\ children' = [d \in Db |-> NoPid]
  /\ adoptedPids' = [d \in Db |-> NoPid]
  /\ registry' = {}
  /\ UNCHANGED <<rowVars, osVars, mine, watch, locks, todo, awaited, boots, termed,
                 threadVars>>

\* replicator.shutdown() is over: process.exit(0).
ShutdownExits ==
  /\ mode = "drained"
  /\ PlaneGone
  /\ pstate' = Reap(pstate)
  /\ UNCHANGED <<rowVars, pstart, powner, pterm, clock, boots, kind, target>>

-----------------------------------------------------------------------------
RequestArrives ==
  \E t \in Req, d \in Db :
    \/ RequestCreate(t, d)
    \/ RequestStart(t, d)
    \/ RequestStop(t, d)
    \/ RequestDelete(t, d)
    \/ RequestRestore(t, d)

StartStep(t) ==
  \/ StartRefused(t)
  \/ StartAlreadyRunning(t)
  \/ StartAccepted(t)
  \/ \E p \in Pid : SpawnChild(t, p)
  \/ SpawnRefused(t)
  \/ ProbeAnswered(t)
  \/ LaunchReady(t)
  \/ ProbeGivesUp(t)
  \/ LaunchReaped(t)
  \/ KeyUnreadable(t)

RequestStep(t) ==
  \/ RestoreFails(t)
  \/ RestorePlaces(t)
  \/ StopRefused(t)
  \/ TermChild(t)
  \/ TermAdopted(t)
  \/ StopFinishes(t)
  \/ KillFinishes(t)
  \/ RemoveFiles(t)
  \/ DropRow(t)

ProcessStep ==
  \/ \E p \in Pid : BindsPort(p) \/ Dies(p) \/ ForeignStarts(p)
  \/ \E p \in Pid : ExitEvent(p)
  \/ \E p \in Pid, d \in Db : WatchTick(p, d)

BootStep ==
  \/ \E d \in Db : BootLeaves(d) \/ BootAdopts(d) \/ BootFindsPortBound(d)
                   \/ BootRelaunches(d) \/ BootMarksStopped(d)
  \/ SweepTerm
  \/ BootEnds

PlaneStep ==
  \/ Crash
  \/ \E t \in Thread, p \in Pid : CrashAfterSpawn(t, p)
  \/ Restart
  \/ Shutdown
  \/ ShutdownDrains
  \/ ShutdownExits

Next ==
  \/ RequestArrives
  \/ \E t \in Thread : StartStep(t)
  \/ \E t \in Req : RequestStep(t)
  \/ ProcessStep
  \/ BootStep
  \/ PlaneStep

Spec == Init /\ [][Next]_vars

(* The event loop runs what is ready, timers fire, a process that was sent *)
(* TERM dies (KILL follows after the grace period).  Requests, crashes,    *)
(* spontaneous deaths and restarts are never owed.                         *)
Fairness ==
  /\ \A t \in Thread : WF_vars(StartStep(t))
  /\ \A t \in Req : WF_vars(RequestStep(t))
  /\ \A p \in Pid : /\ WF_vars(ExitEvent(p))
                    /\ WF_vars(pterm[p] /\ Dies(p))
                    /\ \A d \in Db : WF_vars(WatchTick(p, d))
  /\ WF_vars(BootStep)
  /\ WF_vars(ShutdownDrains)
  /\ WF_vars(ShutdownExits)

FairSpec == Spec /\ Fairness

-----------------------------------------------------------------------------
(* Safety.                                                                 *)

Tracked(p, d) == children[d] = p \/ adoptedPids[d] = p

\* Once the boot is over, no sqld of this data root runs that the supervisor
\* does not hold by a child handle or as an adopted pid: crashes at any point,
\* failed launches, stops and deletes leave no orphan (reconcile, sweepOrphans).
EverySqldIsTracked ==
  mode \in {"up", "stopping"} =>
    \A d \in Db : \A p \in Sqlds(d) : Tracked(p, d)

\* Two sqlds never write one data directory while the supervisor is in charge:
\* the lock, the two maps and the sweep together prevent a double spawn.
OneWriterPerDatabase ==
  mode \in {"up", "stopping"} =>
    \A d \in Db : \A p, q \in Sqlds(d) : p = q

\* A row that says "stopped" or "failed" has no process behind it: stopDatabase
\* and a failed launch await the death they report.
SettledMeansDead ==
  mode = "up" =>
    \A d \in Db : status[d] \in {"stopped", "failed"} => Sqlds(d) = {}

\* Pid reuse: stop, delete, sweep and shutdown send SIGTERM to, and reconcile
\* adopts, only processes that serve the database in question.  What the sweep
\* SIGKILLs a second later is a sqld it sent SIGTERM to, or a stranger that took
\* such a pid since (SweepSparesStrangers, below): never an adopted sqld, nor one
\* the boot launched.
OnlyOwnProcessesSignalled ==
  /\ \A p \in Pid : Alive(p) /\ powner[p] = Foreign => ~pterm[p]
  /\ \A d \in Db : AdoptedAlive(d) => powner[adoptedPids[d]] = d
  /\ \A d \in Db : Adoptable(d) => powner[row_pid[d]] = d
  /\ \A p \in termed :
       Alive(p) /\ powner[p] \in Db =>
         /\ pterm[p] /\ p \notin registry
         /\ \A d \in Db : children[d] # p /\ adoptedPids[d] # p

InOperation == {"key", "wait", "answered", "reap", "termChild", "termAdopted"}

\* withLock: start, stop and delete of one database never overlap.
LifecycleSerialized ==
  \A t, u \in Thread :
    /\ pc[t] \in InOperation /\ pc[u] \in InOperation
    /\ target[t] = target[u]
    => t = u

-----------------------------------------------------------------------------
(* Why they hold: the inductive invariant.                                 *)

LockInv == \A t \in Thread : pc[t] \in InOperation => Holds(t)

\* Requests run only while the API serves, and reconcile() before that.
ThreadInv ==
  /\ mode \in {"down", "boot", "sweep"} => \A t \in Req : pc[t] \in {"idle", "done"}
  /\ pc[Boot] \in {"idle", "queued", "key", "wait", "answered", "reap"}
  /\ pc[Boot] # "idle" => mode = "boot" /\ target[Boot] \notin todo
  /\ \A t \in Thread : kind[t] = "boot" <=> t = Boot

\* The child map holds exactly the children, and a thread that waits for a
\* child waits for the one of its database.
ChildInv ==
  /\ \A p \in Pid :
       /\ pstate[p] = "zombie" => p \in mine
       /\ p \in mine => powner[p] \in Db /\ pstate[p] # "free"
       /\ p \in mine /\ mode # "drained" => children[powner[p]] = p
  /\ \A d \in Db : children[d] # NoPid => children[d] \in mine /\ powner[children[d]] = d
  /\ \A t \in Thread :
       /\ tpid[t] # NoPid => tpid[t] \in mine
       /\ pc[t] = "key" => children[target[t]] = NoPid
       /\ mode # "drained" /\ pc[t] \in {"wait", "answered", "reap", "termChild"}
            => tpid[t] = children[target[t]]
       /\ mode # "drained" /\ pc[t] = "termAdopted" => children[target[t]] = NoPid

\* A row's pid with its start time names a process of that database.
RowPidInv ==
  \A d \in Db :
    /\ row_start[d] <= clock
    /\ row_pid[d] # NoPid /\ pstart[row_pid[d]] = row_start[d] => powner[row_pid[d]] = d

\* A live sqld that is no child is the adopted process of its database.
OrphanInv ==
  mode # "drained" =>
    \A p \in Pid :
      /\ Alive(p) /\ powner[p] \in Db /\ p \notin mine
      /\ mode \in {"up", "stopping"} \/ p \in registry
      => adoptedPids[powner[p]] = p

\* Adopted pids are watched, and watched pids are no children.
WatchInv ==
  /\ mode \in {"boot", "sweep"} => mine \subseteq registry
  /\ \A p \in Pid, d \in Db : <<p, d>> \in watch => p \notin mine
  /\ \A d \in Db : adoptedPids[d] # NoPid => <<adoptedPids[d], d>> \in watch

\* A database has a child or an adopted process, and reconcile() has neither
\* for a row it has not visited.
AdoptInv ==
  /\ \A d \in Db :
       /\ AdoptedAlive(d) => powner[adoptedPids[d]] = d /\ children[d] = NoPid
       /\ mode = "down" \/ (mode = "boot" /\ d \in todo)
            => adoptedPids[d] = NoPid /\ children[d] = NoPid
  /\ \A t \in Thread :
       pc[t] \in {"key", "wait", "answered", "reap"} => ~AdoptedAlive(target[t])

\* No TERM reaches a process that is not ours.
SignalInv == \A p \in Pid : Alive(p) /\ powner[p] = Foreign => ~pterm[p]

\* The sweep's list holds, while it waits, every live sqld that is not registered
\* and none that is; adopted processes are registered before it is drawn up.
SweepInv ==
  /\ mode # "sweep" => termed = {}
  /\ mode \in {"boot", "sweep"} =>
       \A d \in Db : AdoptedAlive(d) => adoptedPids[d] \in registry
  /\ \A p \in Pid :
       /\ p \in termed => p \notin registry
       /\ p \in termed /\ Alive(p) /\ powner[p] \in Db => pterm[p]
       /\ mode = "sweep" /\ Alive(p) /\ powner[p] \in Db => p \in termed \cup registry

\* Nobody else works on a database that is being restored, or that is not there.
RestoreInv ==
  /\ \A t, u \in Thread :
       /\ kind[t] = "restore" /\ pc[t] \notin {"idle", "done"}
       /\ target[u] = target[t] /\ pc[u] \notin {"idle", "done"}
       => t = u
  /\ \A t \in Thread :
       /\ pc[t] \notin {"idle", "done"} => status[target[t]] # "absent"
       /\ pc[t] = "fetch" => kind[t] = "restore" /\ status[target[t]] = "restoring"
       /\ pc[t] = "queued" /\ kind[t] = "restore" => status[target[t]] \in {"starting", "crashed"}
  /\ pc[Boot] = "queued" => ShouldTrack(target[Boot])

\* A row that settled without a process has none.
SettledInv ==
  mode \in {"boot", "sweep", "up"} =>
    \A d \in Db : status[d] \in {"absent", "stopped", "failed", "restoring"} =>
                    children[d] = NoPid /\ ~AdoptedAlive(d)

\* withLock, the child map, the adopted map and the rows agree, in every state.
MapsAgree ==
  /\ LockInv
  /\ ThreadInv
  /\ ChildInv
  /\ RowPidInv
  /\ OrphanInv
  /\ WatchInv
  /\ AdoptInv
  /\ SignalInv
  /\ SweepInv
  /\ RestoreInv
  /\ SettledInv

-----------------------------------------------------------------------------
(* Refinement.                                                             *)

\* The supervisor implements the abstract owner of the data directories: no
\* step, of any interleaving, hands a directory from one writer to another.
Owner == INSTANCE DataDirOwner WITH
  open <- mode \in {"up", "stopping"},
  writers <- [d \in Db |-> IF mode \in {"up", "stopping"} THEN Sqlds(d) ELSE {}]

OwnerSpec == Owner!Spec

-----------------------------------------------------------------------------
(* Liveness, under Fairness.                                               *)

\* Every start, stop and delete that queues on a database's lock is answered
\* (or dies with the control plane): no operation waits for an exit, a probe
\* or a predecessor for ever.
RequestsFinish == \A t \in Req : pc[t] = "queued" ~> pc[t] = "done"

\* A row that says "running" with the pid of a dead process is corrected, by
\* the exit event of a child or the watcher of an adopted process.
DeathIsRecorded ==
  \A d \in Db, p \in Pid :
    (mode = "up" /\ status[d] = "running" /\ row_pid[d] = p /\ ~Alive(p))
      ~> (mode # "up" \/ status[d] # "running" \/ row_pid[d] # p)

\* A boot comes to an end: reconcile waits for no answer that never comes.
BootCompletes == mode = "boot" ~> mode \in {"up", "down"}

-----------------------------------------------------------------------------
(* What comments and documents say and the code does not do (README, 6).   *)

\* supervisor.ts:421-422: the watcher of an adopted pid acts only while the
\* database is still the adoptee, so "crashed" is a row without a process.
CrashedMeansDead ==
  mode = "up" =>
    \A d \in Db : status[d] = "crashed" => Sqlds(d) = {}

\* routes.ts:319-321: the process must be dead before the data dir is removed.
RemovesOnlyDeadFiles ==
  [][\A t \in Req : RemoveFiles(t) => Sqlds(target[t]) = {}]_vars

\* supervisor.ts:514: after shutdown no sqld process remains.
ShutdownLeavesNoSqld ==
  mode = "drained" => \A d \in Db : Sqlds(d) = {}

\* supervisor.ts:434-442: a process is killed only if every check passes, so the
\* sweep spares a stranger whatever pid it has.
SweepSparesStrangers ==
  \A p \in termed : Alive(p) => powner[p] \in Db

\* routes.ts:656-658: a failed restore has no data and is never started by hand,
\* for it would publish an empty database.
NeverServedEmpty ==
  \A d \in Db : Sqlds(d) # {} => ~pending[d]

\* supervisor.ts:5: a child that exits unexpectedly is marked crashed, so a
\* "running" row has a process, or one whose death is still to be handled.
RunningIsServed ==
  mode = "up" =>
    \A d \in Db : status[d] = "running" => \E p \in Pid : Tracked(p, d)
=============================================================================
