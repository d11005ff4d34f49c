-------------------------------- MODULE Jobs --------------------------------
(***************************************************************************)
(* A new database made from what is already there: a replica in the store  *)
(* (backup/restore.ts) or a file the operator dropped (backup/import.ts),  *)
(* with the routes that reserve its row, start and stop it, delete it and  *)
(* its workspace (http/routes.ts), and the boot that finds an interrupted  *)
(* job.                                                                    *)
(*                                                                         *)
(* A step is the code between two awaits; where a crash inside one would   *)
(* leave the disk and the row apart the stretch has a step per write, and  *)
(* the server does nothing else meanwhile (Mid).  litestream, the store    *)
(* and the operator act at any time.  Time is in ticks of half a second:   *)
(* the store stamps its files in whole seconds.                            *)
(***************************************************************************)
EXTENDS Naturals, Sequences, FiniteSetsExt

CONSTANTS
  Target,   \* ids of the rows these jobs make, never reused
  Ws,       \* workspaces
  Bounds    \* what one behaviour has of each event

Event == {"restore", "import", "delete", "leave", "crash", "tick", "commit",
          "compact", "outage", "drop", "start", "stop"}

ASSUME JobsAssumption == Bounds \subseteq [Event -> Nat]

VARIABLES
  wsp,      \* the workspaces there are
  row,      \* status, workspace, auto_start
  file,     \* the database file in the row's data_dir
  staging,  \* <data_dir>.restore or .import: absent, empty, or with a file
  job,      \* the running jobs and the requests that will start them
  sqld,     \* the server of the row, and what POST start and stop do to it
  del,      \* how far a DELETE has got
  want,     \* history: the second a restore was asked for, 0 for the latest
  now,      \* the tick
  commits,  \* the source's transactions: when each was committed
  ltx,      \* the files of its replica
  store,    \* the store answers
  drop,     \* the file in imports/
  up,       \* the control plane runs
  astray,   \* history: how a row got past what keeps empty ones from starting
  left      \* of the bounds of this behaviour

diskVars == <<file, staging>>
srcVars == <<now, commits, ltx>>
handVars == <<sqld, astray>>
vars == <<wsp, row, diskVars, job, handVars, del, want, srcVars, store, drop, up, left>>

\* What a file holds: the source up to transaction n, the dropped file, less
\* than either ("damaged"), the dropped file without the transactions in the
\* -wal beside it ("partial"), a database that was there before ("earlier"), or
\* the empty one that sqld makes when it finds no file.
Content == [from : {"none", "replica", "import", "damaged", "partial", "earlier", "empty"},
            n : Nat]
Of(from) == [from |-> from, n |-> 0]
NoFile == Of("none")
UpTo(n) == [from |-> "replica", n |-> n]

Second(tick) == tick \div 2
Txid == DOMAIN commits

NoJob == [pc |-> "idle", op |-> "none", ws |-> {}, pin |-> 0]
NoRow == [st |-> "absent", ws |-> {}, auto |-> FALSE]

\* "failed" is a job's failure, which the routes tell by the reason in the row;
\* "unlaunched" is status failed for any other reason.
Status == {"absent", "restoring", "starting", "running", "stopped", "failed", "unlaunched",
           "deleting", "gone"}
Row == [st : Status, ws : SUBSET Ws, auto : BOOLEAN]

TypeOK ==
  /\ wsp \in SUBSET Ws
  /\ row \in [Target -> Row]
  /\ file \in [Target -> Content]
  /\ staging \in [Target -> [dir : {"none", "restore", "import"}, data : Content]]
  /\ job \in [Target -> [pc : {"idle", "reserve", "preflight", "list", "download", "check",
                               "hash", "place", "unlock", "hand", "start", "after"},
                         op : {"none", "restore", "import"}, ws : SUBSET Ws, pin : Nat]]
  /\ sqld \in [Target -> {"none", "key", "probe", "up", "stop"}]
  /\ astray \in [Target -> SUBSET {"reset", "overwritten"}]
  /\ del \in [Target -> {"none", "kill", "data", "restore", "import", "row"}]
  /\ want \in [Target -> Nat]
  /\ now \in Nat
  /\ \A n \in Txid : commits[n] \in Nat
  /\ ltx \in SUBSET [level : {0, 1}, max : Nat, ts : Nat]
  /\ store \in BOOLEAN
  /\ drop \in {"absent", "copying", "whole", "open"}
  /\ up \in BOOLEAN
  /\ left \in [Event -> Nat]

Init ==
  /\ wsp = Ws
  /\ row = [t \in Target |-> NoRow]
  /\ file \in [Target -> {NoFile, Of("earlier")}]
  /\ staging = [t \in Target |-> [dir |-> "none", data |-> NoFile]]
  /\ job = [t \in Target |-> NoJob]
  /\ sqld = [t \in Target |-> "none"]
  /\ astray = [t \in Target |-> {}]
  /\ del = [t \in Target |-> "none"]
  /\ want = [t \in Target |-> 0]
  /\ now = 0 /\ commits = <<>> /\ ltx = {}
  /\ store = TRUE /\ drop \in {"absent", "copying", "whole", "open"} /\ up = TRUE
  /\ left \in Bounds

Exists(t) == row[t].st \notin {"absent", "gone"}

\* restore.jobs and importer.jobs
Running(t) == job[t].pc \notin {"idle", "reserve"}

\* Inside a stretch without an await.
Mid == \E t \in Target : job[t].pc \in {"unlock", "hand"}
Free == up /\ ~Mid

Happens(e) == left[e] > 0 /\ left' = [left EXCEPT ![e] = @ - 1]

Goes(t, pc) == job' = [job EXCEPT ![t].pc = pc]
Stage(t, data) ==
  staging' = [staging EXCEPT ![t] = [dir |-> job[t].op, data |-> data]]
Unstage(t) == staging' = [staging EXCEPT ![t] = [dir |-> "none", data |-> NoFile]]

-----------------------------------------------------------------------------
(* The world: the source, its replica, the store, the operator, the clock. *)

Tick ==
  /\ Happens("tick")
  /\ now' = now + 1
  /\ UNCHANGED <<wsp, row, diskVars, job, handVars, del, want, commits, ltx, store, drop, up>>

\* A transaction of the source; litestream ships it in a file of its own, at
\* once or in a later one.
Commit ==
  /\ Happens("commit")
  /\ commits' = Append(commits, now)
  /\ UNCHANGED <<wsp, row, diskVars, job, handVars, del, want, now, ltx, store, drop, up>>

Ship ==
  /\ store /\ Txid # {}
  /\ \A f \in ltx : f.max < Len(commits)
  /\ ltx' = ltx \cup {[level |-> 0, max |-> Len(commits), ts |-> Second(now)]}
  /\ UNCHANGED <<wsp, row, diskVars, job, handVars, del, want, now, commits, store, drop, up, left>>

\* Level 0 becomes one file of level 1, stamped when that happens.
Compact ==
  /\ Happens("compact") /\ store /\ \E f \in ltx : f.level = 0
  /\ ltx' = {f \in ltx : f.level = 1}
            \cup {[level |-> 1, max |-> Max({f.max : f \in ltx}), ts |-> Second(now)]}
  /\ UNCHANGED <<wsp, row, diskVars, job, handVars, del, want, now, commits, store, drop, up>>

StoreFails ==
  /\ Happens("outage") /\ store /\ store' = FALSE
  /\ UNCHANGED <<wsp, row, diskVars, job, handVars, del, want, srcVars, drop, up>>

StoreReturns ==
  /\ ~store /\ store' = TRUE
  /\ UNCHANGED <<wsp, row, diskVars, job, handVars, del, want, srcVars, drop, up, left>>

\* The operator copies a file into imports/, opens it with SQLite there (which
\* puts a -wal with new transactions beside it), closes it, takes it away.
Drops(from, to) == drop = from /\ drop' = to

OperatorActs ==
  /\ Happens("drop")
  /\ \/ Drops("absent", "copying") \/ Drops("copying", "whole")
     \/ Drops("whole", "open") \/ Drops("open", "whole") \/ Drops("whole", "absent")
  /\ UNCHANGED <<wsp, row, diskVars, job, handVars, del, want, srcVars, store, up>>

-----------------------------------------------------------------------------
(* The requests.                                                           *)

\* ImportService.resolve: a regular file with no side file next to it.
Resolves == drop \in {"copying", "whole"}

\* The workspace is there; then allocatePair is awaited.
Request(t, w, op) ==
  /\ Free /\ Happens(op)
  /\ row[t].st = "absent" /\ job[t] = NoJob
  /\ w \in wsp
  /\ job' = [job EXCEPT ![t] = [pc |-> "reserve", op |-> op, ws |-> {w}, pin |-> 0]]
  /\ UNCHANGED <<wsp, row, diskVars, handVars, del, srcVars, store, drop, up>>

RequestRestore(t, w, at) == Request(t, w, "restore") /\ want' = [want EXCEPT ![t] = at]
RequestImport(t, w) == Request(t, w, "import") /\ Resolves /\ UNCHANGED want

\* DatabasesRepo.create: the workspace the row REFERENCES must be there; a name
\* or slug that is taken is ReserveFails's.
CanInsert(t) == job[t].ws \subseteq wsp

\* The INSERT throws (the workspace has gone, the name is taken): the pair of
\* ports is released, the request fails.
ReserveFails(t) ==
  /\ Free /\ job[t].pc = "reserve"
  /\ job' = [job EXCEPT ![t] = NoJob]
  /\ UNCHANGED <<wsp, row, diskVars, handVars, del, want, srcVars, store, drop, up, left>>

NewRow(t) ==
  /\ CanInsert(t)
  /\ row' = [row EXCEPT ![t] = [st |-> "restoring", ws |-> job[t].ws, auto |-> FALSE]]

\* The row is inserted and the job begins, up to its first await.
RestoreBegins(t) ==
  /\ Free /\ job[t].pc = "reserve" /\ job[t].op = "restore"
  /\ NewRow(t)
  /\ Stage(t, NoFile)
  /\ Goes(t, "preflight")
  /\ UNCHANGED <<wsp, file, handVars, del, want, srcVars, store, drop, up, left>>

\* DELETE /api/workspaces/:id, and the cascade of the schema.
DeleteWorkspace(w) ==
  /\ Free /\ Happens("leave")
  /\ w \in wsp
  /\ \A t \in Target : Exists(t) => row[t].ws # {w}
  /\ wsp' = wsp \ {w}
  /\ UNCHANGED <<row, diskVars, job, handVars, del, want, srcVars, store, drop, up>>

-----------------------------------------------------------------------------
(* Both jobs.                                                              *)

\* fail()
FailJob(t) ==
  /\ Unstage(t)
  /\ row' = [row EXCEPT ![t].st = IF Exists(t) THEN "failed" ELSE @]
  /\ job' = [job EXCEPT ![t] = NoJob]

WorldStays == UNCHANGED <<wsp, astray, del, want, srcVars, store, drop, up, left>>

\* integrity_check reads the file.
Verified(t) == staging[t].data.from \in {"replica", "import", "partial"}

\* The last checks, and the rename of the verified file.
Placeable(t) == Verified(t) /\ Exists(t) /\ file[t] = NoFile

Place(t) ==
  /\ Free /\ job[t].pc = "place"
  /\ Placeable(t)
  /\ file' = [file EXCEPT ![t] = staging[t].data]
  /\ Unstage(t)
  /\ Goes(t, "unlock")
  /\ UNCHANGED <<row, sqld>> /\ WorldStays

PlaceRefused(t) ==
  /\ Free /\ job[t].pc = "place"
  /\ ~Placeable(t)
  /\ FailJob(t)
  /\ UNCHANGED <<file, sqld>> /\ WorldStays

\* setAutoStart(1)
Unlock(t) ==
  /\ up /\ job[t].pc = "unlock"
  /\ row' = [row EXCEPT ![t].auto = TRUE]
  /\ Goes(t, "hand")
  /\ UNCHANGED <<diskVars, sqld>> /\ WorldStays

\* updateStatus("starting") and the call of the supervisor
HandOver(t) ==
  /\ up /\ job[t].pc = "hand"
  /\ row' = [row EXCEPT ![t].st = "starting"]
  /\ Goes(t, "start")
  /\ UNCHANGED <<diskVars, sqld>> /\ WorldStays

Started(t) ==
  /\ Free /\ job[t].pc = "start"
  /\ row' = [row EXCEPT ![t].st = "running"]
  /\ Goes(t, "after")
  /\ sqld' = [sqld EXCEPT ![t] = "up"]
  /\ UNCHANGED diskVars /\ WorldStays

NotStarted(t) ==
  /\ Free /\ job[t].pc = "start"
  /\ FailJob(t)
  /\ UNCHANGED <<file, sqld>> /\ WorldStays

\* afterStart, the DNS record, may fail: the database runs all the same.
JobEnds(t) ==
  /\ Free /\ job[t].pc = "after"
  /\ job' = [job EXCEPT ![t] = NoJob]
  /\ UNCHANGED <<row, diskVars, sqld>> /\ WorldStays

-----------------------------------------------------------------------------
(* Restore.                                                                *)

\* preflightReplica answers within 20 s, from the store or from its timer.
PreflightFails(t) ==
  /\ Free /\ job[t].pc = "preflight"
  /\ store => ltx = {}
  /\ FailJob(t)
  /\ UNCHANGED <<file, sqld>> /\ WorldStays

PreflightPasses(t) ==
  /\ Free /\ job[t].pc = "preflight"
  /\ store /\ ltx # {}
  /\ Goes(t, IF want[t] = 0 THEN "download" ELSE "list")
  /\ UNCHANGED <<row, diskVars, sqld>> /\ WorldStays

\* Mutant of Before: a file stamped with that very second counts.
BeforeOrIn(at) == {f.max : f \in {g \in ltx : g.ts <= at}}

\* resolveTxid: what the files written strictly before `at` reach.
Before(at) == {f.max : f \in {g \in ltx : g.ts < at}}

Listed(t) ==
  /\ Free /\ job[t].pc = "list" /\ store
  /\ Before(want[t]) # {}
  /\ job' = [job EXCEPT ![t].pc = "download", ![t].pin = Max(Before(want[t]))]
  /\ UNCHANGED <<row, diskVars, sqld>> /\ WorldStays

NothingBefore(t) ==
  /\ Free /\ job[t].pc = "list" /\ store
  /\ Before(want[t]) = {}
  /\ FailJob(t)
  /\ UNCHANGED <<file, sqld>> /\ WorldStays

\* litestream ends where a file ends; with -txid it wants that very end.
Reachable(t) == {f.max : f \in {g \in ltx : job[t].pin \in {0, g.max}}}

Downloaded(t) ==
  /\ Free /\ job[t].pc = "download" /\ store
  /\ Reachable(t) # {}
  /\ \/ Stage(t, UpTo(Max(Reachable(t))))
     \/ Stage(t, Of("damaged"))
  /\ Goes(t, "place")
  /\ UNCHANGED <<row, file, sqld>> /\ WorldStays

\* Mutant of LitestreamFails: an unreachable store is waited for.
LitestreamFailsIfTold(t) ==
  /\ Free /\ job[t].pc \in {"list", "download"} /\ store
  /\ FailJob(t)
  /\ UNCHANGED <<file, sqld>> /\ WorldStays

\* litestream exits with an error, or retries until its timer kills it.
LitestreamFails(t) ==
  /\ Free /\ job[t].pc \in {"list", "download"}
  /\ FailJob(t)
  /\ UNCHANGED <<file, sqld>> /\ WorldStays

-----------------------------------------------------------------------------
(* Import.                                                                 *)

Copied == Of(CASE drop = "copying" -> "damaged"
               [] drop = "whole" -> "import"
               [] OTHER -> "partial")

\* Mutant of ImportBegins: the file is taken as the request found it.
ImportBeginsAtOnce(t) ==
  /\ Free /\ job[t].pc = "reserve" /\ job[t].op = "import"
  /\ NewRow(t) /\ drop # "absent"
  /\ Stage(t, Copied)
  /\ Goes(t, "hash")
  /\ UNCHANGED <<wsp, file, handVars, del, want, srcVars, store, drop, up, left>>

\* The file is looked at again and copied; then the copy is hashed.
ImportBegins(t) ==
  /\ Free /\ job[t].pc = "reserve" /\ job[t].op = "import"
  /\ NewRow(t) /\ Resolves
  /\ Stage(t, Copied)
  /\ Goes(t, "hash")
  /\ UNCHANGED <<wsp, file, handVars, del, want, srcVars, store, drop, up, left>>

\* It is not there any more, or side files have appeared.
ImportRefused(t) ==
  /\ Free /\ job[t].pc = "reserve" /\ job[t].op = "import"
  /\ CanInsert(t) /\ ~Resolves
  /\ row' = [row EXCEPT ![t] = [st |-> "failed", ws |-> job[t].ws, auto |-> FALSE]]
  /\ Unstage(t)
  /\ job' = [job EXCEPT ![t] = NoJob]
  /\ UNCHANGED <<wsp, file, handVars, del, want, srcVars, store, drop, up, left>>

\* VACUUM INTO reads the copy; the rest is one stretch with Place.
Hashed(t) ==
  /\ Free /\ job[t].pc = "hash"
  /\ Goes(t, "place")
  /\ UNCHANGED <<row, diskVars, sqld>> /\ WorldStays

-----------------------------------------------------------------------------
(* DELETE /api/databases/:id, one per row at a time; a second one beside it *)
(* would repeat the same removals, which do nothing the second time.       *)

RequestDelete(t) ==
  /\ Free /\ Happens("delete")
  /\ Exists(t) /\ ~Running(t) /\ del[t] = "none"
  /\ row' = [row EXCEPT ![t].st = "deleting"]
  /\ del' = [del EXCEPT ![t] = "kill"]
  /\ UNCHANGED <<wsp, diskVars, job, handVars, want, srcVars, store, drop, up>>

DeleteStep(t, from, to) ==
  /\ Free /\ del[t] = from
  /\ del' = [del EXCEPT ![t] = to]
  /\ UNCHANGED <<wsp, job, astray, want, srcVars, store, drop, up, left>>

\* Its turn under the lock has come, the sqld is dead and the replication flushed.
Killed(t) ==
  /\ DeleteStep(t, "kill", "data")
  /\ sqld[t] \in {"none", "up"}
  /\ sqld' = [sqld EXCEPT ![t] = "none"]
  /\ UNCHANGED <<row, diskVars>>

RemoveData(t) ==
  /\ DeleteStep(t, "data", "restore")
  /\ file' = [file EXCEPT ![t] = NoFile]
  /\ UNCHANGED <<row, staging, sqld>>

\* Mutant of RemoveStaging: the directory of an interrupted import is forgotten.
RemoveStagingOfRestore(t, op, next) ==
  /\ DeleteStep(t, op, next)
  /\ IF op = "restore" /\ staging[t].dir = op THEN Unstage(t) ELSE UNCHANGED staging
  /\ UNCHANGED <<row, file, sqld>>

\* <data_dir>.restore, and after it <data_dir>.import: what a crash left there.
RemoveStaging(t, op, next) ==
  /\ DeleteStep(t, op, next)
  /\ IF staging[t].dir = op THEN Unstage(t) ELSE UNCHANGED staging
  /\ UNCHANGED <<row, file, sqld>>

DropRow(t) ==
  /\ DeleteStep(t, "row", "none")
  /\ row' = [row EXCEPT ![t] = [NoRow EXCEPT !.st = "gone"]]
  /\ UNCHANGED <<diskVars, sqld>>

-----------------------------------------------------------------------------
(* POST /api/databases/:id/start and /stop.  A request and its turn under  *)
(* the lock of the row are one step: a request that waits for the lock is  *)
(* looked at again there, and of what it saw before only "deleting" and    *)
(* the row itself can have changed.                                        *)

\* assertNotRestoreTarget, what the supervisor looks at under the lock, and the
\* lock, which a DELETE that asked for it first has before.
MayStart(t) ==
  /\ Exists(t) /\ row[t].st \notin {"deleting", "restoring", "failed"}
  /\ ~Running(t)
  /\ del[t] # "kill"

\* The row is written without another look; there may be none any more.
Write(t, st) ==
  /\ row' = [row EXCEPT ![t].st = IF Exists(t) THEN st ELSE @]
  /\ astray' = [astray EXCEPT ![t] =
                  IF row[t].st = "deleting" THEN @ \cup {"overwritten"} ELSE @]

ByHand(t, from, to) ==
  /\ Free
  /\ sqld[t] \in from /\ sqld' = [sqld EXCEPT ![t] = to]
  /\ UNCHANGED <<wsp, staging, job, del, want, srcVars, store, drop, up>>

\* Of a database that is served already the start changes nothing.
StartBegins(t) ==
  /\ Happens("start")
  /\ MayStart(t)
  /\ ByHand(t, {"none"}, "key")
  /\ UNCHANGED <<row, file, astray>>

\* The key is written and sqld is spawned; it makes the file it does not find.
StartSpawns(t) ==
  /\ ByHand(t, {"key"}, "probe")
  /\ Write(t, "starting")
  /\ file' = [file EXCEPT ![t] = IF @ = NoFile THEN Of("empty") ELSE @]
  /\ UNCHANGED left

StartEnds(t) ==
  /\ \/ ByHand(t, {"probe"}, "up") /\ Write(t, "running")
     \/ ByHand(t, {"key", "probe"}, "none") /\ Write(t, "unlaunched")
  /\ UNCHANGED <<file, left>>

StopBegins(t) ==
  /\ Happens("stop")
  /\ MayStart(t)
  /\ ByHand(t, {"none", "up"}, "stop")
  /\ UNCHANGED <<row, file, astray>>

StopEnds(t) ==
  /\ ByHand(t, {"stop"}, "none")
  /\ Write(t, "stopped")
  /\ UNCHANGED <<file, left>>

-----------------------------------------------------------------------------
(* Crash and boot.                                                         *)

Crash ==
  /\ up /\ Happens("crash")
  /\ up' = FALSE
  /\ job' = [t \in Target |-> NoJob]
  /\ del' = [t \in Target |-> "none"]
  /\ UNCHANGED <<wsp, row, diskVars, handVars, want, srcVars, store, drop>>

\* reconcile() adopts a server that has outlived the crash, relaunches what has
\* auto_start and leaves the others stopped; then the rows of interrupted jobs are
\* marked failed.
Reconciled == {"running", "starting", "failed", "unlaunched"}

Adoptable(t) == sqld[t] \in {"probe", "up", "stop"}

Booted(t) ==
  CASE row[t].st \in Reconciled /\ row[t].auto -> {"running", "unlaunched"}
    [] row[t].st \in Reconciled /\ ~row[t].auto ->
         {"stopped"} \cup {st \in {"running"} : Adoptable(t)}
    [] row[t].st = "restoring" -> {"failed"}
    [] OTHER -> {row[t].st}

\* A failed job's row that is left stopped can be started from then on.
Boot ==
  /\ ~up /\ up' = TRUE
  /\ \E st \in [Target -> Status] :
       /\ \A t \in Target : st[t] \in Booted(t)
       /\ row' = [t \in Target |-> [row[t] EXCEPT !.st = st[t]]]
       /\ sqld' = [t \in Target |-> IF st[t] = "running" THEN "up" ELSE "none"]
       /\ file' = [t \in Target |-> IF st[t] = "running" /\ file[t] = NoFile
                                     THEN Of("empty") ELSE file[t]]
       /\ astray' = [t \in Target |-> IF row[t].st = "failed" /\ st[t] = "stopped"
                                       THEN astray[t] \cup {"reset"} ELSE astray[t]]
  /\ UNCHANGED <<wsp, staging, job, del, want, srcVars, store, drop, left>>

-----------------------------------------------------------------------------
JobStep(t) ==
  \/ PreflightFails(t) \/ PreflightPasses(t)
  \/ Listed(t) \/ NothingBefore(t) \/ Downloaded(t) \/ LitestreamFails(t)
  \/ Hashed(t)
  \/ Place(t) \/ PlaceRefused(t) \/ Unlock(t) \/ HandOver(t)
  \/ Started(t) \/ NotStarted(t) \/ JobEnds(t)

Deletes(t) ==
  \/ RequestDelete(t) \/ Killed(t) \/ RemoveData(t)
  \/ RemoveStaging(t, "restore", "import") \/ RemoveStaging(t, "import", "row")
  \/ DropRow(t)

ByOperator(t) ==
  \/ StartBegins(t) \/ StartSpawns(t) \/ StartEnds(t) \/ StopBegins(t) \/ StopEnds(t)

World == Tick \/ Commit \/ Ship \/ Compact \/ StoreFails \/ StoreReturns \/ OperatorActs

Next ==
  \/ World
  \/ \E t \in Target, w \in Ws :
       \/ RequestImport(t, w)
       \/ \E at \in 0..Second(now) + 1 : RequestRestore(t, w, at)
  \/ \E w \in Ws : DeleteWorkspace(w)
  \/ \E t \in Target :
       \/ ReserveFails(t) \/ RestoreBegins(t) \/ ImportBegins(t) \/ ImportRefused(t)
       \/ JobStep(t) \/ Deletes(t) \/ ByOperator(t)
  \/ Crash \/ Boot

Spec == Init /\ [][Next]_vars

\* Timers fire, awaited promises settle, and a service manager restarts the
\* server.  Nothing is assumed of the store, the operator and the clients.
FairSpec == Spec /\ WF_vars(Boot) /\ \A t \in Target : WF_vars(JobStep(t))

-----------------------------------------------------------------------------
\* Whatever is running, is about to run, or would be launched at the next boot
\* has the data its job verified: never no file, a damaged one, one without its
\* last transactions, a leftover of an earlier database or an empty one, wherever
\* the server dies and however it is started and stopped by hand (restore.ts,
\* import.ts: place, hand over; routes.ts: assertNotRestoreTarget).  Not said of
\* a row that a boot has taken from "failed" to "stopped" after a failed job, which
\* can be started without a file (SupervisorRestore's NeverServedEmpty is refuted
\* by that), nor of one whose "deleting" a start or a stop has written over.
ComesUpWithItsData ==
  \A t \in {u \in Target : astray[u] = {}} :
    row[t].st \in {"starting", "running"} \/ (row[t].auto /\ row[t].st # "deleting")
      => file[t].from \in {"replica", "import"}

\* A restore to a second holds no transaction committed in that second or
\* later, whatever compaction did to the time stamps (restore.ts, resolveTxid).
PointInTime ==
  \A t \in Target :
    file[t].from = "replica" /\ want[t] # 0
      => \A n \in 1..file[t].n : commits[n] < 2 * want[t]

\* A row always has its workspace, though one may be deleted while ports are
\* allocated for the row; and a deleted database leaves no file behind, the
\* staging of a job that a crash cut short included, unless a start or a stop
\* wrote over "deleting": then another start may make a file beside the removals.
NothingDangles ==
  \A t \in Target :
    /\ Exists(t) => row[t].ws \subseteq wsp
    /\ row[t].st = "gone" /\ "overwritten" \notin astray[t]
         => file[t] = NoFile /\ staging[t].dir = "none"

\* No row stays "restoring": the store may be unreachable for ever and the
\* server may die at any point of the job.
JobsSettle ==
  \A t \in Target : (row[t].st = "restoring") ~> (row[t].st # "restoring")
-----------------------------------------------------------------------------
(* What comments say and the code does not do (README, 6).                 *)

\* restore.ts:16-17, routes.ts:656-658: no database is served that has none of its
\* data, whoever starts it.
NeverServedWithoutItsData ==
  \A t \in Target : row[t].st = "running" => file[t].from \in {"replica", "import"}
=============================================================================
