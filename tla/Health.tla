------------------------------- MODULE Health -------------------------------
(***************************************************************************)
(* What operators are shown: GET /healthz (http/health.ts, index.ts) over  *)
(* the replica states that are folded from litestream's log lines          *)
(* (backup/replicator.ts), the restore verifications (backup/verify.ts)    *)
(* and the control-plane backup (backup/control.ts).                       *)
(*                                                                         *)
(* The code sees log lines and its own uploads; the model keeps beside     *)
(* them what is true: since when a change waits for its replica, and when  *)
(* a backup of the control plane reached the store.                        *)
(***************************************************************************)
EXTENDS Integers

CONSTANTS
  Db,
  Lag,      \* maxLagMs, SQLITEND_BACKUP_MAX_LAG_SECONDS
  MaxAge,   \* verifyMaxAgeMs and the control backup's maxAgeMs
  Grace,    \* controlState: 10 minutes after the start
  Never,    \* a NULL time
  Bounds    \* what one behaviour has of each event

Event == {"line", "error", "die", "write", "upload", "verify", "restart", "flip"}

ASSUME HealthAssumption ==
  /\ Lag \in Nat /\ MaxAge \in Nat /\ Grace \in Nat
  /\ Never \notin Nat
  /\ Bounds \subseteq [Event \cup {"tick"} -> Nat]

VARIABLES
  now,
  row,       \* the rows, all of them with auto_start: running or not
  proc,      \* Replicator.procs: the entry of each database
  verified,  \* the latest and the latest good verification
  control,   \* ControlBackupStatus
  startedAt, \* of the server
  missing,   \* truth: since when the oldest change waits for the replica
  since,     \* since when the state of the replica has been what it is
  saved,     \* truth: when the newest control backup in the store was begun
  left

vars == <<now, row, proc, verified, control, startedAt, missing, since, saved, left>>

Time == Nat \cup {Never}
NoEntry == [here |-> FALSE, child |-> FALSE, sync |-> Never, error |-> Never, behind |-> Never]

TypeOK ==
  /\ now \in Nat
  /\ row \in [Db -> {"running", "stopped"}]
  /\ proc \in [Db -> [here : BOOLEAN, child : BOOLEAN, sync : Time, error : Time, behind : Time]]
  /\ verified \in [Db -> [failed : BOOLEAN, ok : Time]]
  /\ control \in [ok : Time, error : Time]
  /\ startedAt \in Nat
  /\ missing \in [Db -> Time] /\ since \in [Db -> Nat]
  /\ saved \in Time

Init ==
  /\ now = 0 /\ startedAt = 0
  /\ row = [d \in Db |-> "running"]
  /\ proc = [d \in Db |-> NoEntry]
  /\ verified = [d \in Db |-> [failed |-> FALSE, ok |-> Never]]
  /\ control = [ok |-> Never, error |-> Never]
  /\ missing = [d \in Db |-> Never] /\ since = [d \in Db |-> 0]
  /\ saved = Never
  /\ left \in Bounds

-----------------------------------------------------------------------------
(* The three states, and the report.                                       *)

Within(t, age) == t # Never /\ now - t <= age
AtOrAfter(t, u) == t # Never /\ (u # Never => t >= u)

\* deriveState
ReplicaState(d) ==
  IF ~proc[d].child THEN "stopped"
  ELSE IF AtOrAfter(proc[d].error, proc[d].sync) THEN "error"
  ELSE IF proc[d].sync = Never THEN "starting"
  ELSE IF Within(proc[d].sync, Lag) /\ (proc[d].behind # Never => Within(proc[d].behind, Lag))
  THEN "ok" ELSE "lagging"

\* verifyStateOf: no proof is asked for while the server is young.
VerifyState(d) ==
  IF verified[d].failed THEN "failed"
  ELSE IF Within(verified[d].ok, MaxAge) THEN "ok"
  ELSE IF verified[d].ok = Never /\ Within(startedAt, MaxAge) THEN "pending" ELSE "stale"

\* Mutant of ControlState: the last attempt is taken for a backup.
ControlStateByAttempt ==
  IF Within(control.ok, MaxAge) \/ Within(control.error, MaxAge) THEN "ok"
  ELSE IF Within(startedAt, Grace) THEN "pending" ELSE "stale"

\* controlState
ControlState ==
  IF control.error # Never /\ (control.ok # Never => control.error > control.ok) THEN "failed"
  ELSE IF Within(control.ok, MaxAge) THEN "ok"
  ELSE IF Within(startedAt, Grace) THEN "pending" ELSE "stale"

\* healthReport: every expected database runs, and nothing fails.
Healthy ==
  /\ \A d \in Db : row[d] = "running"
  /\ \A d \in Db : ReplicaState(d) \in {"ok", "starting"}
  /\ \A d \in Db : VerifyState(d) \in {"ok", "pending"}
  /\ ControlState \in {"ok", "pending"}

-----------------------------------------------------------------------------
Happens(e) == left[e] > 0 /\ left' = [left EXCEPT ![e] = @ - 1]
Sees(d, entry) == proc' = [proc EXCEPT ![d] = entry]

Tick ==
  /\ Happens("tick") /\ now' = now + 1
  /\ UNCHANGED <<row, proc, verified, control, startedAt, missing, saved>>

\* A client writes.
Write(d) ==
  /\ Happens("write") /\ row[d] = "running"
  /\ missing' = [missing EXCEPT ![d] = IF @ = Never THEN now ELSE @]
  /\ UNCHANGED <<now, row, proc, verified, control, startedAt, saved>>

\* reconcile() of the replicator: an entry for each running database alone.
Launch(d) ==
  /\ row[d] = "running" /\ ~proc[d].here
  /\ Sees(d, [NoEntry EXCEPT !.here = TRUE, !.child = TRUE])
  /\ UNCHANGED <<now, row, verified, control, startedAt, missing, saved, left>>

Stop(d) ==
  /\ row[d] = "stopped" /\ proc[d].here
  /\ Sees(d, NoEntry)
  /\ UNCHANGED <<now, row, verified, control, startedAt, missing, saved, left>>

\* The backoff is over and the row is read again: the status of the dead
\* process stays.  (A row that runs no more drops the entry, which is Stop.)
Relaunch(d) ==
  /\ row[d] = "running" /\ proc[d].here /\ ~proc[d].child
  /\ Sees(d, [proc[d] EXCEPT !.child = TRUE])
  /\ UNCHANGED <<now, row, verified, control, startedAt, missing, saved, left>>

\* Mutant of Behind: each line that trails starts the wait anew.
BehindAnew(d, caughtUp) == IF caughtUp THEN Never ELSE now

\* behindSince
Behind(d, caughtUp) ==
  IF caughtUp THEN Never ELSE IF proc[d].behind = Never THEN now ELSE proc[d].behind

\* applyLogLine, "replica sync": with the replica at the database's txid, or
\* behind it.
SyncLine(d, caughtUp) ==
  /\ Happens("line") /\ proc[d].child
  /\ ~caughtUp => missing[d] # Never
  /\ Sees(d, [proc[d] EXCEPT !.sync = now, !.behind = Behind(d, caughtUp)])
  /\ missing' = IF caughtUp THEN [missing EXCEPT ![d] = Never] ELSE missing
  /\ UNCHANGED <<now, row, verified, control, startedAt, saved>>

\* applyLogLine, level ERROR
ErrorLine(d) ==
  /\ Happens("error") /\ proc[d].child
  /\ Sees(d, [proc[d] EXCEPT !.error = now])
  /\ UNCHANGED <<now, row, verified, control, startedAt, missing, saved>>

\* onEnd: the exit is an error, and waits for its timer.
Dies(d) ==
  /\ Happens("die") /\ proc[d].child
  /\ Sees(d, [proc[d] EXCEPT !.child = FALSE, !.error = now])
  /\ UNCHANGED <<now, row, verified, control, startedAt, missing, saved>>

Verified(d, ok) ==
  /\ Happens("verify")
  /\ verified' = [verified EXCEPT ![d] = [failed |-> ~ok, ok |-> IF ok THEN now ELSE @.ok]]
  /\ UNCHANGED <<now, row, proc, control, startedAt, missing, saved>>

\* upload(); a backup that was written counts though pruning failed after it.
Uploads(written, ok) ==
  /\ Happens("upload")
  /\ ok => written
  /\ control' = [ok |-> IF written THEN now ELSE control.ok,
                 error |-> IF ok THEN control.error ELSE now]
  /\ saved' = IF written THEN now ELSE saved
  /\ UNCHANGED <<now, row, proc, verified, startedAt, missing>>

\* The server restarts: entries and samples go, loadLatest() reads the name of
\* the newest backup, or notes that it could not.
Restart(listed) ==
  /\ Happens("restart")
  /\ startedAt' = now
  /\ proc' = [d \in Db |-> NoEntry]
  /\ control' = IF listed THEN [ok |-> saved, error |-> Never] ELSE [ok |-> Never, error |-> now]
  /\ UNCHANGED <<now, row, verified, missing, saved>>

\* The sqld ends and comes back.
Flips(d, from, to) ==
  /\ row[d] = from
  /\ row' = [row EXCEPT ![d] = to]
  /\ UNCHANGED <<now, proc, verified, control, startedAt, missing, saved>>

Ends(d) == Flips(d, "running", "stopped") /\ Happens("flip")
Begins(d) == Flips(d, "stopped", "running") /\ UNCHANGED left

\* Since when each replica has been in the state it is in.
Watched ==
  since' = [d \in Db |-> IF ReplicaState(d)' = ReplicaState(d) THEN since[d] ELSE now']

Step ==
  \/ Tick
  \/ \E d \in Db :
       \/ Write(d) \/ Launch(d) \/ Stop(d) \/ Relaunch(d)
       \/ SyncLine(d, TRUE) \/ SyncLine(d, FALSE) \/ ErrorLine(d) \/ Dies(d)
       \/ Verified(d, TRUE) \/ Verified(d, FALSE)
       \/ Ends(d) \/ Begins(d)
  \/ Uploads(TRUE, TRUE) \/ Uploads(TRUE, FALSE) \/ Uploads(FALSE, FALSE)
  \/ Restart(TRUE) \/ Restart(FALSE)

Next == Step /\ Watched

Spec == Init /\ [][Next]_vars

-----------------------------------------------------------------------------
\* A 200 never hides a change that waits for its replica for more than twice
\* SQLITEND_BACKUP_MAX_LAG_SECONDS in one stretch of "ok", whatever litestream
\* logs, dies and comes back (docs/backups.md: "replica may trail this long").
\* A replica that is still "starting" is excepted.
GapIsShown ==
  Healthy => \A d \in Db :
    ReplicaState(d) = "ok" /\ missing[d] # Never
      => Within(missing[d], 2 * Lag) \/ Within(since[d], 2 * Lag)

\* A 200 says that a backup of the control plane has reached the store within
\* MaxAge, or that the server is younger than Grace: also after a restart, an
\* upload that failed half-way and a listing that failed.
ControlIsFresh == Healthy => Within(saved, MaxAge) \/ Within(startedAt, Grace)

-----------------------------------------------------------------------------
(* What the documents say and the code does not do (README, 6).            *)

\* docs/backups.md: a replica with "no sync reported, for longer than MAX_LAG"
\* is lagging, not "starting" for as long as it is silent.
SilenceIsLagging ==
  \A d \in Db : ReplicaState(d) = "starting" => Within(since[d], Lag)
=============================================================================
