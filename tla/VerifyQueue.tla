---------------------------- MODULE VerifyQueue ----------------------------
(***************************************************************************)
(* Restore-verify (apps/server/src/backup/verify.ts): the daily schedule,  *)
(* "verify all" and "verify one" requests put restores of the backups on   *)
(* one serial queue; each outcome is recorded, and /healthz reads the      *)
(* records (repos/verifications.ts, http/health.ts, http/routes.ts).       *)
(*                                                                         *)
(* A queued verify is a promise chained to the queue's tail: it starts     *)
(* when the one it was chained to has settled.  A settled promise that     *)
(* nothing awaits is as good as none.  Time is counted in days.            *)
(***************************************************************************)
EXTENDS Databases

CONSTANTS MaxAge,      \* days after which the last good verify is stale
          MaxDays,     \* bound: days
          MaxRequests, \* bound: verify requests of operators
          MaxChanges,  \* bound: databases stopped, deleted; replicas broken, repaired
          MaxFaults,   \* bound: failing writes of a record
          MaxRestarts  \* bound: restarts of the server

ASSUME VerifyAssumption ==
    {MaxAge, MaxDays, MaxRequests, MaxChanges, MaxFaults, MaxRestarts} \subseteq Nat

VARIABLES
    status,   \* the databases' rows
    replica,  \* whether the backup of each restores to what is served
    jobs,     \* the verifies that are queued or under way, or settled and awaited
    tail,     \* VerifyService.tail: the job the next one is chained to, 0 if none
    inQueue,  \* VerifyService.inQueue: the job of each database, 0 if none
    pending,  \* VerifyService.pending
    batch,    \* VerifyService.batch: its rows left and the job it awaits
    timer,    \* the day the schedule fires next, or Waiting, or Off
    stopped,  \* VerifyService.stopped
    latest,   \* the outcome of the newest record of each database
    okAt,     \* the day of its newest "ok" record, or Never
    proved,   \* history: the day a restore of it was last found good
    startedAt, now,
    requests, changes, faults, restarts

service == <<jobs, tail, inQueue, pending, batch>>
records == <<latest, okAt, proved>>
dbVars  == <<status, replica>>
used    == <<requests, changes, faults, restarts>>
verifyVars == <<service, records, dbVars, timer, stopped, startedAt, now, used>>

Never   == -1
Waiting == -2
Off     == -3
Jobs    == 1 .. Cardinality(Db) + 1
NoBatch == [on |-> FALSE, rows |-> {}, at |-> 0]
NoJob   == [db |-> "-", after |-> 0, state |-> "none"]

NoService ==
    /\ jobs' = [j \in Jobs |-> NoJob]
    /\ tail' = 0 /\ pending' = 0
    /\ inQueue' = [d \in Db |-> 0]
    /\ batch' = NoBatch

VerifyInit ==
    /\ status = [d \in Db |-> "running"]
    /\ replica = [d \in Db |-> "good"]
    /\ jobs = [j \in Jobs |-> NoJob]
    /\ tail = 0 /\ pending = 0
    /\ inQueue = [d \in Db |-> 0]
    /\ batch = NoBatch
    /\ timer = 1 /\ stopped = FALSE
    /\ latest = [d \in Db |-> "none"]
    /\ okAt = [d \in Db |-> Never]
    /\ proved = [d \in Db |-> Never]
    /\ startedAt = 0 /\ now = 0
    /\ requests = 0 /\ changes = 0 /\ faults = 0 /\ restarts = 0

\* What the variables hold.
VerifyTypeOK ==
    /\ status \in [Db -> {"running", "stopped", "deleted"}]
    /\ replica \in [Db -> {"good", "bad"}]
    /\ jobs \in [Jobs -> [db : Db \cup {"-"}, after : Jobs \cup {0},
                          state : {"none", "waiting", "restoring", "done", "threw"}]]
    /\ {tail, batch.at} \cup {inQueue[d] : d \in Db} \subseteq Jobs \cup {0}
    /\ pending \in 0 .. Cardinality(Db)
    /\ batch.on \in BOOLEAN /\ batch.rows \subseteq Db
    /\ timer \in {Waiting, Off} \cup 0 .. MaxDays + 1 /\ stopped \in BOOLEAN
    /\ latest \in [Db -> {"none", "ok", "failed"}]
    /\ okAt \in [Db -> {Never} \cup 0 .. now] /\ proved \in [Db -> {Never} \cup 0 .. now]
    /\ startedAt \in 0 .. now /\ now \in 0 .. MaxDays

----------------------------------------------------------------------------
(* The queue                                                               *)

\* Mutant of NextTail: a job is not put at the tail.
NextTailForgotten(j) == tail

\* The tail after job j was queued.
NextTail(j) == j

\* verifyQueued: join the database's queued verify, or chain a new one; the
\* number of the job is its result.
Verify(d, job) ==
    \/ /\ inQueue[d] # 0
       /\ job = inQueue[d]
       /\ UNCHANGED <<jobs, tail, inQueue, pending>>
    \/ /\ inQueue[d] = 0
       /\ job = CHOOSE j \in Jobs : jobs[j] = NoJob
       /\ jobs' = [jobs EXCEPT ![job] = [db |-> d, after |-> tail, state |-> "waiting"]]
       /\ tail' = NextTail(job)
       /\ inQueue' = [inQueue EXCEPT ![d] = job]
       /\ pending' = pending + 1

\* runAll: a batch over the rows that run now, unless one is under way.
RunAll ==
    batch' = IF batch.on THEN batch
             ELSE [on |-> TRUE, rows |-> {d \in Db : status[d] = "running"}, at |-> 0]

\* POST /api/databases/:id/backup/verify
VerifyOne(d) ==
    /\ ~stopped /\ requests < MaxRequests /\ status[d] = "running"
    /\ \E job \in Jobs : Verify(d, job)
    /\ requests' = requests + 1
    /\ UNCHANGED <<batch, records, dbVars, timer, stopped, startedAt, now, changes, faults, restarts>>

\* POST /api/backups/verify
VerifyAll ==
    /\ ~stopped /\ requests < MaxRequests
    /\ RunAll
    /\ requests' = requests + 1
    /\ UNCHANGED <<jobs, tail, inQueue, pending, records, dbVars, timer, stopped, startedAt, now,
                   changes, faults, restarts>>

\* The schedule's timer: it is set again when the batch has ended.
Fire ==
    /\ timer >= 0 /\ timer <= now
    /\ timer' = Waiting
    /\ RunAll
    /\ UNCHANGED <<jobs, tail, inQueue, pending, records, dbVars, stopped, startedAt, now, used>>

\* The batch queues its next row.
BatchNext(d) ==
    /\ batch.on /\ batch.at = 0 /\ ~stopped /\ d \in batch.rows
    /\ \E job \in Jobs :
          /\ Verify(d, job)
          /\ batch' = [batch EXCEPT !.rows = @ \ {d}, !.at = job]
    /\ UNCHANGED <<records, dbVars, timer, stopped, startedAt, now, used>>

AwaitedIs(state) == \E j \in Jobs : batch.at = j /\ jobs[j].state = state

\* The verify it awaited was recorded.
BatchAnswer ==
    /\ AwaitedIs("done")
    /\ batch' = [batch EXCEPT !.at = 0]
    /\ jobs' = [jobs EXCEPT ![batch.at] = NoJob]
    /\ UNCHANGED <<tail, inQueue, pending, records, dbVars, timer, stopped, startedAt, now, used>>

\* Mutant of ReArmed: the schedule is set again only after a batch that succeeded.
ReArmedOnSuccess(threw) == IF timer # Waiting \/ threw THEN timer ELSE IF stopped THEN Off ELSE now + 1

\* The timer after a batch, which may have thrown: .finally(schedule).
ReArmed(threw) == IF timer # Waiting THEN timer ELSE IF stopped THEN Off ELSE now + 1

\* The batch ends: every row done, the service stopped, or a verify threw.
BatchEnds ==
    /\ batch.on
    /\ \/ /\ batch.at = 0 /\ (batch.rows = {} \/ stopped)
          /\ timer' = ReArmed(FALSE)
          /\ UNCHANGED jobs
       \/ /\ AwaitedIs("threw")
          /\ timer' = ReArmed(TRUE)
          /\ jobs' = [jobs EXCEPT ![batch.at] = NoJob]
    /\ batch' = NoBatch
    /\ UNCHANGED <<tail, inQueue, pending, records, dbVars, stopped, startedAt, now, used>>

----------------------------------------------------------------------------
(* One verify                                                              *)

\* done(): the outcome is written; a write that throws is caught and "failed"
\* is written instead; if that throws too, the verify rejects.
Done(j, outcome, wasGood) ==
    LET d == jobs[j].db
        Settle(state) ==
            /\ jobs' = [i \in Jobs |->
                   IF i = j THEN IF batch.at = j THEN [NoJob EXCEPT !.state = state] ELSE NoJob
                   ELSE [jobs[i] EXCEPT !.after = IF @ = j THEN 0 ELSE @]]
            /\ tail' = IF tail = j THEN 0 ELSE tail
            /\ pending' = pending - 1
            /\ inQueue' = [inQueue EXCEPT ![d] = 0]
        Write(o) ==
            /\ latest' = [latest EXCEPT ![d] = o]
            /\ okAt' = IF o = "ok" THEN [okAt EXCEPT ![d] = now] ELSE okAt
    IN /\ proved' = IF wasGood THEN [proved EXCEPT ![d] = now] ELSE proved
       /\ \/ /\ Settle("done") /\ Write(outcome)
             /\ UNCHANGED faults
          \/ /\ faults < MaxFaults /\ faults' = faults + 1
             /\ Settle("done") /\ Write("failed")
          \/ /\ faults < MaxFaults /\ faults' = faults + 1
             /\ Settle("threw")
             /\ UNCHANGED <<latest, okAt>>
       /\ UNCHANGED batch

\* Disk space and the store are looked at, then litestream restores.
JobStarts(j) ==
    /\ jobs[j].state = "waiting" /\ jobs[j].after = 0
    /\ \/ /\ jobs' = [jobs EXCEPT ![j].state = "restoring"]
          /\ UNCHANGED <<tail, inQueue, pending, batch, latest, okAt, proved, faults>>
       \/ Done(j, "failed", FALSE)
    /\ UNCHANGED <<dbVars, timer, stopped, startedAt, now, requests, changes, restarts>>

\* The restored copy is checked and compared with the live file, which a
\* database deleted meanwhile no longer has.
JobEnds(j) ==
    /\ jobs[j].state = "restoring"
    /\ LET good == replica[jobs[j].db] = "good" /\ status[jobs[j].db] # "deleted"
       IN Done(j, IF good THEN "ok" ELSE "failed", good)
    /\ UNCHANGED <<dbVars, timer, stopped, startedAt, now, requests, changes, restarts>>

----------------------------------------------------------------------------
(* What /healthz says of a database                                        *)

\* Mutant of Recent: any good verify will do, however old.
RecentEver(day) == day # Never

\* Whether the last good verify is at most MaxAge days old.
Recent(day) == day # Never /\ now - day <= MaxAge

\* verifyHealth: a failure first, then a recent proof, then the grace of a new service.
Health(d) ==
    IF latest[d] = "failed" THEN "failed"
    ELSE IF Recent(okAt[d]) THEN "ok"
    ELSE IF okAt[d] = Never /\ now - startedAt <= MaxAge THEN "pending"
    ELSE "stale"

----------------------------------------------------------------------------
(* The world                                                               *)

\* Shutdown begins: no new schedule, and no new row of a batch.
Stop ==
    /\ ~stopped
    /\ stopped' = TRUE
    /\ timer' = IF timer >= 0 THEN Off ELSE timer
    /\ UNCHANGED <<service, records, dbVars, startedAt, now, used>>

\* The process ends, by shutdown or crash, and the next one starts: the queue is gone.
ServerRestarts ==
    /\ restarts < MaxRestarts
    /\ restarts' = restarts + 1
    /\ NoService
    /\ stopped' = FALSE /\ timer' = now + 1 /\ startedAt' = now
    /\ UNCHANGED <<records, dbVars, now, requests, changes, faults>>

Change(d) ==
    /\ changes < MaxChanges
    /\ changes' = changes + 1
    /\ \/ /\ status[d] # "deleted"
          /\ status' \in {[status EXCEPT ![d] = s] : s \in {"running", "stopped", "deleted"}}
          /\ UNCHANGED replica
       \/ /\ replica' \in {[replica EXCEPT ![d] = r] : r \in {"good", "bad"}}
          /\ UNCHANGED status
    /\ UNCHANGED <<service, records, timer, stopped, startedAt, now, requests, faults, restarts>>

Day ==
    /\ now < MaxDays
    /\ now' = now + 1
    /\ UNCHANGED <<service, records, dbVars, timer, stopped, startedAt, used>>

Progress == BatchAnswer \/ BatchEnds
            \/ (\E d \in Db : BatchNext(d)) \/ (\E j \in Jobs : JobStarts(j) \/ JobEnds(j))

VerifyNext ==
    \/ Progress \/ VerifyAll \/ Fire \/ Stop \/ ServerRestarts \/ Day
    \/ \E d \in Db : VerifyOne(d) \/ Change(d)

\* Promises settle: litestream is killed after an hour, the store has 20 s.
VerifySpec == VerifyInit /\ [][VerifyNext]_verifyVars /\ WF_verifyVars(Progress)

----------------------------------------------------------------------------
(* Properties                                                              *)

\* Never two restores at once, whatever mix of schedule and requests: they
\* share the disk budget and, for one database, the scratch directory (verify.ts:90).
OneAtATime == Cardinality({j \in Jobs : jobs[j].state = "restoring"}) <= 1

\* After every batch, also one that threw, the schedule is set again (or the
\* service was stopped): verification never ends silently (verify.ts:128).
ScheduleGoesOn == (timer = Waiting) ~> (timer # Waiting)

\* /healthz calls a backup good only if a restore of it was good at most MaxAge days ago.
HealthyIsProved == \A d \in Db : Health(d) = "ok" => proved[d] # Never /\ now - proved[d] <= MaxAge
============================================================================
