# Verification of sqlitend

sqlitend is a single-host control plane for SQLite servers: a Bun process that
keeps one `sqld` child per database, replicates each of them to S3 with one
`litestream` child, mints tokens, proxies public traffic, and can rebuild itself
from encrypted backups. This directory holds TLA+ models of the parts of it
whose correctness depends on the order of things, the TLC runs that check them
and TLAPS proofs about them. Paths below are relative to `apps/server/src/` of
the repository unless they start with `docs/`.

    tlc -config MCSupervisor.cfg MCSupervisor.tla      check an instance
    tlapm SupervisorProofs.tla                         check the proofs

`PROJECT.json` lists the runs, the source lines each definition stands for, the
mutants (one plausible bug per property, which must break it), the findings, the
hazards and the theorems.

## 1. Inventory

The server is one event loop. "Concurrent" means that handlers interleave at
their `await`s; other processes (sqld, litestream, the CLI, a second server
after a restart) are truly parallel. `metadata.sqlite` survives everything, the
process table survives the server, the maps in memory survive nothing.

| component | state | operations | must hold | hard because |
|---|---|---|---|---|
| Supervisor `supervisor/supervisor.ts`, launcher `supervisor/launcher.ts` | `registry`, `children`, `adoptedPids`, `locks`, `shuttingDown`; the row's `status`, `pid`, `start_time` | start, stop, kill, reconcile, sweep, watch, shutdown | one sqld per data directory, none untracked, no stranger signalled, rows tell the truth, requests end | pid reuse, crash between spawn and record, requests at the same time, exit events against continuations |
| Routes `http/routes.ts`, Restore `backup/restore.ts`, Import `backup/import.ts` | job maps; rows | create, start, stop, delete, restore, import, tokens | files of a live database are never removed, a half-restored one is never served | multi-step handlers, each step may be the last |
| Replicator `backup/replicator.ts` | `procs` with child, timer, `stopping`, failures | reconcile every 5 s, restart timers, stop, sweep, shutdown, status from log lines | one litestream per replica, a flush before removal, replication comes back | timers of replaced entries, three callers of stop at once, orphans |
| Control backup `backup/control.ts` and its wiring in `index.ts` and `cli.ts` | debounce timer, upload in flight, follow-up, objects in S3 | trigger, runNow, upload, prune, loadLatest; backup-control | a reported success has the caller's changes; pruning leaves a backup; every change gets there | coalescing, failures, clock steps, two processes pruning |
| Rebuild `cli.ts`, `writeControlPlane` | data root, pid file, parked rows | restore-control, restore-data | no database comes up empty, no key lost, no running server | a crash between any two steps; commands, boots and an operator at the same time |
| Port allocator `supervisor/ports.ts` | `reserved`, the rows' ports, listening sockets | allocatePair, release, reserve | no port in two rows, no leak | probes await; releases on several paths |
| DNS `dns/manager.ts`, `dns/cloudflare.ts` | per-database chains, row's `dns_*`, zone records | sync, remove, reconcileAll | no record without its row, none of others touched | lost responses, delete during sync |
| Keys and tokens `auth/tokens.ts`, `auth/verify.ts` | `keys/<id>.key/.pub`, allowlist rows | ensureDbKey, mint, revoke | the public file belongs to the private one; revoked means denied | two first uses, crash while writing |
| Gateway `gateway/gateway.ts` | none of its own; reads rows, tokens, keys | proxy a request | only live tokens reach their own database | row read before awaits |
| Sessions, TOTP `auth/session.ts`, `auth/totp.ts` | failure lists, in-flight count, sessions, last step | login, validate, logout | attempts are bounded, a code is used once | parallel logins, refund |
| Verify `backup/verify.ts` | serial queue, `inQueue`, batch | verify one, verify all, schedule | never two at once, each answered | dedupe against queue |
| Metrics `metrics/sampler.ts` | per-database CPU baseline | sample | rates never mix two processes | restart between samples |
| Metadata `db/` | SQLite tables | transactions | — | each call is one synchronous transaction |
| Health `http/health.ts`, replica status in `backup/replicator.ts` | status per replica | fold log lines, report | a 200 hides no gap | the code sees only lines and its own uploads |
| Config, static files, client IP, schemas, web UI, scripts | — | — | — | pure functions, a browser client, shell |

How they meet: routes call the supervisor, the replicator (`stop`), DNS
(`sync`, `remove`) and the port allocator; restore and import hand the
supervisor a row to start; the replicator polls the rows the supervisor writes;
the audit log triggers the control backup; the CLI opens the same database file
from another process; `index.ts` orders boot (reconcile, sweep, mark interrupted
restores, control backup, replicator, listen) and shutdown (supervisor, then
replicator, then exit).

## 2. Plan

Written in this order, the most important behaviour first:

1. `Supervisor` with `DataDirOwner`, its abstract specification; proofs in
   `SupervisorProofs`.
2. `Replicator`; proofs in `ReplicatorProofs`.
3. `ControlBackup`; proofs in `BackupProofs`.
4. `Dns`; proofs in `DnsProofs`.
5. `Access`: ports, key files, tokens and the gateway in one module, since a
   request crosses all four; proofs in `AccessProofs`. 6. `Login`; proofs in
   `LoginProofs`. 7. `Rebuild` and 8. `VerifyQueue`, on the databases of `Databases`;
   proofs in `BackupProofs`. 9. `Jobs`: restore and import; proofs in `JobsProofs`.
   10. `Health`; proofs in `HealthProofs`.
Left: a model of the metrics sampler; a theorem for each `TypeOK` not yet proved
(`ControlBackup`, `VerifyQueue`, `Access`, `Jobs`).

## 3. The models

One step of a module is one stretch of code between two `await`s (or one
syscall of another process); `map` in `PROJECT.json` names the lines. Data the
properties cannot tell apart is dropped: a failure reason is its kind, a
bundle is a version number, a JWT is the key it is signed with.

### Supervisor (`Supervisor.tla`, instance module `MCSupervisor.tla`)

Rows (`status`, `auto_start`, `failed_reason`, `row_pid`, `row_start`,
`pending`), the process table (`pstate`, `pstart`, `powner`, `pterm`) and the
maps (`registry`, `children`, `adoptedPids`, `watch`, `locks`). A thread is an
API request or the boot; `pc` is the `await` it is at. `locks[d]` is the chain
`withLock` builds: the head runs. The action groups follow the code:

- `Request*`: a route up to its first await (checks, row writes, joining the chain).
- `StartRefused`, `StartAlreadyRunning`, `StartAccepted`, `SpawnChild`,
  `ProbeAnswered`, `LaunchReady`, `ProbeGivesUp`, `LaunchReaped`,
  `KeyUnreadable`: `startDatabaseLocked` and `launchSqld`.
- `StopRefused`, `TermChild`, `TermAdopted`, `StopFinishes`, `KillFinishes`,
  `RemoveFiles`, `DropRow`: stop and `DELETE`.
- `RestorePlaces`, `RestoreFails`: a restore or import job, which creates the row as
  `restoring`, then hands it over.
- `BindsPort`, `Dies`, `ForeignStarts`, `ExitEvent`, `WatchTick`: the operating
  system and the two ways a death is noticed. Pids are reused, also by strangers.
- `Crash`, `CrashAfterSpawn`, `Restart`, `Boot*`, `Sweep*`, `Shutdown*`: the life
  of the control plane. `CrashAfterSpawn` is the window between `spawn()` and the
  `UPDATE` that records the pid. `SweepTerm` remembers the pids it sent SIGTERM to
  (`termed`); a second later `KillSurvivors` SIGKILLs whoever has them.

`DataDirOwner` says what this amounts to: while open, a directory has at most
one writer and a new one appears only where there is none. `OwnerSpec` is the
refinement, with `writers` mapped to the live sqlds of each database.

### Replicator (`Replicator.tla`, `MCReplicator.tla`)

A `Proc` object of the code with the process it spawns is one element of `Proc`;
`procs`, `child`, `stopping`, `timer` and `stops` are its fields and the
`stop()` calls in progress, with their TERM and KILL phases. `Reconcile` is the
whole 5 s tick (it stops what is not running, launches what is missing, and a
launch may fail); restart timers, exit events, `DELETE`, the boot's sweep, crash
and shutdown are actions of their own. Rows change arbitrarily, except that
`deleting` is final (the supervisor breaks that in one case, section 6).

### ControlBackup (`ControlBackup.tla`, `MCControlBackup.tla`)

Every change a rebuild needs makes a new `version`. `objects` are the backups in
the order of their names; one gets its place when its upload starts, last unless
the clock has stepped back, and is `stored` when the write ends. Names never
collide (they have milliseconds). `phase` is the await an upload is at; `RunNow`
and `Settles` are the in-flight promise and the follow-up chained on it. The
CLI's `backup-control` is a second service on the same objects. A request that
fails after it took effect is the success followed by a failure of the next one.
`debounce` is whether the timer runs; `due` (a change that no snapshot has) and
`asked` are history variables.

### Dns (`Dns.tla`, `MCDns.tla`)

Per database the row's `status`, `recordId` (`dns_record_id`) and `dnsStatus`, the
record at its hostname in `zone`, and `queue`, the chain of `DnsManager.withLock`;
`at` is the request the head of the chain waits for. A record says whether its
comment is the database's (`own`) and whether it points at the tunnel (`good`). A
name with a CNAME has no other record and hostnames belong to one row, so there
is at most one per database. The groups of actions:

- `Create`, `StartSucceeds`, `StartFails`, `RequestSync`, `RequestDelete`,
  `DeleteRemoves`, `BootVisits`: the callers. A start in flight writes over
  `deleting` here too; DELETE comes to `remove()` only after the start has ended.
- `SyncBegins` to `SyncRequestFails`: `sync()`; `RemoveBegins` to
  `RemoveRequestFails`: `remove()`. Each request may fail, may take effect although
  its answer is lost, and a POST may arrive after its timeout (`LateLands`). The end
  of an operation and what its caller does next are one step, as no other handler's
  await lies between: DELETE drops the row in the turn in which `remove()` answers.
- `Hand*`: an operator in Cloudflare's dashboard. `HandDisowns` (the comment is
  changed) may also come between the GET of a record and its DELETE, or between the
  read of a name and the PATCH; the history variable `overtaken` remembers that until
  the request is over.
- `Restart`: every chain is lost, each request in flight took effect or not, and
  `reconcileAll` visits the rows, in any order.

`syncLocked` takes its record back when the row has vanished meanwhile
(`dns/manager.ts:54-58`). Today's callers cannot get there: the row is dropped
behind the same chain. `Saves` keeps the branch; no run takes it.

### Access (`Access.tla`, `MCAccess.tla`)

Rows with their `ports`, the `sqld` that listens there (the public key it was
started with, which it never reads again), the allocator's `reserved` set and the
one allocation its chain lets in (`alloc`), the two key files, the tokens, the
verifier's `cache`, the API requests `h` and the gateway requests `g`. `AllocBegins`
to `CreateConflicts` are `allocatePair` with a probe per step and the INSERT that
follows; `ReadKey` to `WritePub` are `ensureDbKey`, each file opened (and thereby
truncated) and written in two steps; `RequestDelete` to `DropRow` are DELETE, which
releases the ports it read with the row and may run twice; `Arrive`, `Verify`,
`Send` and `Answer` are the gateway, which uses after two awaits what it read
before. `spoilt` records what befell the key files: two first uses that met, a
crash that cut one short, or a DELETE.

### Login (`Login.tla`, `MCLogin.tla`)

`failures` and `allFailed` are lists of reservations: an entry is its tick with its
number among those of that tick, and a refund removes one of the tick, whoever made
it, as the code's `indexOf` does. `try` are the
log-ins between their reservation and their answer, each with the admin row it
read. `LoginBegins` is `login()` up to the password check; `LoginUncounted`,
`LoginInvalid` and `LoginSucceeds` are its three ends. `SetPassword`,
`SetTotpSecret` and `RevokeSessions` are the commands of another process on the same
rows. A code is the TOTP step it belongs to. `late` marks a log-in that a command
overtook, and the session it opens.

### Rebuild (`Rebuild.tla`, `MCRebuild.tla`)

Metadata files are numbered, as a server or a command keeps the one it opened when
another command renames a new one into place. Each process of `Cmd` runs one command
at a time, beside the others: nothing in `cli.ts` keeps two apart. `Fetch` to `Park` are
`restore-control`, `ListPending` to `EndData` are `restore-data`, one write per step;
`CommandDies` may come between any two. A `restore-data` looks for the data file in
`Adopt` or `Stage` (`cli.ts:105`) and renames in `MoveIntoPlace` (`cli.ts:135`), over
whatever is there by then: a file the operator copied in (`CopyIn`) or one that another
`restore-data` put there, which shares its staging directory; `late` remembers whose look
was overtaken so. `Boot`, `Reconcile`, `Listen` are the server,
whose pid file and port appear only at the end of its boot, so that a command's
`ServerStopped` may pass while one boots. `Rebuild` and `VerifyQueue` share the constant of `Databases`, and
the names of their specifications differ (`RebuildSpec`, `VerifySpec`), so that one
module of proofs extends both.

### VerifyQueue (`VerifyQueue.tla`, `MCVerifyQueue.tla`)

A job of the queue is a promise chained to the one before it (`after`); `tail`,
`inQueue`, `pending` and `batch` are the fields of `VerifyService`, `timer` the day
the schedule fires. `latest` and `okAt` are the records, from which `Health` computes
what `/healthz` says; `proved` is when a restore really was found good.

### Jobs (`Jobs.tla`, `MCJobs.tla`)

A target's row, its data file, its staging directory and its job. A restore goes
through preflight, the list of the replica's files (for a point in time), download,
checks and placing; an import through the copy, the hash and placing. A stretch of
code in which a crash would leave the disk and the row apart has a step per write
(`Place`, `Unlock`, `HandOver`), and `Mid` keeps every other handler out. The source
commits and litestream ships and compacts (`commits`, `ltx`) in ticks of half a
second, while its files are stamped in whole seconds. `Boot` is the part of the
next boot that meets these rows.

POST start and stop (`StartBegins` to `StopEnds`) act on any row past the routes'
checks, in the steps that a crash or a DELETE can come between; `sqld` is the server of
the row and who holds its lock: a start up to its spawn (`key`) and while it waits for
the answer (`probe`), or a stop. A row that is `failed` by its job, which the routes
tell by the reason, and one that is for another reason are two values of `st`
(`failed`, `unlaunched`). The history variable `astray` remembers the two ways past
these checks: a boot that made a failed job's row `stopped`, and a start or a stop
that wrote over `deleting`.

### Health (`Health.tla`, `MCHealth.tla`)

`proc` is the replica status folded from log lines, `verified` and `control` the
other two inputs of `/healthz`. Beside what the code knows stands what is true:
`missing`, since when a change waits for its replica, and `saved`, when the newest
backup in the store was begun. `since` is how long a replica has been in its state.

## 4. Runs

Passing runs (`MC*.cfg`; the bounds are constants of the modules):

| run | instance | shows |
|---|---|---|
| supervisor | 1 database, 3 requests of any kind, 2 pids, 1 restart or shutdown | no untracked sqld, one writer, settled means dead, no stranger signalled, the refinement of `DataDirOwner` |
| supervisor_live | 1 database, 2 requests, fairness | requests finish, deaths are recorded, boots end |
| replicator | 1 database, 3 objects, 2 failures, 2 boots, fairness | one litestream per replica, quiet removal, clean exit; replication comes back, and ends when asked |
| control | Keep = 2, 2 callers, three scenarios (`MCBudgets`), fairness | success means saved, the store is never emptied, calls return, changes get there |
| dns | 1 database, 2 calls after its create, 2 failed requests, 2 restarts, 1 removal or takeover and 1 other change by hand, fairness | a record that was foreign when read stays, a DELETE whose requests succeeded leaves none of ours, `active` is true, calls return |
| access | 3 databases, 5 ports of which 1 is held by a stranger, 3 request slots, four scenarios (`ManyBounds`) | ports are exclusive and come back, a request is served at home, tokens verify |
| login | 2 addresses, 2 log-ins at a time, 3 in all, limits and window of 2, 3 commands, 1 restart | bursts are bounded, codes open one session, sessions end with their credentials |
| rebuild | 2 databases, 2 processes, 3 commands of which 1 is killed, 2 boots, 1 file copied in, 1 database without a usable replica or file, both disasters (an empty machine, unusable files) | nothing comes up empty, parked databases have their key, data in place when a command looked stays |
| verify_queue | 2 databases, 2 days, 1 request, 1 failing write, 1 restart, 1 change, fairness | one restore at a time, "ok" is recent proof, the schedule goes on |
| jobs | 2 targets, 1 workspace, five scenarios (`MCBounds`), fairness | what comes up or is started by hand has its data unless the row went `astray`, a point in time is kept, nothing dangles, jobs settle |
| health | 1 database, Lag 1, MaxAge 3, Grace 1, three scenarios (`MCBounds`) | a 200 hides no gap and no old control backup |

Why these bounds. Two pids and `MaxClock = 3` are the least with which a pid is
reused while a row still names it; three requests let one be in flight, one
queue and one interfere with what the first left. One restart reaches every
crash point followed by a whole boot and more requests.
Three objects of a database let an old, a current and a new entry coexist.
`Keep` = 2 is the least that tolerates a second pruner (with `KEEP=1` server and CLI
can delete each other's backup, section 6). Where several kinds of events would
multiply, a run has several small budgets and starts in any of them; each holds
the events of one hazard. `control` has a clock step and a `backup-control` apart:
together the other process may delete the backup the server is finishing, which is
what `ToldMeansSaved` excepts and what the theorem about it covers (that scenario
doubles the states). In `access` the third
database and the fifth port are what a pair needs to change hands; in `login` the
limits are 2, the least that a burst can pass together; in `rebuild` three commands
are a restore-control with its repetition and a restore-data, or with two restore-data
at a time, and `MaxFiles` = 2 lets a command make a file beside the one a boot made; in `jobs` a second has two
ticks, so that something can happen before and after a restore's moment within it.
The proofs remove the bounds where there are any.

`CHECK_DEADLOCK FALSE` everywhere: the bounds on starts, restarts and requests
make every instance stop in the end, and an idle server is legitimate.

Fairness. The event loop runs every ready continuation (weak fairness per
thread), timers fire, the kernel delivers exits, a process that was sent TERM
dies because KILL follows after a grace period, the store answers or fails
(client timeouts) and the daily timer comes round. Requests, crashes, restarts,
spontaneous deaths and changes are never owed.

Runs that must fail are the findings of section 6.

## 5. Proofs

For all constants, TLAPS shows:

- `SupervisorProofs`: `TypeCorrect`, `MapsAlwaysAgree`, `Serialized`, `NoOrphans`,
  `NeverTwoWriters`, `SettledIsDead`, `OnlyOursSignalled` and `Refines`. The safety
  invariants are not inductive: whether `SpawnChild` adds a second writer depends
  on the lock (whoever is past its check is the head of the chain), on the child
  map (it holds exactly the processes that are ours), on the adopted map (an
  orphan that reconcile tracked is adopted and watched), on the rows (pid plus
  start time names one process) and on the sweep's list (every live sqld that is not
  registered, and no other that is ours). `MapsAgree` is the conjunction of these;
  one lemma per conjunct and group of actions proves that they keep `IInv`. Refinement then is a case per action: it
  changes the live processes of no database, of one that had none, or of all at
  the ends of boot and shutdown.
- `ReplicatorProofs`: `TypeCorrect`, `EntriesAlwaysAgree`, `NeverTwoWriters`,
  `RemovalIsQuiet`, `ShutdownIsClean`, from `EntriesAgree`: an object the map has
  lost has neither process nor timer, and a stop that was called is over or
  waits for the entry's object.
- `BackupProofs`, of `ControlBackup`: `WaitersAlwaysHaveARun`, with the types of three
  variables; `ToldAlwaysMeansSaved`, and `NeverLeftWithoutBackup` if `KEEP` is above 1 or
  no `backup-control` ever runs (`Alone`; with `KEEP=1` and one it is false, section 6).
  Both come from `UploadInvariant`. `Fits` ties the objects to the phases: an upload
  that writes has its object and nobody takes it, what is excess is stored and with
  `KEEP` above 1 has a later backup behind it (`Tidy`), and while the clock has not
  stepped back later places hold later versions. `AskedInv` is what a caller can count
  on: the server's object is at least of its version, and once written some stored
  backup is. `InsertFits`, `RemoveFits` and `ChangeFits` say what an insertion, a
  removal and a change in place do to any sequence of objects (an insertion or removal
  is an order-preserving placement of the others, `Embeds`, so no induction is needed).
- `BackupProofs`, of `VerifyQueue`: `OneRestoreAtATime` and `HealthyAlwaysProved`, from
  `VerifyQueueInvariant`. The promises form one line although nobody lists them:
  `LineInv` says that some numbering `f` gives each verify that has not settled a
  place of its own, directly behind the one it is chained to, with `tail` at the end.
  Only the first may restore. `NamedInv` keeps two verifies of one database apart
  and, by counting, leaves a number free for the next; `RecordInv` relates the
  records to the proofs.
- `BackupProofs`, of `Rebuild`: `NothingEverComesUpEmpty`, `ParkedAlwaysHasItsKey` and
  the action property `PlacedAlwaysStays`, from `RebuildInvariant`. It numbers the
  metadata files (`GenInv`), says that a pending row is stopped and its key the
  backup's (`PendingInv`) and, for each process, how far its command has come with the
  keys and which file it has open (`CmdInv`), and that every row that would be launched
  has its data file, in the file in place, in the one a server has open and in the list
  its boot made (`RowFiles`). This last part, and that nothing is where a `restore-data`
  is about to rename unless it is `late` (`CmdFiles`), hold unless a boot was `early`,
  for which the properties make the same exceptions. The lemma of a step says what it
  writes, and `CommandsKeep` and `CommandsKeepFiles` what that leaves of the other
  processes.
- `DnsProofs`: `TypeCorrect`, `ActiveAlwaysPublished`, `ForeignNeverTouched`,
  `DeleteLeavesNoRecord`. A step
  is first put in database-by-database terms (`Elsewhere`, `GoesOn`, `Finishes`,
  `Changes` for an operation, `AddsOnly` for a request of the API, `Moves` for a
  call). `IInv` then adds three facts: a request belongs to the head of its chain
  (`ChainInv`); the record an operation is about to change was ours when read, and
  ids are not reused (`IdInv`, which is what keeps foreign records safe); whoever is
  past the start of a removal acts for a DELETE, which stays one (`AskedInv`,
  `StoppingInv`, which is what keeps an `active` row's record). The last theorem also
  needs that `deleteOwned()` always has an id to ask about (`GetInv`).
- `AccessProofs`: `PortsAlwaysExclusive`, `PortsAlwaysReturn`, `AlwaysServedAtHome`,
  `TokensAlwaysVerify`.
  That no two rows share a port hangs on who may insert one: a request queued for
  ports is alone with its absent row (`QueueInv`), and the allocation under way has
  seen the ports of every row, as no other can insert before it ends (`AllocInv`).
  That a request is served at home although its port may have changed hands hangs
  on the keys: no copy of a pair leaves its database (`HomeInv`, `TokenInv`).
- `LoginProofs`: `TypeCorrect`, `BurstsAlwaysBounded`, `CodesUsedOnce`,
  `SessionsAlwaysFollow`. That a burst is bounded hangs on the books (`BookInv`): from
  whatever time on one counts, the denied log-ins of an address and those under way
  are at most the entries of its list. A refund may take another log-in's entry, but
  only one of the same tick. `CodeInv` says that a used step is not later than the last
  one in the row, `ReadInv` that a log-in under way read valid credentials or is late.
- `JobsProofs`: `AlwaysComesUpWithItsData`, `NothingEverDangles`, `AlwaysPointInTime`. The
  first two come from an invariant per
  target: what each phase of a job knows of row and file (`PhaseInv`), which rows
  have their data (`DataInv`: whatever can be served or started has `auto_start`, and
  that came with the data, unless the row is astray), what may be staged (`StageInv`),
  what a DELETE has cleared so far and that no start is under way on such a row
  (`DeleteInv`, unless `deleting` was written over), that a workspace outlives its rows (`WorkspaceInv`),
  and that a crash leaves no job (`DownInv`). The third needs the times (`TimeInv`): a
  file of the replica holds nothing committed after the second it is stamped with
  (`SourceInv`), so what a job pins, stages or places is older than the second asked
  for, and before a restore's row exists nothing of it does (`PointInv`).
- `HealthProofs`: `TypeCorrect`, `GapShown`, `ControlFresh`. Neither is inductive: the
  status and the truth move at different events. `LineTimes` says that the times of
  lines are not from the future and that after `caught up` only newer changes are
  missing; `TrailTimes` that where a replica trails, either the missing change is
  hardly older than the first line that said so (by `Lag`), or `ok` has been shown
  only since that line; `ControlBelief` that the server never believes in a backup
  newer than the newest one.
They rest on the named `ASSUME`s of the modules, which only say that special
values are no members of the sets (`NoPid \notin Pid`) and that bounds are naturals.

Only model-checked: all liveness (the prover has neither fairness nor ENABLED). Every
safety property of a passing run, invariant or about steps, is a theorem.
`TypeOK` of every module holds on its run's instance when it is added to its cfg;
TLAPS proves it for `Supervisor`, `Replicator`, `Dns`, `Login`, `Rebuild` and `Health`.

## 6. Findings

`restore_empty` is the run that must fail; `PROJECT.json` quotes its sentence: a restore
fails, one boot marks its row `stopped` (`supervisor.ts:400`), and the start that is then
let through serves an empty database, against the comment of `assertNotRestoreTarget`
(`http/routes.ts:656-658`). A crash inside the restore leads there as well, with a boot
more.

The following are stated at the end of the modules and are refuted when they are
added to the run's cfg:

| formula | cfg | what the code does |
|---|---|---|
| `CrashedMeansDead` | MCSupervisor | `watchAdopted` marks a row crashed although a new child serves it (`supervisor.ts:424`, against 421-422) |
| `RemovesOnlyDeadFiles` (property) | MCSupervisor | a start queued behind a DELETE's kill runs before the files are removed, as an earlier start in flight has written over `deleting` (`routes.ts:327`, `supervisor.ts:257`) |
| `SweepSparesStrangers` | MCSupervisor | one second after SIGTERM the sweep SIGKILLs the pids it remembered after asking only whether they are alive (`supervisor.ts:497-499`): a stranger that took one meanwhile is killed (against 432-442) |
| `ShutdownLeavesNoSqld` | MCSupervisor | a start accepted during shutdown survives it (`supervisor.ts:519`, against 514) |
| `RunningIsServed` | MCSupervisor | an exit event before the probe's continuation leaves `running` without a process (`supervisor.ts:280`, against 5) |
| `ChangeIsScheduled` | MCControlBackup | a restart drops the pending backup (`index.ts:219`), the CLI's changes have no `onAudit`, and an import has no entry in `ACTIONS` (`http/auth-routes.ts:36-52`), so it is neither audited nor followed by a backup (against `docs/backups.md:186-187` and `README.md:114`); the daily run saves all of them |
| `FirstUsesAgree` | MCAccess | two first uses of a database's key leave a private and a public file of different pairs (`auth/tokens.ts:65`, whose comment says idempotent) |
| `EveryoneIsLoggedOut` | MCLogin | a log-in whose password check is under way during `set-password` opens a session with the old password (`auth/session.ts:128`, against the comment in `repos/auth.ts`) |
| `ServedAsVerified`, with `MovesWal = FALSE` | MCRebuild | a verified file is renamed beside the `-wal` of the file the operator moved away (`cli.ts:135`; `backup/restore.ts:303-305` removes it) |
| `NeverOverwritten` (property) | MCRebuild | a file copied in by hand while litestream restores is renamed over (`cli.ts:135`, against "Never overwritten" at 106 and `docs/backups.md:215`) |
| `NeverUnderAServer` (property) | MCRebuild | of two `restore-data` the one that looked first renames over a file that the other recorded and a boot serves by then (`cli.ts:135`, against 155) |
| `OnlyOursAreChanged` (property) | MCDns | a record an operator takes over, by its comment, after the server has read it as its own is still patched or deleted (`dns/cloudflare.ts:121, 133`, against 6-8) |
| `NeverServedWithoutItsData` | MCJobs | the start of `restore_empty`; also a boot that launches a row whose DELETE, cut short, had its `deleting` written over (`supervisor.ts:257, 280`, against `restore.ts:16-17`) |
| `SilenceIsLagging` | MCHealth | a replica that never logs stays `starting`, which `/healthz` takes for healthy (`backup/replicator.ts:129`, against `docs/backups.md:49-56`) |

Exceptions the properties make, each of which the code is exposed to: a boot in the
gap between placing the metadata and parking its rows launches them without data
(`early` in `Rebuild`); a data file that appears between the look and the rename of a
`restore-data` is lost (`late` in `Rebuild`); databases whose first uses of the key met or were cut short
(`spoilt` in `Access`); a record taken over between its read and its change
(`overtaken` in `Dns`); sessions of log-ins that were under way (`late` in `Login`);
rows that got past the checks of POST start (`astray` in `Jobs`).

Observed while modelling: the port-bound branch of reconcile leaves the dead pid in
the row (`supervisor.ts:384`, against `db/repos/databases.ts:168-171`); a stopped row
with `auto_start = 1` is not relaunched, which `docs/upgrade-sop.md:151-152` expects,
and keeps `/healthz` at 503; each change restarts the 60 s debounce, so a steady
stream of changes waits for the daily run (`backup/control.ts:276`); after a backward
clock step the last name is not the newest backup (`backup/control.ts:336`); with
`KEEP=1` a server upload and a `backup-control` that both list after both writes
delete each other's backup, and after a backward clock step (or with `KEEP=1`) the
prune of `backup-control` may delete the one the server has just written, before its
caller is told "ok" (`backup/control.ts:335`); `remove()` of DNS goes by the
saved id alone when there is one, so after a record of ours is removed by hand and a
POST that replaces it loses its answer, DELETE meets the old id's 404 and leaves the
new record (`dns/manager.ts:77-80`, against the comment at 67-71; the last conjunct of
`LeavesNoRecord` excepts it); the sampler's CPU baseline is kept by database, so the
first sample after a restart compares two processes (`metrics/sampler.ts:136-147`); an
import does not remove a `-wal` left beside its final path, as a restore does.

## 7. Assumptions and what is left out

- SIGKILL works promptly; in `Replicator`, within the 5 s `stop()` waits for it.
- A watched pid is not reused between its death and the poll (2 s) that finds it; the
  watcher and the wait of a stop look at the pid alone. The sweep's pids may be reused.
- The sweep finds every orphan: the binary at `sqldPath` is there and is the one they
  were started from (otherwise `sweepOrphans` returns 0 or skips them,
  `supervisor.ts:446-457, 473`), and `/proc` is readable.
- In `Supervisor` rows have ports (`Access` allocates them) and the first boot finds
  no rows; `failed_reason` "restore pending", which the rebuild commands write, is
  `Rebuild`'s. In `Access` a start is one lock-protected stretch with a launch that
  succeeds or fails, in `Rebuild` it is a single step, and in `Jobs` a request and its
  turn under the lock are one step and no sqld dies by itself: `Supervisor` has them
  in full. A command and its server are one machine; `Rebuild` does not replay the
  sqlds that outlive a crash.
- In `Rebuild` the renames of a file that is moved aside with its `-wal` and `-shm`, and
  of a key with its `.pub`, are one step: no property tells them apart. The operator
  copies a data file in only while the server is off, and moves one away only when no
  command runs either, as restore-data told him. Rows are restored into the data root
  they were saved from.
- Nobody awaits the batch that POST `/backups/verify` starts (`routes.ts:415`). When it
  rejects `VerifyQueue` goes on; should the runtime end the server for it, that is the
  `ServerRestarts` that may come at any step.
- `afterStart` work (DNS, manifest, first verification) is left out of `Supervisor`:
  it touches none of its state.
- `onLaunch` does not throw; a manifest that cannot be written waits for the next
  launch of litestream (`index.ts:247`).
- Hostnames are fixed: a changed template at a restart moves a row to another
  name and leaves its old record, which `Dns` has no second name for.
- Of the requests to Cloudflare that time out only a POST arrives late. A PATCH or
  DELETE names a record by its id, so a late one could only hurt if an operator
  took that very record over meanwhile, which `OnlyOursAreChanged` shows anyway.
- SQLite transactions are atomic and durable. S3 is consistent.
- In `Jobs` the copy of an import is one step after the check of its side files: an
  operator who opens the file between those two calls is not caught. A leftover at the
  final path is a database file, not a lone `-wal`. The `litestream restore` child of a
  crashed server ends with it.
- In `Health` a line is read when it is written, and times are ticks.
- Not modelled: encryption and JWT arithmetic (bits, no order); migrations;
  configuration, static files and the client address (pure functions of the
  environment or a request); the metrics sampler (reads `/proc`, changes nothing);
  the manifest beside a replica (written at a launch, only displayed); the dashboard
  (a client without state of record); the shell scripts.
