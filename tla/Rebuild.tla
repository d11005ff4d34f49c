------------------------------ MODULE Rebuild ------------------------------
(***************************************************************************)
(* Rebuilding a server: `sqlitend restore-control` brings back the         *)
(* metadata and the signing keys from the encrypted control-plane backup   *)
(* and parks every database, `sqlitend restore-data` brings each parked    *)
(* database's data back in place, and the next boot launches it            *)
(* (apps/server/src/cli.ts, backup/control.ts, index.ts).  The commands    *)
(* are processes of their own: they run beside each other and beside a     *)
(* server that is booting, die at any step, and are run again.             *)
(*                                                                         *)
(* A metadata.sqlite is a numbered file: a server or a command keeps the   *)
(* one it opened when a command moves it aside.  Contents are abstract: a  *)
(* data file holds what the replica has, what the operator copied in by    *)
(* hand, no data, or nothing usable; a key is                              *)
(* the backup's or a fresh one.  A server takes its sqlds with it (orphans *)
(* are Supervisor's), and rows are restored into the same data root.       *)
(***************************************************************************)
EXTENDS Databases

CONSTANTS Cmd,       \* the processes that run rebuild commands
          MaxBoots,  \* bound: server boots
          MaxCmds,   \* bound: rebuild commands run
          MaxDeaths, \* bound: commands killed half-way
          MaxCopies, \* bound: data files copied in by hand
          MaxFiles,  \* bound: metadata files made
          MaxLost,   \* bound: databases whose replica or data file is no use
          MovesWal   \* the operator who moves a data file away takes its -wal along

ASSUME RebuildAssumption ==
    /\ {MaxBoots, MaxCmds, MaxDeaths, MaxCopies, MaxFiles, MaxLost} \subseteq Nat
    /\ MovesWal \in BOOLEAN

VARIABLES
    place,    \* the metadata.sqlite in the data root, or NoFile
    meta,     \* the rows of every metadata file, in place or aside
    parked,   \* the restored files whose rows have been parked
    key,      \* keys/<id>.key
    file,     \* the data file of each database
    wal,      \* the -wal beside it: its own, another file's, or none
    staging,  \* <data_dir>.restore/data, which all commands share
    store,    \* what the replica of each database restores to
    bundle,   \* the rows in the control-plane backup
    server,   \* the control plane: off, booting, or up (listening, pid file written)
    handle,   \* the metadata file the server has open
    todo,     \* reconcile()'s rows still to visit, as it listed them
    served,   \* the databases with a live sqld
    cmd,      \* the rebuild command each process runs
    early,    \* history: a server booted on a restored file before it was parked
    late,     \* history: the processes past their look at a data file that then
              \* appeared, by hand or from another command
    gens,     \* metadata files made so far
    boots, cmds, deaths, copies

disk   == <<place, meta, parked, key, file, wal, staging, gens>>
world  == <<store, bundle>>
daemon == <<server, handle, todo, served, early>>
counts == <<boots, cmds, deaths, copies>>
rebuildVars == <<disk, world, daemon, counts, cmd, late>>

NoFile  == -1
Gens    == 0 .. MaxFiles
Content == {"none", "full", "copied", "empty", "junk", "mixed"}
Keys    == {"none", "backup", "fresh"}
\* A row; "interrupted" is failed with the reason of a restore cut short.
Row     == [status : {"absent", "running", "starting", "stopped", "failed", "restoring", "interrupted"},
            auto : BOOLEAN, pending : BOOLEAN]

\* A database's row as the server leaves it; a restore's target has auto_start = 0.
Saved(s) == [status |-> s, auto |-> s # "restoring", pending |-> FALSE]
NoRows   == [d \in Db |-> [status |-> "absent", auto |-> FALSE, pending |-> FALSE]]

\* A command: its name, its step, the databases or keys still to visit, the
\* one at hand and the metadata file it has open.
NoDb == "-"
Idle == [name |-> "none", step |-> "done", left |-> {}, cur |-> NoDb, opened |-> NoFile]
Commands == [name : {"none", "control", "data"},
             step : {"done", "fetch", "write", "place", "keys", "park",
                     "list", "row", "restore", "check", "move", "record"},
             left : SUBSET Db, cur : Db \cup {NoDb}, opened : Gens \cup {NoFile}]

\* snapshotControlPlane: the rows and the key files at one moment; the target
\* of a restore gets its key when it is first started.
BundleKeys == {d \in Db : bundle[d].status # "restoring"}

----------------------------------------------------------------------------
(* The disaster: a machine with nothing on it, or one with its metadata,   *)
(* its keys, and data files of which some are unusable.                    *)
RebuildInit ==
    /\ bundle \in [Db -> {Saved(s) : s \in {"running", "restoring"}}]
    /\ store \in [Db -> {"full", "junk", "none"}]
    /\ \A d \in Db : bundle[d].status = "restoring" <=> store[d] = "none"
    /\ \/ /\ place = NoFile
          /\ key = [d \in Db |-> "none"]
          /\ file = [d \in Db |-> "none"]
       \/ /\ place = 0
          /\ key = [d \in Db |-> "backup"]
          /\ file \in [Db -> {"full", "junk"}]
    /\ Cardinality({d \in Db : store[d] # "full" \/ file[d] = "junk"}) <= MaxLost
    /\ wal = [d \in Db |-> IF file[d] = "none" THEN "none" ELSE "own"]
    /\ staging = [d \in Db |-> "none"]
    /\ meta = [g \in Gens |-> IF g = 0 /\ place = 0 THEN [d \in Db |-> Saved("running")] ELSE NoRows]
    /\ parked = {} /\ gens = 0
    /\ server = "off" /\ handle = NoFile /\ todo = {} /\ served = {}
    /\ early = FALSE /\ cmd = [c \in Cmd |-> Idle] /\ late = {}
    /\ boots = 0 /\ cmds = 0 /\ deaths = 0 /\ copies = 0

----------------------------------------------------------------------------
(* The server                                                              *)

\* The rows reconcile() visits: {running, starting, failed}, with the
\* auto_start it read in the same list().
Tracked(rows) ==
    {<<d, rows[d].auto>> : d \in {e \in Db : rows[e].status \in {"running", "starting", "failed", "interrupted"}}}

\* It creates the file, without rows, if there is none.
OpenMetadata ==
    IF place = NoFile
    THEN gens < MaxFiles /\ place' = gens + 1 /\ gens' = gens + 1
    ELSE UNCHANGED <<place, gens>>

\* The metadata is opened, and reconcile() lists its rows.
Boot ==
    /\ server = "off" /\ boots < MaxBoots
    /\ server' = "booting"
    /\ boots' = boots + 1
    /\ OpenMetadata
    /\ handle' = place'
    /\ todo' = Tracked(meta[place'])
    /\ early' = (early \/ (place' \notin parked \cup {0} /\ meta[place'] # NoRows))
    /\ UNCHANGED <<meta, parked, key, file, wal, staging, world, served, cmd, late, cmds, deaths, copies>>

\* The row of d in the file the server has open.
SetRow(d, row) == meta' = [meta EXCEPT ![handle][d] = row]

\* ensureDbKey, then sqld on the data directory: it makes an empty database
\* of a missing file, fails on an unusable one, and replays whatever -wal it finds.
Launch(d) ==
    /\ key' = IF key[d] = "none" THEN [key EXCEPT ![d] = "fresh"] ELSE key
    /\ IF file[d] = "junk"
       THEN /\ SetRow(d, [meta[handle][d] EXCEPT !.status = "failed", !.pending = FALSE])
            /\ UNCHANGED <<file, wal, served>>
       ELSE /\ SetRow(d, [meta[handle][d] EXCEPT !.status = "running", !.pending = FALSE])
            /\ file' = [file EXCEPT ![d] = IF @ = "none" THEN "empty"
                                           ELSE IF wal[d] = "other" THEN "mixed" ELSE @]
            /\ wal' = [wal EXCEPT ![d] = "own"]
            /\ served' = served \cup {d}

\* One row of reconcile(): relaunch if auto_start = 1, else mark it stopped.
Reconcile ==
    /\ server = "booting"
    /\ \E r \in todo :
          /\ todo' = todo \ {r}
          /\ \/ /\ r[2]
                /\ Launch(r[1])
             \/ /\ ~r[2]
                /\ SetRow(r[1], [meta[handle][r[1]] EXCEPT !.status = "stopped"])
                /\ UNCHANGED <<key, file, wal, served>>
    /\ UNCHANGED <<place, parked, staging, gens, world, server, handle, early, counts, cmd, late>>

\* The rest of the boot: interrupted restores are marked failed, replication
\* starts, the server listens and only then writes its pid file.
Listen ==
    /\ server = "booting" /\ todo = {}
    /\ server' = "up"
    /\ meta' = [meta EXCEPT ![handle] =
                   [d \in Db |-> IF @[d].status = "restoring"
                                 THEN [@[d] EXCEPT !.status = "interrupted"] ELSE @[d]]]
    /\ UNCHANGED <<place, parked, key, file, wal, staging, gens, world, handle, todo, served, early,
                   counts, cmd, late>>

\* assertNotRestoreTarget: no running, pending or failed restore.
MayStart(row) == row.status \notin {"absent", "restoring", "interrupted"} /\ ~row.pending

\* POST /start.
Start(d) ==
    /\ server = "up" /\ d \notin served /\ MayStart(meta[handle][d])
    /\ Launch(d)
    /\ UNCHANGED <<place, parked, staging, gens, world, server, handle, todo, early, counts, cmd, late>>

\* Litestream uploads a running database: its replica restores to what it holds.
Replicate(d) ==
    /\ server = "up" /\ d \in served /\ store[d] # file[d]
    /\ store' = [store EXCEPT ![d] = file[d]]
    /\ UNCHANGED <<disk, bundle, daemon, counts, cmd, late>>

\* Shutdown, SIGKILL, power loss: the rows stay as they are.
ServerEnds ==
    /\ server # "off"
    /\ server' = "off" /\ handle' = NoFile /\ todo' = {} /\ served' = {}
    /\ UNCHANGED <<disk, world, early, counts, cmd, late>>

----------------------------------------------------------------------------
(* The rebuild commands                                                    *)

Step(c, s) == cmd' = [cmd EXCEPT ![c].step = s]
At(c, name, s) == cmd[c].name = name /\ cmd[c].step = s
NextRow(c) == cmd' = [cmd EXCEPT ![c].step = "row", ![c].cur = NoDb]
Ends(c) == cmd' = [cmd EXCEPT ![c] = Idle]

\* The pid file names a live sqlitend from the end of its boot until it ends:
\* one that a dead server left behind is ignored, whoever has its pid now.
RunningServerPid == server = "up"

\* Something answers on the port: from the end of the boot as well.
Answers == server = "up"

ServerStopped == ~RunningServerPid /\ ~Answers

\* A rebuild command starts, whatever commands run already; a refused one
\* changes nothing.
Command(c, name) ==
    /\ cmd[c] = Idle /\ cmds < MaxCmds /\ ServerStopped
    /\ cmds' = cmds + 1
    /\ cmd' = [cmd EXCEPT ![c] = [Idle EXCEPT !.name = name,
                                     !.step = IF name = "control" THEN "fetch" ELSE "list"]]
    /\ UNCHANGED <<disk, world, daemon, late, boots, deaths, copies>>

\* What a download may be: the backup, one sealed with another key, one that
\* was cut short or altered, or none at all.
Blobs == {"backup", "foreign", "damaged", "none"}

\* decryptBundle throws for whatever this key did not seal.
Decrypts(blob) == blob = "backup"

\* list, download and decrypt the newest control-plane backup.
Fetch(c) ==
    /\ At(c, "control", "fetch")
    /\ \E blob \in Blobs : IF Decrypts(blob) THEN Step(c, "write") ELSE Ends(c)
    /\ UNCHANGED <<disk, world, daemon, late, counts>>

\* writeControlPlane refuses to touch what exists, or (--force) moves it aside:
\* the metadata is looked at, and moved, before the keys are.
MoveAside(c) ==
    /\ At(c, "control", "write")
    /\ \E force \in BOOLEAN :
          \/ /\ place # NoFile /\ ~force
             /\ Ends(c)
             /\ UNCHANGED place
          \/ /\ place # NoFile => force
             /\ place' = NoFile
             /\ \/ ~force /\ (\E d \in BundleKeys : key[d] = "fresh") /\ Ends(c)
                \/ (force \/ \A d \in BundleKeys : key[d] # "fresh") /\ Step(c, "place")
    /\ UNCHANGED <<meta, parked, key, file, wal, staging, gens, world, daemon, late, counts>>

\* metadata.sqlite is the first file of the bundle; one that a booting server or
\* another command has just made is renamed over.
PlaceMetadata(c) ==
    /\ At(c, "control", "place") /\ gens < MaxFiles
    /\ place' = gens + 1
    /\ gens' = gens + 1
    /\ meta' = [meta EXCEPT ![gens + 1] = bundle]
    /\ cmd' = [cmd EXCEPT ![c].step = "keys", ![c].left = BundleKeys]
    /\ UNCHANGED <<parked, key, file, wal, staging, world, daemon, late, counts>>

\* Mutant of PlacedKey: a key that exists is kept.
PlacedKeyKeeps(d) == IF key[d] = "none" THEN "backup" ELSE key[d]

\* What writing one key leaves at its path: a different key is moved aside.
PlacedKey(d) == "backup"

PlaceKey(c, d) ==
    /\ At(c, "control", "keys") /\ d \in cmd[c].left
    /\ key' = [key EXCEPT ![d] = PlacedKey(d)]
    /\ cmd' = [cmd EXCEPT ![c].left = @ \ {d}]
    /\ UNCHANGED <<place, meta, parked, file, wal, staging, gens, world, daemon, late, counts>>

\* restore-control opens the metadata in place, which need not be what it wrote.
OpenPlaced(c) ==
    /\ At(c, "control", "keys") /\ cmd[c].left = {}
    /\ OpenMetadata
    /\ cmd' = [cmd EXCEPT ![c].step = "park", ![c].opened = place']
    /\ UNCHANGED <<meta, parked, key, file, wal, staging, world, daemon, late, counts>>

\* Mutant of Parked: the rows keep the status and auto_start they were saved with.
ParkedAsSaved(row) == [row EXCEPT !.pending = row.status # "absent"]

\* UPDATE databases SET status = 'stopped', auto_start = 0, ..., failed_reason = RESTORE_PENDING
Parked(row) == IF row.status = "absent" THEN row
               ELSE [status |-> "stopped", auto |-> FALSE, pending |-> TRUE]

Park(c) ==
    /\ At(c, "control", "park")
    /\ meta' = [meta EXCEPT ![cmd[c].opened] = [d \in Db |-> Parked(@[d])]]
    /\ parked' = parked \cup {cmd[c].opened}
    /\ Ends(c)
    /\ UNCHANGED <<place, key, file, wal, staging, gens, world, daemon, late, counts>>

\* restore-data opens (or creates) the metadata and lists the parked rows.
ListPending(c) ==
    /\ At(c, "data", "list")
    /\ OpenMetadata
    /\ LET pending == {d \in Db : meta[place'][d].pending}
       IN IF pending = {} THEN Ends(c)
          ELSE cmd' = [cmd EXCEPT ![c].step = "row", ![c].left = pending, ![c].opened = place']
    /\ UNCHANGED <<meta, parked, key, file, wal, staging, world, daemon, late, counts>>

\* Mutant of InPlace: a file that is there is restored over.
InPlaceIgnored(d) == FALSE

InPlace(d) == file[d] # "none"

\* The next row: a file in place is adopted if it is sound.
Adopt(c, d) ==
    /\ At(c, "data", "row") /\ d \in cmd[c].left /\ InPlace(d)
    /\ \/ file[d] = "junk" /\ cmd' = [cmd EXCEPT ![c].left = @ \ {d}]
       \/ /\ file[d] # "junk"
          /\ cmd' = [cmd EXCEPT ![c].left = @ \ {d}, ![c].cur = d, ![c].step = "record"]
    /\ UNCHANGED <<disk, world, daemon, late, counts>>

\* Otherwise the replica is looked for, the staging directory made anew (also one
\* another command restores into) and litestream started.
Stage(c, d) ==
    /\ At(c, "data", "row") /\ d \in cmd[c].left /\ ~InPlace(d)
    /\ \/ /\ cmd' = [cmd EXCEPT ![c].left = @ \ {d}]
          /\ UNCHANGED <<staging, late>>
       \/ /\ store[d] # "none"
          /\ cmd' = [cmd EXCEPT ![c].left = @ \ {d}, ![c].cur = d, ![c].step = "restore"]
          /\ staging' = [staging EXCEPT ![d] = "none"]
          /\ late' = late \ {c}
    /\ UNCHANGED <<place, meta, parked, key, file, wal, gens, world, daemon, counts>>

\* litestream restore: what it leaves in the staging directory, if it succeeds.
Restored(c) ==
    /\ At(c, "data", "restore")
    /\ \/ /\ NextRow(c)
          /\ staging' = [staging EXCEPT ![cmd[c].cur] = "none"]
       \/ /\ store[cmd[c].cur] # "none"
          /\ Step(c, "check")
          /\ staging' = [staging EXCEPT ![cmd[c].cur] = store[cmd[c].cur]]
    /\ UNCHANGED <<place, meta, parked, key, file, wal, gens, world, daemon, late, counts>>

\* integrity_check of what is in the staging directory now.
CheckIntegrity(c) ==
    /\ At(c, "data", "check")
    /\ IF staging[cmd[c].cur] \in {"none", "junk"}
       THEN NextRow(c) /\ staging' = [staging EXCEPT ![cmd[c].cur] = "none"]
       ELSE Step(c, "move") /\ UNCHANGED staging
    /\ UNCHANGED <<place, meta, parked, key, file, wal, gens, world, daemon, late, counts>>

\* A command that has looked for a data file of d and not yet renamed one into place.
Looked(c, d) == cmd[c].step \in {"restore", "check", "move"} /\ cmd[c].cur = d

\* rename into place, over whatever has appeared there since the look, and the end
\* of the staging directory: a -wal already beside the final path stays there.
\* It throws if another command has taken the staged file away.
MoveIntoPlace(c) ==
    LET d == cmd[c].cur IN
    /\ At(c, "data", "move")
    /\ \/ staging[d] = "none" /\ Ends(c) /\ UNCHANGED <<file, staging, late>>
       \/ /\ staging[d] # "none"
          /\ file' = [file EXCEPT ![d] = staging[d]]
          /\ staging' = [staging EXCEPT ![d] = "none"]
          /\ late' = (late \ {c}) \cup {b \in Cmd \ {c} : Looked(b, d)}
          /\ Step(c, "record")
    /\ UNCHANGED <<place, meta, parked, key, wal, gens, world, daemon, counts>>

\* UPDATE databases SET status = 'starting', auto_start = 1, failed_reason = NULL
Record(c) ==
    /\ At(c, "data", "record")
    /\ meta' = [meta EXCEPT ![cmd[c].opened][cmd[c].cur] = Saved("starting")]
    /\ NextRow(c)
    /\ UNCHANGED <<place, parked, key, file, wal, staging, gens, world, daemon, late, counts>>

EndData(c) ==
    /\ At(c, "data", "row") /\ cmd[c].left = {}
    /\ Ends(c)
    /\ UNCHANGED <<disk, world, daemon, late, counts>>

\* The command is killed: what it wrote stays.
CommandDies(c) ==
    /\ cmd[c] # Idle /\ deaths < MaxDeaths
    /\ deaths' = deaths + 1
    /\ Ends(c)
    /\ UNCHANGED <<disk, world, daemon, late, boots, cmds, copies>>

----------------------------------------------------------------------------
(* The operator                                                            *)

\* "move it away and re-run": the operator clears an unusable file that
\* restore-data reported, and its -wal if he thinks of it.
MoveAway(d) ==
    /\ server = "off" /\ \A c \in Cmd : cmd[c] = Idle
    /\ place # NoFile /\ meta[place][d].pending /\ file[d] = "junk"
    /\ file' = [file EXCEPT ![d] = "none"]
    /\ \E w \in {"none"} \cup (IF MovesWal THEN {} ELSE {"other"}) :
          wal' = [wal EXCEPT ![d] = w]
    /\ UNCHANGED <<place, meta, parked, key, staging, gens, world, daemon, late, counts, cmd>>

\* "or one copied in by hand": a sound file for a parked database that has none,
\* while commands run or not.
CopyIn(d) ==
    /\ server = "off" /\ copies < MaxCopies
    /\ place # NoFile /\ meta[place][d].pending /\ file[d] = "none"
    /\ copies' = copies + 1
    /\ file' = [file EXCEPT ![d] = "copied"]
    /\ late' = late \cup {c \in Cmd : Looked(c, d)}
    /\ UNCHANGED <<place, meta, parked, key, wal, staging, gens, world, daemon, boots, cmds, deaths, cmd>>

RebuildNext ==
    \/ Boot \/ Reconcile \/ Listen \/ ServerEnds
    \/ \E d \in Db : Start(d) \/ Replicate(d) \/ MoveAway(d) \/ CopyIn(d)
    \/ \E c \in Cmd :
          \/ \E name \in {"control", "data"} : Command(c, name)
          \/ Fetch(c) \/ MoveAside(c) \/ PlaceMetadata(c) \/ OpenPlaced(c) \/ Park(c)
          \/ ListPending(c) \/ Restored(c) \/ CheckIntegrity(c) \/ MoveIntoPlace(c) \/ Record(c)
          \/ EndData(c) \/ CommandDies(c)
          \/ \E d \in Db : PlaceKey(c, d) \/ Adopt(c, d) \/ Stage(c, d)

RebuildSpec == RebuildInit /\ [][RebuildNext]_rebuildVars

----------------------------------------------------------------------------
(* Properties                                                              *)

RebuildTypeOK ==
    /\ place \in Gens \cup {NoFile} /\ gens \in Gens
    /\ meta \in [Gens -> [Db -> Row]]
    /\ parked \subseteq Gens
    /\ key \in [Db -> Keys]
    /\ file \in [Db -> Content]
    /\ wal \in [Db -> {"none", "own", "other"}]
    /\ staging \in [Db -> Content] /\ store \in [Db -> Content]
    /\ bundle \in [Db -> Row]
    /\ server \in {"off", "booting", "up"}
    /\ handle \in Gens \cup {NoFile}
    /\ todo \subseteq Db \X BOOLEAN
    /\ served \subseteq Db
    /\ cmd \in [Cmd -> Commands]
    /\ early \in BOOLEAN /\ late \subseteq Cmd
    /\ boots \in 0 .. MaxBoots /\ cmds \in 0 .. MaxCmds
    /\ deaths \in 0 .. MaxDeaths /\ copies \in 0 .. MaxCopies

\* No database comes up without its data, however commands are killed,
\* re-run and overlapped by boots, unless a server booted between the two
\* steps of restore-control that place the rows and park them (cli.ts:77).
NothingComesUpEmpty == early \/ \A d \in Db : file[d] # "empty"

\* A parked database has the signing key of the backup: every token issued
\* before the disaster verifies again once its data is back (control.ts:167).
ParkedHasItsKey ==
    place # NoFile => \A d \in BundleKeys : meta[place][d].pending => key[d] = "backup"

\* restore-data never restores over a data file: not over one an earlier run put
\* in place, nor over one that was there when it looked (cli.ts:106). Excepted are
\* a file that came between its look (cli.ts:105) and its rename (cli.ts:135), by
\* hand or from another restore-data (late), and the gap of `early`.
PlacedStays ==
    [][\A c \in Cmd, d \in Db :
          file'[d] = file[d] \/ file[d] = "none" \/ cmd'[c] = cmd[c] \/ early \/ c \in late]_rebuildVars

\* "Never overwritten", as cli.ts:106 says of a file already in place. Violated: a
\* file copied in while litestream runs is renamed over (README, section 6).
NeverOverwritten ==
    [][\A c \in Cmd, d \in Db :
          file'[d] = file[d] \/ file[d] = "none" \/ cmd'[c] = cmd[c] \/ early]_rebuildVars

\* No command replaces the file of a database that is being served (cli.ts:155).
\* Violated by a second restore-data that looked before the first one's boot.
NeverUnderAServer ==
    [][\A c \in Cmd, d \in served : file'[d] = file[d] \/ cmd'[c] = cmd[c] \/ early]_rebuildVars

\* What sqld serves is a file that was verified, or its own: never one that
\* another file's -wal was replayed onto (restore.ts:303, docs/backups.md).
ServedAsVerified == \A d \in served : file[d] # "mixed"
============================================================================
