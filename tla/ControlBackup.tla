--------------------------- MODULE ControlBackup ----------------------------
(***************************************************************************)
(* Encrypted control-plane backups (backup/control.ts, ControlBackupService*)
(* and its wiring in index.ts and cli.ts): debounced, scheduled and        *)
(* on-demand runs share one upload at a time, objects are named by the     *)
(* clock, and old ones are pruned.  What is backed up is a version: each   *)
(* change that a rebuild needs makes a new one.                            *)
(***************************************************************************)
EXTENDS Naturals, FiniteSets, SequencesExt

CONSTANTS
  Call,        \* runNow() calls of POST /api/backups/control
  Keep,        \* SQLITEND_CONTROL_BACKUP_KEEP
  None,        \* no service
  MaxVersion,  \* bound: changes
  Budgets      \* bounds: how often each of Events may happen

\* Changes made by the CLI, requests to the store that fail, restarts of the
\* server, runs of `sqlitend backup-control`; whether the clock may step back.
Events == {"cli", "fail", "boot", "run", "clock"}

\* The server's service and the one of a CLI run.
Svc == {"server", "cli"}

ASSUME ControlAssumption ==
  /\ Keep \in Nat \ {0}
  /\ None \notin Svc
  /\ Budgets \subseteq [Events -> Nat]

VARIABLES
  version,   \* of metadata.sqlite and keys/
  objects,   \* under control/, in the order of their names
  phase,     \* the upload of a service
  followUp,  \* a follow-up run is chained on the server's upload
  debounce,  \* the timer of trigger() runs
  due,       \* there is a change that no snapshot contains
  call,      \* what each runNow() call waits for
  asked,     \* the version when it was made
  behind,    \* the clock may be behind the names given so far
  budget     \* how often each bounded event may still happen

uploadVars == <<objects, phase>>
callVars == <<call, asked>>
vars == <<version, uploadVars, followUp, debounce, due, callVars, behind, budget>>

Happens(e) == budget[e] > 0 /\ budget' = [budget EXCEPT ![e] = @ - 1]

\* An object has its name from the moment its upload starts; "of" is the
\* service still at that upload, "excess" the ones about to delete it.
Object == [version : Nat, stored : BOOLEAN, of : Svc \cup {None}, excess : SUBSET Svc]

TypeOK ==
  /\ version \in 1..MaxVersion
  /\ objects \in Seq(Object)
  /\ \A s \in Svc : Cardinality({i \in DOMAIN objects : objects[i].of = s}) <= 1
  /\ phase \in [Svc -> {"idle", "write", "list", "prune"}]
  /\ followUp \in BOOLEAN
  /\ debounce \in BOOLEAN
  /\ due \in BOOLEAN
  /\ call \in [Call -> {"idle", "upload", "followUp", "ok", "failed"}]
  /\ asked \in [Call -> 0..MaxVersion]
  /\ behind \in BOOLEAN
  /\ budget \in [Events -> Nat]

\* What listKeys() finds.
Stored == {objects[i] : i \in {j \in DOMAIN objects : objects[j].stored}}

\* The object of s when its upload ended: there or not, and nobody's.
Kept(s) == [i \in DOMAIN objects |->
              IF objects[i].of = s
              THEN [objects[i] EXCEPT !.of = None]
              ELSE objects[i]]

Dropped(s) == RemoveAt(objects, CHOOSE i \in DOMAIN objects : objects[i].of = s)

NoExcess(s, objs) == [i \in DOMAIN objs |-> [objs[i] EXCEPT !.excess = @ \ {s}]]

\* Mutant of NewObject: the snapshot is taken when the service is made.
NewObjectOfBoot(s) == [version |-> 1, stored |-> FALSE, of |-> s, excess |-> {}]

NewObject(s) == [version |-> version, stored |-> FALSE, of |-> s, excess |-> {}]

\* The first boot finds no backup and takes one.
Init ==
  /\ version = 1
  /\ objects = <<[version |-> 1, stored |-> FALSE, of |-> "server", excess |-> {}]>>
  /\ phase = [s \in Svc |-> IF s = "server" THEN "write" ELSE "idle"]
  /\ followUp = FALSE
  /\ debounce = FALSE
  /\ due = FALSE
  /\ call = [c \in Call |-> "idle"]
  /\ asked = [c \in Call |-> 0]
  /\ behind = FALSE
  /\ budget \in Budgets

-----------------------------------------------------------------------------
(* Changes and the clock.                                                  *)

Changed ==
  /\ version < MaxVersion
  /\ version' = version + 1
  /\ due' = TRUE

\* The requests that change what a rebuild needs.
Routes == {"workspace", "database", "token", "restore", "import"}

\* Those whose path ACTIONS has a name for.  An import has none.
Named == Routes \ {"import"}

\* A request was answered "ok"; if it has a name it is audited, and the audit's
\* observer calls trigger().
Audited(route) == debounce' = (debounce \/ route \in Named)

ApiChange(route) ==
  /\ Changed
  /\ Audited(route)
  /\ UNCHANGED <<uploadVars, followUp, callVars, behind, budget>>

\* set-password, enable-totp and disable-totp run in the CLI's process.
CliChange ==
  /\ Changed
  /\ Happens("cli")
  /\ UNCHANGED <<uploadVars, followUp, debounce, callVars, behind>>

ClockStepsBack ==
  /\ budget["clock"] > 0
  /\ behind' = TRUE
  /\ UNCHANGED <<version, uploadVars, followUp, debounce, due, callVars, budget>>

-----------------------------------------------------------------------------
(* runNow() and upload().                                                  *)

\* upload() of s up to its first await, when the objects are objs: the
\* snapshot is taken and the object named.  Its name is the last, unless the
\* clock is behind.
UploadsTo(s, objs) ==
  /\ phase' = [phase EXCEPT ![s] = "write"]
  /\ \E i \in (IF behind THEN 1 ELSE Len(objs) + 1)..Len(objs) + 1 :
       objects' = InsertAt(objs, i, NewObject(s))
  /\ due' = FALSE

Uploads(s) == UploadsTo(s, objects)

\* During an upload a follow-up is chained, and concurrent callers share it.
RunNow ==
  IF phase["server"] = "idle"
  THEN Uploads("server") /\ UNCHANGED followUp
  ELSE followUp' = TRUE /\ UNCHANGED <<uploadVars, due>>

\* Mutant of RequestBackup: a call during an upload is answered by that upload.
RequestBackupShared(c) ==
  /\ call[c] = "idle"
  /\ call' = [call EXCEPT ![c] = "upload"]
  /\ asked' = [asked EXCEPT ![c] = version]
  /\ RunNow
  /\ UNCHANGED <<version, debounce, behind, budget>>

\* POST /api/backups/control
RequestBackup(c) ==
  /\ call[c] = "idle"
  /\ call' = [call EXCEPT ![c] = IF phase["server"] = "idle" THEN "upload" ELSE "followUp"]
  /\ asked' = [asked EXCEPT ![c] = version]
  /\ RunNow
  /\ UNCHANGED <<version, debounce, behind, budget>>

DebounceFires ==
  /\ debounce
  /\ debounce' = FALSE
  /\ RunNow
  /\ UNCHANGED <<version, callVars, behind, budget>>

\* The daily run: it is scheduled again when the run before has ended.
ScheduledRun ==
  /\ RunNow
  /\ UNCHANGED <<version, debounce, callVars, behind, budget>>

\* `sqlitend backup-control`, in a process of its own.
CliBackup ==
  /\ phase["cli"] = "idle"
  /\ Happens("run")
  /\ Uploads("cli")
  /\ UNCHANGED <<version, followUp, debounce, callVars, behind>>

WriteSucceeds(s) ==
  /\ phase[s] = "write"
  /\ objects' = [i \in DOMAIN objects |->
                   IF objects[i].of = s THEN [objects[i] EXCEPT !.stored = TRUE] ELSE objects[i]]
  /\ phase' = [phase EXCEPT ![s] = "list"]
  /\ UNCHANGED <<version, followUp, debounce, due, callVars, behind, budget>>

\* Mutant of Excess: the backup just written is counted twice.
ExcessTooMany(s) ==
  LET names == {i \in DOMAIN objects : objects[i].stored /\ objects[i].of # s} IN
  {i \in names : Cardinality({j \in names : j > i}) + 2 >= Keep}

\* What prune() deletes: all but the Keep - 1 newest and the one just written.
Excess(s) ==
  LET names == {i \in DOMAIN objects : objects[i].stored /\ objects[i].of # s} IN
  {i \in names : Cardinality({j \in names : j > i}) >= Keep - 1}

Lists(s) ==
  /\ phase[s] = "list"
  /\ LET doomed == Excess(s) IN
     objects' = [i \in DOMAIN objects |->
                   IF i \in doomed
                   THEN [objects[i] EXCEPT !.excess = @ \cup {s}]
                   ELSE objects[i]]
  /\ phase' = [phase EXCEPT ![s] = "prune"]
  /\ UNCHANGED <<version, followUp, debounce, due, callVars, behind, budget>>

\* Mutant of Settles: the end of an upload clears the follow-up as well.
SettlesForgets(s, result, objs) ==
  /\ phase' = [phase EXCEPT ![s] = "idle"]
  /\ objects' = objs
  /\ followUp' = (followUp /\ s # "server")
  /\ call' = [c \in Call |-> IF s = "server" /\ call[c] = "upload" THEN result ELSE call[c]]
  /\ UNCHANGED due

\* The upload of s is over and leaves objs.  The server's callers are told,
\* and its follow-up takes its snapshot at once, even after a failure.
Settles(s, result, objs) ==
  IF s = "server" /\ followUp
  THEN /\ UploadsTo(s, objs)
       /\ followUp' = FALSE
       /\ call' = [c \in Call |-> CASE call[c] = "upload" -> result
                                    [] call[c] = "followUp" -> "upload"
                                    [] OTHER -> call[c]]
  ELSE /\ phase' = [phase EXCEPT ![s] = "idle"]
       /\ objects' = objs
       /\ call' = [c \in Call |-> IF s = "server" /\ call[c] = "upload" THEN result ELSE call[c]]
       /\ UNCHANGED <<followUp, due>>

WriteFails(s) ==
  /\ phase[s] = "write"
  /\ Happens("fail")
  /\ Settles(s, "failed", Dropped(s))
  /\ UNCHANGED <<version, debounce, asked, behind>>

ListFails(s) ==
  /\ phase[s] = "list"
  /\ Happens("fail")
  /\ Settles(s, "failed", Kept(s))
  /\ UNCHANGED <<version, debounce, asked, behind>>

\* The excess of s, which it deletes one by one, the oldest first.
Doomed(s) == {i \in DOMAIN objects : s \in objects[i].excess}

Deletes(s) ==
  /\ phase[s] = "prune"
  /\ \E i \in Doomed(s) : /\ \A j \in Doomed(s) : i <= j
                          /\ objects' = RemoveAt(objects, i)
  /\ UNCHANGED <<version, phase, followUp, debounce, due, callVars, behind, budget>>

\* A failing delete ends the upload and leaves the rest.
DeleteFails(s) ==
  /\ phase[s] = "prune"
  /\ Doomed(s) # {}
  /\ Happens("fail")
  /\ Settles(s, "failed", NoExcess(s, Kept(s)))
  /\ UNCHANGED <<version, debounce, asked, behind>>

Finishes(s) ==
  /\ phase[s] = "prune"
  /\ Doomed(s) = {}
  /\ Settles(s, "ok", Kept(s))
  /\ UNCHANGED <<version, debounce, asked, behind, budget>>

\* Shutdown (stop() clears the debounce timer) or crash, and the next boot:
\* it backs up at once only if loadLatest() finds no backup, or fails.
Restart ==
  /\ Happens("boot")
  /\ call' = [c \in Call |-> IF call[c] \in {"upload", "followUp"} THEN "failed" ELSE call[c]]
  /\ followUp' = FALSE
  /\ debounce' = FALSE
  /\ LET left == NoExcess("server", IF phase["server"] = "write" THEN Dropped("server") ELSE Kept("server")) IN
     \/ UploadsTo("server", left)
     \/ /\ Stored # {}
        /\ phase' = [phase EXCEPT !["server"] = "idle"]
        /\ objects' = left
        /\ UNCHANGED due
  /\ UNCHANGED <<version, asked, behind>>

-----------------------------------------------------------------------------
SvcStep(s) ==
  \/ WriteSucceeds(s)
  \/ WriteFails(s)
  \/ Lists(s)
  \/ ListFails(s)
  \/ Deletes(s)
  \/ DeleteFails(s)
  \/ Finishes(s)

Next ==
  \/ \E route \in Routes : ApiChange(route)
  \/ CliChange
  \/ ClockStepsBack
  \/ \E c \in Call : RequestBackup(c)
  \/ DebounceFires \/ ScheduledRun \/ CliBackup
  \/ \E s \in Svc : SvcStep(s)
  \/ Restart

Spec == Init /\ [][Next]_vars

(* The store answers, timers fire and the daily run comes round.           *)
Fairness ==
  /\ \A s \in Svc : WF_vars(SvcStep(s))
  /\ WF_vars(DebounceFires)
  /\ WF_vars(ScheduledRun)

FairSpec == Spec /\ Fairness

-----------------------------------------------------------------------------
(* Safety.                                                                 *)

\* Another process's prune() has deleted the backup the server is finishing.
Lost == \A i \in DOMAIN objects : objects[i].of # "server"

\* A runNow() that reports success has put the caller's own changes in the
\* store, and they are still there.  Only the prune() of another process may
\* have deleted them, with KEEP=1 or after the clock stepped back.
ToldMeansSaved ==
  [][\A c \in Call :
       call[c] # "ok" /\ call'[c] = "ok" =>
         \/ \E o \in Stored' : o.version >= asked[c]
         \/ Lost /\ (behind \/ Keep = 1)]_vars

\* Once there is a backup there always is one: prune() never takes the last.
NeverWithoutBackup == [][Stored # {} => Stored' # {}]_vars

\* No call waits for a run that nobody starts: what it waits for is the
\* server's upload or the follow-up chained on it.
WaitersHaveARun ==
  /\ followUp => phase["server"] # "idle"
  /\ \A c \in Call : /\ call[c] = "upload" => phase["server"] # "idle"
                     /\ call[c] = "followUp" => followUp

-----------------------------------------------------------------------------
(* Liveness, under Fairness.                                               *)

\* Every runNow() call is answered.
CallsReturn == \A c \in Call : call[c] \in {"upload", "followUp"} ~> call[c] \in {"ok", "failed"}

\* Every change reaches the store in the end, by the daily run if not sooner.
ChangesAreSaved ==
  \A v \in 1..MaxVersion :
    version >= v ~> \E o \in Stored : o.version >= v

-----------------------------------------------------------------------------
(* What comments and documents say and the code does not do (README, 6).   *)

\* backups.md:186-188: a change is followed by a backup, about 60 s later: the
\* timer, or the follow-up it asked for, is there as long as it is due.
ChangeIsScheduled == due => debounce \/ followUp
=============================================================================
