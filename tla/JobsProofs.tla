----------------------------- MODULE JobsProofs -----------------------------
(***************************************************************************)
(* ComesUpWithItsData, NothingDangles and PointInTime for any number of    *)
(* targets, workspaces and events.                                         *)
(***************************************************************************)
EXTENDS Jobs, FiniteSetTheorems, TLAPS

\* What of TypeOK the arguments need: nothing of times and transactions.
Shape ==
  /\ row \in [Target -> Row]
  /\ DOMAIN file = Target /\ DOMAIN staging = Target
  /\ sqld \in [Target -> {"none", "key", "probe", "up", "stop"}]
  /\ astray \in [Target -> SUBSET {"reset", "overwritten"}]
  /\ del \in [Target -> {"none", "kill", "data", "restore", "import", "row"}]
  /\ DOMAIN job = Target
  /\ \A t \in Target : DOMAIN job[t] = {"pc", "op", "ws", "pin"}

HasData(t) == file[t].from \in {"replica", "import"}

\* Where a job is tells what its row says and whether its data is in place, and
\* that nobody has started or stopped the row by hand.
PhaseInv(t) ==
  /\ row[t].st = "absent" => astray[t] = {}
  /\ job[t].pc # "idle" => /\ job[t].op \in {"restore", "import"}
                           /\ astray[t] = {} /\ del[t] = "none"
                           /\ sqld[t] = IF job[t].pc = "after" THEN "up" ELSE "none"
  /\ job[t].pc = "reserve" => /\ row[t].st = "absent" /\ row[t].auto = FALSE
                              /\ \E w \in Ws : job[t].ws = {w}
  /\ job[t].pc \in {"preflight", "list", "download", "hash", "place"}
       => row[t].st = "restoring" /\ row[t].auto = FALSE
  /\ job[t].pc \in {"unlock", "hand"} => row[t].st = "restoring" /\ HasData(t)
  /\ job[t].pc = "hand" => row[t].auto = TRUE
  /\ job[t].pc = "start" => row[t].st = "starting"
  /\ job[t].pc = "after" => row[t].st = "running"

\* A row that is served, can be started, or will be launched by the next boot has
\* its data: for its job gave it auto_start with the data in place.
DataInv(t) ==
  astray[t] = {} =>
    /\ row[t].st \in {"starting", "running", "stopped", "unlaunched"} => row[t].auto
    /\ row[t].auto /\ row[t].st # "deleting" => HasData(t)
    /\ row[t].st \in {"absent", "gone"} => row[t].auto = FALSE

\* A staged copy never lacks its last transactions.
StageInv(t) == /\ staging[t].dir \in {"none", "restore", "import"}
               /\ staging[t].data.from # "partial"

\* What a DELETE has removed stays away: no start is under way on the row, and
\* none may begin, as long as it says "deleting".
DeleteInv(t) ==
  "overwritten" \notin astray[t] =>
    /\ del[t] # "none" => row[t].st = "deleting"
    /\ del[t] \in {"data", "restore", "import", "row"} => sqld[t] = "none"
    /\ row[t].st \in {"absent", "restoring", "failed", "gone"} =>
         sqld[t] = "none"
    /\ del[t] \in {"restore", "import", "row"} => file[t] = NoFile
    /\ del[t] = "import" => staging[t].dir # "restore"
    /\ del[t] = "row" => staging[t].dir = "none"
    /\ row[t].st = "gone" => file[t] = NoFile /\ staging[t].dir = "none"

WorkspaceInv(t) == Exists(t) => \E w \in wsp : row[t].ws = {w}

DownInv(t) == ~up => job[t].pc = "idle" /\ del[t] = "none"

TargetInv(t) == /\ PhaseInv(t) /\ DataInv(t) /\ StageInv(t)
                /\ DeleteInv(t) /\ WorkspaceInv(t) /\ DownInv(t)

IInv == Shape /\ wsp \subseteq Ws /\ \A t \in Target : TargetInv(t)

-----------------------------------------------------------------------------
LEMMA InitIInv == ASSUME Init PROVE IInv
<1>1. Shape
  BY DEF Init, Shape, Row, Status, NoRow, NoJob
<1>2. ASSUME NEW t \in Target PROVE TargetInv(t)
  BY DEF Init, TargetInv, PhaseInv, DataInv, StageInv, DeleteInv, WorkspaceInv, DownInv, HasData,
     Exists, NoRow, NoJob, NoFile, Of
<1> QED BY <1>1, <1>2 DEF IInv, Init

\* A target that a step leaves alone keeps its invariant.
LEMMA Untouched ==
  ASSUME NEW t \in Target, TargetInv(t),
         row'[t] = row[t], file'[t] = file[t], staging'[t] = staging[t], job'[t] = job[t],
         sqld'[t] = sqld[t], astray'[t] = astray[t], del'[t] = del[t], wsp' = wsp, up' = up
  PROVE  TargetInv(t)'
BY DEF TargetInv, PhaseInv, DataInv, StageInv, DeleteInv, WorkspaceInv, DownInv, HasData, Exists

\* The step of one target, which the lemmas below look at on its own.
Only(t) == /\ wsp' = wsp /\ up' = up
           /\ \A u \in Target \ {t} : /\ row'[u] = row[u] /\ file'[u] = file[u] /\ job'[u] = job[u]
                                      /\ staging'[u] = staging[u] /\ del'[u] = del[u]
                                      /\ sqld'[u] = sqld[u] /\ astray'[u] = astray[u]

LEMMA OnlyOne ==
  ASSUME IInv, NEW t \in Target, Only(t), Shape', TargetInv(t)'
  PROVE  IInv'
<1>1. ASSUME NEW u \in Target PROVE TargetInv(u)'
  <2>1. CASE u = t
    BY <2>1
  <2>2. CASE u # t
    BY <2>2, Untouched DEF IInv, Only
  <2> QED BY <2>1, <2>2
<1> QED BY <1>1 DEF IInv, Only

LEMMA JobMoves ==
  ASSUME Shape, NEW t \in Target, NEW pc, Goes(t, pc)
  PROVE  /\ job'[t].pc = pc /\ job'[t].ws = job[t].ws /\ job'[t].op = job[t].op
         /\ \A u \in Target \ {t} : job'[u] = job[u]
         /\ DOMAIN job' = Target /\ \A u \in Target : DOMAIN job'[u] = {"pc", "op", "ws", "pin"}
BY DEF Shape, Goes

LEMMA JobStops ==
  ASSUME Shape, NEW t \in Target, job' = [job EXCEPT ![t] = NoJob]
  PROVE  /\ job'[t].pc = "idle"
         /\ \A u \in Target \ {t} : job'[u] = job[u]
         /\ DOMAIN job' = Target /\ \A u \in Target : DOMAIN job'[u] = {"pc", "op", "ws", "pin"}
BY DEF Shape, NoJob

LEMMA Unstages ==
  ASSUME Shape, NEW t \in Target, Unstage(t)
  PROVE  /\ staging'[t].dir = "none" /\ staging'[t].data = NoFile
         /\ \A u \in Target \ {t} : staging'[u] = staging[u]
         /\ DOMAIN staging' = Target
BY DEF Shape, Unstage

LEMMA RowWritten ==
  ASSUME NEW t \in Target, row \in [Target -> Row], NEW st \in Status,
         row' = [row EXCEPT ![t].st = st]
  PROVE  /\ row' \in [Target -> Row]
         /\ row'[t].st = st /\ row'[t].ws = row[t].ws /\ row'[t].auto = row[t].auto
         /\ \A u \in Target \ {t} : row'[u] = row[u]
<1>1. row[t] \in Row /\ [row[t] EXCEPT !.st = st] \in Row
  BY DEF Row
<1>2. row'[t] = [row[t] EXCEPT !.st = st]
  OBVIOUS
<1>3. row'[t].ws = row[t].ws /\ row'[t].auto = row[t].auto /\ row'[t].st = st
  BY <1>1, <1>2 DEF Row
<1> QED BY <1>1, <1>3

\* fail(): only rows that no job is about to serve, and are not being deleted.
LEMMA FailKeeps ==
  ASSUME IInv, NEW t \in Target, FailJob(t), UNCHANGED <<file, sqld>>, WorldStays, up,
         job[t].pc \in {"preflight", "list", "download", "place", "start"}
  PROVE  IInv'
<1>0. Shape /\ TargetInv(t)
  BY DEF IInv
<1>1. /\ job'[t].pc = "idle"
      /\ \A u \in Target \ {t} : job'[u] = job[u]
      /\ DOMAIN job' = Target /\ \A u \in Target : DOMAIN job'[u] = {"pc", "op", "ws", "pin"}
  BY <1>0, JobStops DEF FailJob
<1>2. /\ staging'[t].dir = "none" /\ staging'[t].data = NoFile
      /\ \A u \in Target \ {t} : staging'[u] = staging[u]
      /\ DOMAIN staging' = Target
  BY <1>0, Unstages DEF FailJob
<1>3. /\ row' \in [Target -> Row]
      /\ row'[t].ws = row[t].ws /\ row'[t].auto = row[t].auto
      /\ row'[t].st = IF Exists(t) THEN "failed" ELSE row[t].st
      /\ \A u \in Target \ {t} : row'[u] = row[u]
  <2> DEFINE st == IF Exists(t) THEN "failed" ELSE row[t].st
  <2>1. row \in [Target -> Row] /\ st \in Status
    BY <1>0 DEF Shape, Row, Status
  <2>2. row' = [row EXCEPT ![t].st = st]
    BY DEF FailJob
  <2> HIDE DEF st
  <2>3. /\ row' \in [Target -> Row]
        /\ row'[t].st = st /\ row'[t].ws = row[t].ws /\ row'[t].auto = row[t].auto
        /\ \A u \in Target \ {t} : row'[u] = row[u]
    BY <2>1, <2>2, RowWritten
  <2> QED BY <2>3 DEF st
<1>4. Only(t)
  BY <1>1, <1>2, <1>3 DEF Only, WorldStays
<1>5. Shape'
  BY <1>0, <1>1, <1>2, <1>3 DEF Shape, WorldStays
<1>6. TargetInv(t)'
  <2>1. row[t].st \in {"absent", "gone"} \/ row'[t].st = "failed"
    BY <1>3 DEF Exists
  <2>2. PhaseInv(t)'
    BY <1>0, <1>1, <2>1 DEF TargetInv, PhaseInv, WorldStays
  <2>3. DataInv(t)'
    BY <1>0, <1>3, <2>1 DEF TargetInv, PhaseInv, DataInv, HasData, WorldStays
  <2>4. StageInv(t)'
    BY <1>2 DEF StageInv, NoFile, Of
  <2>5. DeleteInv(t)'
    <3>1. del'[t] = "none" /\ row[t].st # "gone" /\ sqld'[t] = "none"
      BY <1>0 DEF TargetInv, PhaseInv, WorldStays
    <3> QED BY <1>3, <2>1, <3>1 DEF DeleteInv
  <2>6. WorkspaceInv(t)'
    BY <1>0, <1>3 DEF TargetInv, WorkspaceInv, Exists, WorldStays
  <2>7. DownInv(t)'
    BY DEF DownInv, WorldStays
  <2> QED BY <2>2, <2>3, <2>4, <2>5, <2>6, <2>7 DEF TargetInv
<1> QED BY <1>0, <1>4, <1>5, <1>6, OnlyOne

\* A job that goes on without touching its row.
LEMMA GoesKeeps ==
  ASSUME IInv, NEW t \in Target, UNCHANGED <<row, file, sqld>>, WorldStays, up,
         NEW pc \in {"list", "download", "place"},
         job[t].pc \in {"preflight", "list", "download", "hash"}, job'[t].op = job[t].op,
         /\ job'[t].pc = pc
         /\ \A u \in Target \ {t} : job'[u] = job[u]
         /\ DOMAIN job' = Target /\ \A u \in Target : DOMAIN job'[u] = {"pc", "op", "ws", "pin"},
         \/ UNCHANGED staging
         \/ \E data : Stage(t, data) /\ data.from # "partial"
  PROVE  IInv'
<1>0. Shape /\ TargetInv(t)
  BY DEF IInv
<1>1. /\ staging'[t].dir \in {"none", "restore", "import"} /\ staging'[t].data.from # "partial"
      /\ \A u \in Target \ {t} : staging'[u] = staging[u]
      /\ DOMAIN staging' = Target
  <2>1. CASE UNCHANGED staging
    BY <1>0, <2>1 DEF Shape, TargetInv, StageInv
  <2>2. ASSUME NEW data, Stage(t, data), data.from # "partial"
        PROVE  /\ staging'[t].dir \in {"none", "restore", "import"} /\ staging'[t].data.from # "partial"
               /\ \A u \in Target \ {t} : staging'[u] = staging[u]
               /\ DOMAIN staging' = Target
    BY <1>0, <2>2 DEF Shape, Stage, TargetInv, PhaseInv
  <2> QED BY <2>1, <2>2
<1>2. Only(t)
  BY <1>1 DEF Only, WorldStays
<1>3. Shape'
  BY <1>0, <1>1 DEF Shape, WorldStays
<1>4. TargetInv(t)'
  <2>1. row[t].st = "restoring" /\ row[t].auto = FALSE
    BY <1>0 DEF TargetInv, PhaseInv
  <2>2. PhaseInv(t)' /\ DataInv(t)'
    BY <1>0, <2>1 DEF TargetInv, PhaseInv, DataInv, WorldStays
  <2>3. StageInv(t)'
    BY <1>1 DEF StageInv
  <2>4. DeleteInv(t)'
    BY <1>0, <2>1 DEF TargetInv, PhaseInv, DeleteInv, WorldStays
  <2>5. WorkspaceInv(t)' /\ DownInv(t)'
    BY <1>0 DEF TargetInv, WorkspaceInv, DownInv, Exists, WorldStays
  <2> QED BY <2>2, <2>3, <2>4, <2>5 DEF TargetInv
<1> QED BY <1>0, <1>2, <1>3, <1>4, OnlyOne

-----------------------------------------------------------------------------
(* The requests.                                                           *)

LEMMA RequestKeeps ==
  ASSUME IInv, NEW t \in Target, NEW w \in Ws, NEW op \in {"restore", "import"}, Request(t, w, op)
  PROVE  IInv'
<1>0. Shape /\ TargetInv(t)
  BY DEF IInv
<1>1. /\ row' = row /\ file' = file /\ staging' = staging /\ del' = del /\ wsp' = wsp /\ up' = up
      /\ sqld' = sqld /\ astray' = astray /\ job[t].pc = "idle"
      /\ row[t].st = "absent" /\ w \in wsp /\ up
      /\ job' = [job EXCEPT ![t] = [pc |-> "reserve", op |-> op, ws |-> {w}, pin |-> 0]]
  BY DEF Request, diskVars, handVars, Free, NoJob
<1>2. /\ job'[t].pc = "reserve" /\ job'[t].op = op /\ job'[t].ws = {w}
      /\ \A u \in Target \ {t} : job'[u] = job[u]
      /\ DOMAIN job' = Target /\ \A u \in Target : DOMAIN job'[u] = {"pc", "op", "ws", "pin"}
  BY <1>0, <1>1 DEF Shape
<1>3. Only(t)
  BY <1>1, <1>2 DEF Only
<1>4. Shape'
  BY <1>0, <1>1, <1>2 DEF Shape
<1>5. row[t].auto = FALSE /\ del[t] = "none" /\ sqld[t] = "none" /\ astray[t] = {}
  BY <1>0, <1>1 DEF TargetInv, DataInv, DeleteInv, PhaseInv
<1>6. TargetInv(t)'
  BY <1>0, <1>1, <1>2, <1>5
     DEF TargetInv, PhaseInv, DataInv, StageInv, DeleteInv, WorkspaceInv, DownInv, HasData, Exists
<1> QED BY <1>3, <1>4, <1>6, OnlyOne

LEMMA ReserveFailsKeeps ==
  ASSUME IInv, NEW t \in Target, ReserveFails(t)
  PROVE  IInv'
<1>0. Shape /\ TargetInv(t)
  BY DEF IInv
<1>1. /\ row' = row /\ file' = file /\ staging' = staging /\ del' = del /\ wsp' = wsp /\ up' = up
      /\ sqld' = sqld /\ astray' = astray
      /\ up /\ job' = [job EXCEPT ![t] = NoJob]
  BY DEF ReserveFails, diskVars, handVars, Free
<1>2. /\ job'[t].pc = "idle"
      /\ \A u \in Target \ {t} : job'[u] = job[u]
      /\ DOMAIN job' = Target /\ \A u \in Target : DOMAIN job'[u] = {"pc", "op", "ws", "pin"}
  BY <1>0, <1>1, JobStops
<1>3. Only(t)
  BY <1>1, <1>2 DEF Only
<1>4. Shape'
  BY <1>0, <1>1, <1>2 DEF Shape
<1>5. TargetInv(t)'
  BY <1>0, <1>1, <1>2
     DEF TargetInv, PhaseInv, DataInv, StageInv, DeleteInv, WorkspaceInv, DownInv, HasData, Exists
<1> QED BY <1>3, <1>4, <1>5, OnlyOne

\* The row is inserted: with its job, or failed at once.
LEMMA InsertKeeps ==
  ASSUME IInv, NEW t \in Target, job[t].pc = "reserve", CanInsert(t), up,
         UNCHANGED <<wsp, file, sqld, astray, del, up>>,
         NEW st \in {"restoring", "failed"},
         row' = [row EXCEPT ![t] = [st |-> st, ws |-> job[t].ws, auto |-> FALSE]],
         \/ job'[t].pc = "idle"
         \/ job'[t].pc \in {"preflight", "hash"} /\ st = "restoring" /\ job'[t].op = job[t].op,
         \A u \in Target \ {t} : job'[u] = job[u],
         DOMAIN job' = Target, \A u \in Target : DOMAIN job'[u] = {"pc", "op", "ws", "pin"},
         \/ Unstage(t)
         \/ \E data : Stage(t, data) /\ data.from # "partial"
  PROVE  IInv'
<1>0. Shape /\ TargetInv(t)
  BY DEF IInv
<1>1. PICK w \in Ws : job[t].ws = {w}
  BY <1>0 DEF TargetInv, PhaseInv
<1>2. w \in wsp /\ row[t].st = "absent" /\ del[t] = "none" /\ sqld[t] = "none" /\ astray[t] = {}
  BY <1>0, <1>1 DEF CanInsert, TargetInv, PhaseInv
<1>3. /\ row'[t].st = st /\ row'[t].ws = {w} /\ row'[t].auto = FALSE
      /\ row' \in [Target -> Row]
      /\ \A u \in Target \ {t} : row'[u] = row[u]
  BY <1>0, <1>1 DEF Shape, Row, Status
<1>4. /\ staging'[t].dir \in {"none", "restore", "import"} /\ staging'[t].data.from # "partial"
      /\ \A u \in Target \ {t} : staging'[u] = staging[u]
      /\ DOMAIN staging' = Target
  <2>1. CASE Unstage(t)
    BY <1>0, <2>1, Unstages DEF NoFile, Of
  <2>2. ASSUME NEW data, Stage(t, data), data.from # "partial"
        PROVE  /\ staging'[t].dir \in {"none", "restore", "import"} /\ staging'[t].data.from # "partial"
               /\ \A u \in Target \ {t} : staging'[u] = staging[u]
               /\ DOMAIN staging' = Target
    BY <1>0, <2>2 DEF Shape, Stage, TargetInv, PhaseInv
  <2> QED BY <2>1, <2>2
<1>5. Only(t)
  BY <1>3, <1>4 DEF Only
<1>6. Shape'
  BY <1>0, <1>3, <1>4 DEF Shape
<1>7. TargetInv(t)'
  <2>1. PhaseInv(t)'
    BY <1>0, <1>2, <1>3 DEF TargetInv, PhaseInv
  <2>2. DataInv(t)' /\ StageInv(t)'
    BY <1>3, <1>4 DEF DataInv, StageInv
  <2>3. DeleteInv(t)' /\ WorkspaceInv(t)' /\ DownInv(t)'
    BY <1>2, <1>3 DEF DeleteInv, WorkspaceInv, DownInv
  <2> QED BY <2>1, <2>2, <2>3 DEF TargetInv
<1> QED BY <1>5, <1>6, <1>7, OnlyOne

LEMMA BeginsKeeps ==
  ASSUME IInv, NEW t \in Target, RestoreBegins(t) \/ ImportBegins(t) \/ ImportRefused(t)
  PROVE  IInv'
<1>0. Shape
  BY DEF IInv
<1>1. CASE RestoreBegins(t)
  <2>1. NoFile.from # "partial"
    BY DEF NoFile, Of
  <2>2. Goes(t, "preflight") /\ Stage(t, NoFile) /\ NewRow(t) /\ CanInsert(t)
        /\ job[t].pc = "reserve" /\ up /\ UNCHANGED <<wsp, file, sqld, astray, del, up>>
    BY <1>1 DEF RestoreBegins, NewRow, Free, handVars
  <2> QED BY <1>0, <2>1, <2>2, InsertKeeps, JobMoves DEF NewRow
<1>2. CASE ImportBegins(t)
  <2>1. Resolves => Copied.from # "partial"
    BY DEF Resolves, Copied, Of
  <2>2. Goes(t, "hash") /\ Stage(t, Copied) /\ NewRow(t) /\ CanInsert(t) /\ Resolves
        /\ job[t].pc = "reserve" /\ up /\ UNCHANGED <<wsp, file, sqld, astray, del, up>>
    BY <1>2 DEF ImportBegins, NewRow, Free, handVars
  <2> QED BY <1>0, <2>1, <2>2, InsertKeeps, JobMoves DEF NewRow
<1>3. CASE ImportRefused(t)
  <2>1. job' = [job EXCEPT ![t] = NoJob] /\ Unstage(t) /\ CanInsert(t)
        /\ row' = [row EXCEPT ![t] = [st |-> "failed", ws |-> job[t].ws, auto |-> FALSE]]
        /\ job[t].pc = "reserve" /\ up /\ UNCHANGED <<wsp, file, sqld, astray, del, up>>
    BY <1>3 DEF ImportRefused, Free, handVars
  <2> QED BY <1>0, <2>1, InsertKeeps, JobStops
<1> QED BY <1>1, <1>2, <1>3

-----------------------------------------------------------------------------
(* The jobs.                                                               *)

LEMMA PlaceKeeps ==
  ASSUME IInv, NEW t \in Target, Place(t)
  PROVE  IInv'
<1>0. Shape /\ TargetInv(t)
  BY DEF IInv
<1>1. /\ job[t].pc = "place" /\ up /\ Placeable(t) /\ Goes(t, "unlock") /\ Unstage(t)
      /\ UNCHANGED <<row, sqld, astray, wsp, del, up>>
      /\ file' = [file EXCEPT ![t] = staging[t].data]
  BY DEF Place, WorldStays, Free
<1>2. /\ job'[t].pc = "unlock" /\ job'[t].op = job[t].op
      /\ \A u \in Target \ {t} : job'[u] = job[u]
      /\ DOMAIN job' = Target /\ \A u \in Target : DOMAIN job'[u] = {"pc", "op", "ws", "pin"}
  BY <1>0, <1>1, JobMoves
<1>3. /\ staging'[t].dir = "none" /\ staging'[t].data = NoFile
      /\ \A u \in Target \ {t} : staging'[u] = staging[u]
      /\ DOMAIN staging' = Target
  BY <1>0, <1>1, Unstages
<1>4. /\ HasData(t)' /\ DOMAIN file' = Target
      /\ \A u \in Target \ {t} : file'[u] = file[u]
  BY <1>0, <1>1 DEF Placeable, Verified, HasData, TargetInv, StageInv, Shape
<1>5. Only(t)
  BY <1>1, <1>2, <1>3, <1>4 DEF Only
<1>6. Shape'
  BY <1>0, <1>1, <1>2, <1>3, <1>4 DEF Shape
<1>7. row[t].st = "restoring" /\ del[t] = "none" /\ sqld[t] = "none" /\ astray[t] = {}
  BY <1>0, <1>1 DEF TargetInv, PhaseInv
<1>8. TargetInv(t)'
  <2>1. PhaseInv(t)' /\ DataInv(t)'
    BY <1>0, <1>1, <1>2, <1>4, <1>7 DEF TargetInv, PhaseInv, DataInv
  <2>2. StageInv(t)'
    BY <1>3 DEF StageInv, NoFile, Of
  <2>3. DeleteInv(t)' /\ WorkspaceInv(t)' /\ DownInv(t)'
    BY <1>0, <1>1, <1>7 DEF TargetInv, DeleteInv, WorkspaceInv, DownInv, Exists
  <2> QED BY <2>1, <2>2, <2>3 DEF TargetInv
<1> QED BY <1>5, <1>6, <1>8, OnlyOne

\* The steps after the rename: auto_start, the status, the launch.
LEMMA ServesKeeps ==
  ASSUME IInv, NEW t \in Target, UNCHANGED diskVars, WorldStays, up,
         NEW st \in {"restoring", "starting", "running"},
         NEW pc \in {"hand", "start", "after"}, Goes(t, pc),
         job[t].pc \in {"unlock", "hand", "start"},
         row' \in [Target -> Row], row'[t].st = st, row'[t].ws = row[t].ws, row'[t].auto = TRUE,
         \A u \in Target \ {t} : row'[u] = row[u],
         sqld' = IF pc = "after" THEN [sqld EXCEPT ![t] = "up"] ELSE sqld,
         pc = "hand" => st = "restoring", pc = "start" => st = "starting",
         pc = "after" => st = "running"
  PROVE  IInv'
<1>0. Shape /\ TargetInv(t)
  BY DEF IInv
<1>1. /\ row'[t].st = st /\ row'[t].ws = row[t].ws
      /\ row' \in [Target -> Row]
      /\ \A u \in Target \ {t} : row'[u] = row[u]
  OBVIOUS
<1>2. /\ job'[t].pc = pc /\ job'[t].op = job[t].op
      /\ \A u \in Target \ {t} : job'[u] = job[u]
      /\ DOMAIN job' = Target /\ \A u \in Target : DOMAIN job'[u] = {"pc", "op", "ws", "pin"}
  BY <1>0, JobMoves
<1>3. /\ file' = file /\ staging' = staging /\ astray' = astray /\ del' = del
      /\ wsp' = wsp /\ up' = up
      /\ sqld' \in [Target -> {"none", "key", "probe", "up", "stop"}]
      /\ sqld'[t] = IF pc = "after" THEN "up" ELSE sqld[t]
      /\ \A u \in Target \ {t} : sqld'[u] = sqld[u]
  BY <1>0 DEF diskVars, WorldStays, Shape
<1>4. Only(t) /\ Shape'
  BY <1>0, <1>1, <1>2, <1>3 DEF Only, Shape
<1>5. /\ HasData(t) /\ row[t].st \in {"restoring", "starting"}
      /\ del[t] = "none" /\ sqld[t] = "none" /\ astray[t] = {}
  BY <1>0 DEF TargetInv, PhaseInv, DataInv
<1>6. TargetInv(t)'
  <2>1. PhaseInv(t)'
    BY <1>0, <1>1, <1>2, <1>3, <1>5 DEF TargetInv, PhaseInv, HasData
  <2>2. DataInv(t)' /\ StageInv(t)'
    BY <1>0, <1>1, <1>3, <1>5 DEF TargetInv, DataInv, HasData, StageInv
  <2>3. DeleteInv(t)' /\ WorkspaceInv(t)' /\ DownInv(t)'
    BY <1>0, <1>1, <1>3, <1>5 DEF TargetInv, DeleteInv, WorkspaceInv, DownInv, Exists
  <2> QED BY <2>1, <2>2, <2>3 DEF TargetInv
<1> QED BY <1>4, <1>6, OnlyOne

LEMMA HandingOverKeeps ==
  ASSUME IInv, NEW t \in Target, Unlock(t) \/ HandOver(t) \/ Started(t)
  PROVE  IInv'
<1>0. Shape /\ TargetInv(t)
  BY DEF IInv
<1>1. row[t] \in Row
  BY <1>0 DEF Shape
<1>2. row \in [Target -> Row]
  BY <1>0 DEF Shape
<1>3. CASE Unlock(t)
  <2>0. row[t].st = "restoring"
    BY <1>0, <1>3 DEF Unlock, TargetInv, PhaseInv
  <2>1. [row[t] EXCEPT !.auto = TRUE] \in Row
    BY <1>1 DEF Row
  <2>2. /\ [row[t] EXCEPT !.auto = TRUE].st = row[t].st
        /\ [row[t] EXCEPT !.auto = TRUE].ws = row[t].ws
        /\ [row[t] EXCEPT !.auto = TRUE].auto = TRUE
    BY <1>1 DEF Row
  <2>3. /\ row' \in [Target -> Row] /\ row'[t].st = "restoring" /\ row'[t].ws = row[t].ws
        /\ row'[t].auto = TRUE
        /\ \A u \in Target \ {t} : row'[u] = row[u]
    BY <1>2, <1>3, <2>0, <2>1, <2>2 DEF Unlock
  <2> QED BY <1>3, <2>3, ServesKeeps DEF Unlock
<1>4. CASE HandOver(t)
  <2>0. row[t].auto = TRUE
    BY <1>0, <1>4 DEF HandOver, TargetInv, PhaseInv
  <2>1. /\ row' \in [Target -> Row] /\ row'[t].st = "starting" /\ row'[t].ws = row[t].ws
        /\ row'[t].auto = TRUE
        /\ \A u \in Target \ {t} : row'[u] = row[u]
    BY <1>1, <1>2, <1>4, <2>0 DEF HandOver, Row, Status
  <2> QED BY <1>4, <2>1, ServesKeeps DEF HandOver
<1>5. CASE Started(t)
  <2>0. row[t].auto = TRUE
    BY <1>0, <1>5 DEF Started, TargetInv, PhaseInv, DataInv
  <2>1. /\ row' \in [Target -> Row] /\ row'[t].st = "running" /\ row'[t].ws = row[t].ws
        /\ row'[t].auto = TRUE
        /\ \A u \in Target \ {t} : row'[u] = row[u]
    BY <1>1, <1>2, <1>5, <2>0 DEF Started, Row, Status
  <2> QED BY <1>5, <2>1, ServesKeeps DEF Started, Free
<1> QED BY <1>3, <1>4, <1>5

LEMMA JobEndsKeeps ==
  ASSUME IInv, NEW t \in Target, JobEnds(t)
  PROVE  IInv'
<1>0. Shape /\ TargetInv(t)
  BY DEF IInv
<1>1. /\ row' = row /\ file' = file /\ staging' = staging /\ del' = del /\ wsp' = wsp /\ up' = up
      /\ sqld' = sqld /\ astray' = astray
      /\ up /\ job' = [job EXCEPT ![t] = NoJob]
  BY DEF JobEnds, diskVars, WorldStays, Free
<1>2. /\ job'[t].pc = "idle"
      /\ \A u \in Target \ {t} : job'[u] = job[u]
      /\ DOMAIN job' = Target /\ \A u \in Target : DOMAIN job'[u] = {"pc", "op", "ws", "pin"}
  BY <1>0, <1>1, JobStops
<1>3. Only(t) /\ Shape'
  BY <1>0, <1>1, <1>2 DEF Only, Shape
<1>4. TargetInv(t)'
  BY <1>0, <1>1, <1>2
     DEF TargetInv, PhaseInv, DataInv, StageInv, DeleteInv, WorkspaceInv, DownInv, HasData, Exists
<1> QED BY <1>3, <1>4, OnlyOne

LEMMA JobKeeps == ASSUME IInv, NEW t \in Target, JobStep(t) PROVE IInv'
<1>0. Shape
  BY DEF IInv
<1>1. CASE PreflightFails(t) \/ NothingBefore(t) \/ LitestreamFails(t) \/ PlaceRefused(t) \/ NotStarted(t)
  BY <1>1, FailKeeps
     DEF PreflightFails, NothingBefore, LitestreamFails, PlaceRefused, NotStarted, Free
<1>2. CASE PreflightPasses(t)
  <2> DEFINE pc == IF want[t] = 0 THEN "download" ELSE "list"
  <2>1. pc \in {"list", "download", "place"}
    OBVIOUS
  <2>2. Goes(t, pc) /\ job[t].pc = "preflight" /\ up /\ UNCHANGED <<row, file, sqld>> /\ UNCHANGED staging
        /\ WorldStays
    BY <1>2 DEF PreflightPasses, Free, diskVars
  <2> HIDE DEF pc
  <2> QED BY <1>0, <2>1, <2>2, GoesKeeps, JobMoves
<1>3. CASE Listed(t)
  <2> DEFINE pin == Max(Before(want[t]))
  <2>1. /\ job' = [job EXCEPT ![t].pc = "download", ![t].pin = pin]
        /\ job[t].pc = "list" /\ up /\ UNCHANGED <<row, file, sqld>> /\ UNCHANGED staging /\ WorldStays
    BY <1>3 DEF Listed, Free, diskVars
  <2> HIDE DEF pin
  <2>2. /\ job'[t].pc = "download" /\ job'[t].op = job[t].op
        /\ \A u \in Target \ {t} : job'[u] = job[u]
        /\ DOMAIN job' = Target /\ \A u \in Target : DOMAIN job'[u] = {"pc", "op", "ws", "pin"}
    BY <1>0, <2>1 DEF Shape
  <2> QED BY <2>1, <2>2, GoesKeeps
<1>4. CASE Downloaded(t)
  <2>1. UpTo(Max(Reachable(t))).from # "partial" /\ Of("damaged").from # "partial"
    BY DEF UpTo, Of
  <2>2. Goes(t, "place") /\ job[t].pc = "download" /\ up /\ UNCHANGED <<row, file, sqld>> /\ WorldStays
        /\ \E data : Stage(t, data) /\ data.from # "partial"
    BY <1>4, <2>1 DEF Downloaded, Free
  <2> QED BY <1>0, <2>2, GoesKeeps, JobMoves
<1>5. CASE Hashed(t)
  <2>1. Goes(t, "place") /\ job[t].pc = "hash" /\ up /\ UNCHANGED <<row, file, sqld>> /\ UNCHANGED staging
        /\ WorldStays
    BY <1>5 DEF Hashed, Free, diskVars
  <2> QED BY <1>0, <2>1, GoesKeeps, JobMoves
<1> QED BY <1>1, <1>2, <1>3, <1>4, <1>5, PlaceKeeps, HandingOverKeeps, JobEndsKeeps DEF JobStep

-----------------------------------------------------------------------------
(* DELETE, crash and boot.                                                 *)

LEMMA RequestDeleteKeeps ==
  ASSUME IInv, NEW t \in Target, RequestDelete(t)
  PROVE  IInv'
<1>0. Shape /\ TargetInv(t)
  BY DEF IInv
<1>1. /\ Exists(t) /\ job[t].pc \in {"idle", "reserve"} /\ del[t] = "none" /\ up
      /\ row' = [row EXCEPT ![t].st = "deleting"] /\ del' = [del EXCEPT ![t] = "kill"]
      /\ file' = file /\ staging' = staging /\ job' = job /\ sqld' = sqld /\ astray' = astray
      /\ wsp' = wsp /\ up' = up
  BY DEF RequestDelete, Running, Free, diskVars, handVars
<1>2. job[t].pc = "idle"
  BY <1>0, <1>1 DEF TargetInv, PhaseInv, Exists
<1>3. /\ row'[t].st = "deleting" /\ row'[t].ws = row[t].ws
      /\ row' \in [Target -> Row]
      /\ \A u \in Target \ {t} : row'[u] = row[u]
  <2>1. row \in [Target -> Row] /\ row' = [row EXCEPT ![t].st = "deleting"]
    BY <1>0, <1>1 DEF Shape
  <2> QED BY <2>1, RowWritten DEF Status
<1>4. /\ del' \in [Target -> {"none", "kill", "data", "restore", "import", "row"}] /\ del'[t] = "kill"
      /\ \A u \in Target \ {t} : del'[u] = del[u]
  BY <1>0, <1>1 DEF Shape
<1>5. Only(t) /\ Shape'
  BY <1>0, <1>1, <1>3, <1>4 DEF Only, Shape
<1>6. TargetInv(t)'
  BY <1>0, <1>1, <1>2, <1>3, <1>4
     DEF TargetInv, PhaseInv, DataInv, StageInv, DeleteInv, WorkspaceInv, DownInv, HasData, Exists
<1> QED BY <1>5, <1>6, OnlyOne

\* A step of DELETE between its beginning and the DROP of the row.
LEMMA RemovesKeeps ==
  ASSUME IInv, NEW t \in Target,
         NEW from \in {"kill", "data", "restore", "import"},
         NEW to \in {"data", "restore", "import", "row"},
         DeleteStep(t, from, to), UNCHANGED row,
         \A u \in Target \ {t} : file'[u] = file[u] /\ staging'[u] = staging[u],
         DOMAIN file' = Target, DOMAIN staging' = Target, StageInv(t)',
         NEW srv \in {sqld[t], "none"}, sqld' = [sqld EXCEPT ![t] = srv],
         from = "kill" => srv = "none",
         "overwritten" \notin astray[t] =>
           /\ to \in {"restore", "import", "row"} => file'[t] = NoFile
           /\ to = "import" => staging'[t].dir # "restore"
           /\ to = "row" => staging'[t].dir = "none"
  PROVE  IInv'
<1>0. Shape /\ TargetInv(t)
  BY DEF IInv
<1>1. /\ del[t] = from /\ up /\ del' = [del EXCEPT ![t] = to]
      /\ job' = job /\ astray' = astray /\ wsp' = wsp /\ up' = up
  BY DEF DeleteStep, Free
<1>2. job[t].pc = "idle" /\ ("overwritten" \notin astray[t] => row[t].st = "deleting")
  BY <1>0, <1>1 DEF TargetInv, PhaseInv, DeleteInv
<1>3. /\ del' \in [Target -> {"none", "kill", "data", "restore", "import", "row"}] /\ del'[t] = to
      /\ \A u \in Target \ {t} : del'[u] = del[u]
      /\ sqld' \in [Target -> {"none", "key", "probe", "up", "stop"}] /\ sqld'[t] = srv
      /\ \A u \in Target \ {t} : sqld'[u] = sqld[u]
  BY <1>0, <1>1 DEF Shape
<1>4. Only(t) /\ Shape'
  BY <1>0, <1>1, <1>3 DEF Only, Shape
<1>5. TargetInv(t)'
  <2>1. PhaseInv(t)' /\ DataInv(t)'
    BY <1>0, <1>1, <1>2 DEF TargetInv, PhaseInv, DataInv
  <2>2. DeleteInv(t)'
    BY <1>0, <1>1, <1>2, <1>3 DEF TargetInv, DeleteInv
  <2>3. WorkspaceInv(t)' /\ DownInv(t)'
    BY <1>0, <1>1 DEF TargetInv, WorkspaceInv, DownInv, Exists
  <2> QED BY <2>1, <2>2, <2>3 DEF TargetInv
<1> QED BY <1>4, <1>5, OnlyOne

LEMMA DropRowKeeps ==
  ASSUME IInv, NEW t \in Target, DropRow(t)
  PROVE  IInv'
<1>0. Shape /\ TargetInv(t)
  BY DEF IInv
<1>1. /\ del[t] = "row" /\ up /\ del' = [del EXCEPT ![t] = "none"]
      /\ row' = [row EXCEPT ![t] = [NoRow EXCEPT !.st = "gone"]]
      /\ file' = file /\ staging' = staging /\ job' = job /\ sqld' = sqld /\ astray' = astray
      /\ wsp' = wsp /\ up' = up
  BY DEF DropRow, DeleteStep, Free, diskVars
<1>2. /\ job[t].pc = "idle"
      /\ "overwritten" \notin astray[t] =>
           file[t] = NoFile /\ staging[t].dir = "none" /\ sqld[t] = "none"
  BY <1>0, <1>1 DEF TargetInv, PhaseInv, DeleteInv
<1>3. /\ row'[t].st = "gone" /\ row'[t].auto = FALSE
      /\ row' \in [Target -> Row]
      /\ \A u \in Target \ {t} : row'[u] = row[u]
  BY <1>0, <1>1 DEF Shape, Row, Status, NoRow
<1>4. /\ del' \in [Target -> {"none", "kill", "data", "restore", "import", "row"}] /\ del'[t] = "none"
      /\ \A u \in Target \ {t} : del'[u] = del[u]
  BY <1>0, <1>1 DEF Shape
<1>5. Only(t) /\ Shape'
  BY <1>0, <1>1, <1>3, <1>4 DEF Only, Shape
<1>6. TargetInv(t)'
  BY <1>0, <1>1, <1>2, <1>3, <1>4
     DEF TargetInv, PhaseInv, DataInv, StageInv, DeleteInv, WorkspaceInv, DownInv, HasData, Exists
<1> QED BY <1>5, <1>6, OnlyOne

LEMMA DeletesKeeps == ASSUME IInv, NEW t \in Target, Deletes(t) PROVE IInv'
<1>0. Shape /\ StageInv(t) /\ DeleteInv(t)
  BY DEF IInv, TargetInv
<1>1. CASE Killed(t)
  <2>1. sqld' = [sqld EXCEPT ![t] = "none"] /\ DeleteStep(t, "kill", "data") /\ UNCHANGED <<row, diskVars>>
    BY <1>1 DEF Killed
  <2> QED BY <1>0, <2>1, RemovesKeeps DEF diskVars, Shape, StageInv
<1>2. CASE RemoveData(t)
  <2>0. sqld' = [sqld EXCEPT ![t] = sqld[t]]
    BY <1>0, <1>2 DEF RemoveData, Shape
  <2>1. DeleteStep(t, "data", "restore") /\ file' = [file EXCEPT ![t] = NoFile] /\ UNCHANGED <<row, staging>>
    BY <1>2 DEF RemoveData
  <2>2. /\ file'[t] = NoFile /\ DOMAIN file' = Target
        /\ \A u \in Target \ {t} : file'[u] = file[u]
    BY <1>0, <2>1 DEF Shape
  <2> QED BY <1>0, <2>0, <2>1, <2>2, RemovesKeeps DEF Shape, StageInv
<1>3. ASSUME NEW op \in {"restore", "import"}, NEW next \in {"import", "row"},
             RemoveStaging(t, op, next), op = "restore" => next = "import", op = "import" => next = "row"
      PROVE  IInv'
  <2>0. sqld' = [sqld EXCEPT ![t] = sqld[t]]
    BY <1>0, <1>3 DEF RemoveStaging, Shape
  <2>1. DeleteStep(t, op, next) /\ UNCHANGED <<row, file>>
        /\ IF staging[t].dir = op THEN Unstage(t) ELSE UNCHANGED staging
    BY <1>3 DEF RemoveStaging
  <2>2. del[t] = op
    BY <2>1 DEF DeleteStep
  <2>3. /\ DOMAIN staging' = Target
        /\ \A u \in Target \ {t} : staging'[u] = staging[u]
        /\ staging'[t].dir \in {"none", "restore", "import"} \ {op}
        /\ op = "import" /\ "overwritten" \notin astray[t] => staging'[t].dir = "none"
        /\ staging'[t].data.from # "partial"
    <3>1. CASE staging[t].dir = op
      BY <1>0, <2>1, <3>1, Unstages DEF NoFile, Of
    <3>2. CASE staging[t].dir # op
      BY <1>0, <2>1, <2>2, <3>2 DEF Shape, StageInv, DeleteInv
    <3> QED BY <3>1, <3>2
  <2>4. "overwritten" \notin astray[t] => file[t] = NoFile
    BY <1>0, <2>2 DEF DeleteInv
  <2> QED BY <1>0, <1>3, <2>0, <2>1, <2>3, <2>4, RemovesKeeps DEF Shape, StageInv
<1> QED BY <1>1, <1>2, <1>3, RequestDeleteKeeps, DropRowKeeps DEF Deletes

LEMMA DeleteWorkspaceKeeps ==
  ASSUME IInv, NEW w \in Ws, DeleteWorkspace(w)
  PROVE  IInv'
<1>1. /\ row' = row /\ file' = file /\ staging' = staging /\ del' = del /\ job' = job /\ up' = up
      /\ sqld' = sqld /\ astray' = astray
      /\ wsp' = wsp \ {w} /\ \A t \in Target : Exists(t) => row[t].ws # {w}
  BY DEF DeleteWorkspace, diskVars, handVars
<1>2. ASSUME NEW t \in Target PROVE TargetInv(t)'
  <2>1. TargetInv(t)
    BY DEF IInv
  <2>2. WorkspaceInv(t)'
    BY <1>1, <2>1 DEF TargetInv, WorkspaceInv, Exists
  <2> QED BY <1>1, <2>1, <2>2 DEF TargetInv, PhaseInv, DataInv, StageInv, DeleteInv, DownInv, HasData
<1> QED BY <1>1, <1>2 DEF IInv, Shape

LEMMA CrashKeeps == ASSUME IInv, Crash PROVE IInv'
<1>1. /\ row' = row /\ file' = file /\ staging' = staging /\ wsp' = wsp
      /\ sqld' = sqld /\ astray' = astray
      /\ job' = [t \in Target |-> NoJob] /\ del' = [t \in Target |-> "none"]
  BY DEF Crash, diskVars, handVars
<1>2. Shape'
  BY <1>1 DEF IInv, Shape, NoJob
<1>3. ASSUME NEW t \in Target PROVE TargetInv(t)'
  <2>1. TargetInv(t)
    BY DEF IInv
  <2>2. job'[t].pc = "idle" /\ del'[t] = "none"
    BY <1>1 DEF NoJob
  <2> QED BY <1>1, <2>1, <2>2
          DEF TargetInv, PhaseInv, DataInv, StageInv, DeleteInv, WorkspaceInv, DownInv, HasData, Exists
<1> QED BY <1>1, <1>2, <1>3 DEF IInv

\* What a boot does to one target.
LEMMA BootTarget ==
  ASSUME Shape, Boot, NEW t \in Target
  PROVE  /\ row'[t] \in Row /\ row'[t].st \in Booted(t)
         /\ row'[t].ws = row[t].ws /\ row'[t].auto = row[t].auto
         /\ sqld'[t] = IF row'[t].st = "running" THEN "up" ELSE "none"
         /\ file'[t] = IF row'[t].st = "running" /\ file[t] = NoFile THEN Of("empty") ELSE file[t]
         /\ astray'[t] = IF row[t].st = "failed" /\ row'[t].st = "stopped"
                         THEN astray[t] \cup {"reset"} ELSE astray[t]
<1>1. PICK st \in [Target -> Status] :
         /\ st[t] \in Booted(t)
         /\ row' = [u \in Target |-> [row[u] EXCEPT !.st = st[u]]]
         /\ sqld' = [u \in Target |-> IF st[u] = "running" THEN "up" ELSE "none"]
         /\ file' = [u \in Target |-> IF st[u] = "running" /\ file[u] = NoFile
                                       THEN Of("empty") ELSE file[u]]
         /\ astray' = [u \in Target |-> IF row[u].st = "failed" /\ st[u] = "stopped"
                                         THEN astray[u] \cup {"reset"} ELSE astray[u]]
  BY DEF Boot
<1>2. row[t] \in Row /\ st[t] \in Status
  BY DEF Shape
<1>3. row'[t] = [row[t] EXCEPT !.st = st[t]]
  BY <1>1
<1>4. row'[t] \in Row /\ row'[t].st = st[t] /\ row'[t].ws = row[t].ws /\ row'[t].auto = row[t].auto
  BY <1>2, <1>3 DEF Row
<1> QED BY <1>1, <1>4

\* The functions a boot makes.
LEMMA BootShape == ASSUME Shape, Boot PROVE Shape'
<1>1. /\ DOMAIN row' = Target /\ DOMAIN sqld' = Target
      /\ DOMAIN file' = Target /\ DOMAIN astray' = Target
      /\ row' = [t \in Target |-> row'[t]] /\ sqld' = [t \in Target |-> sqld'[t]]
      /\ astray' = [t \in Target |-> astray'[t]]
      /\ UNCHANGED <<staging, job, del>>
  BY DEF Boot
<1>2. ASSUME NEW t \in Target
      PROVE  /\ row'[t] \in Row /\ sqld'[t] \in {"none", "key", "probe", "up", "stop"}
             /\ astray'[t] \in SUBSET {"reset", "overwritten"}
  <2>1. astray[t] \in SUBSET {"reset", "overwritten"}
    BY DEF Shape
  <2> QED BY <2>1, BootTarget
<1> QED BY <1>1, <1>2 DEF Shape

\* reconcile() serves the rows that have auto_start, and these have their data; a
\* row without it that a boot leaves stopped is astray from then on.
LEMMA BootKeeps == ASSUME IInv, Boot PROVE IInv'
<1>1. /\ staging' = staging /\ wsp' = wsp /\ job' = job /\ del' = del /\ ~up /\ up'
  BY DEF Boot
<1>2. ASSUME NEW t \in Target PROVE TargetInv(t)'
  <2>0. /\ TargetInv(t) /\ Shape /\ job[t].pc = "idle" /\ del[t] = "none"
        /\ row[t] \in Row /\ row[t].st \in Status /\ row[t].auto \in BOOLEAN
    BY <1>1 DEF IInv, TargetInv, DownInv, Shape, Row
  <2>1. /\ row'[t] \in Row /\ row'[t].st \in Booted(t)
        /\ row'[t].ws = row[t].ws /\ row'[t].auto = row[t].auto
        /\ sqld'[t] = IF row'[t].st = "running" THEN "up" ELSE "none"
        /\ file'[t] = IF row'[t].st = "running" /\ file[t] = NoFile THEN Of("empty") ELSE file[t]
        /\ astray'[t] = IF row[t].st = "failed" /\ row'[t].st = "stopped"
                        THEN astray[t] \cup {"reset"} ELSE astray[t]
    BY <2>0, BootTarget
  <2>2. /\ row'[t].st \notin {"restoring", "starting"}
        /\ row'[t].st \in {"running", "unlaunched"} => row[t].st \in Reconciled /\ (row[t].auto \/ Adoptable(t))
        /\ row'[t].st = "unlaunched" => row[t].auto
        /\ row'[t].st = "stopped" => \/ row[t].st = "stopped"
                                     \/ row[t].st \in Reconciled /\ ~row[t].auto
        /\ row'[t].st = "deleting" <=> row[t].st = "deleting"
        /\ row'[t].st = "absent" <=> row[t].st = "absent"
        /\ row'[t].st = "gone" <=> row[t].st = "gone"
    BY <2>0, <2>1 DEF Booted, Reconciled, Status
  <2>3. DataInv(t)'
    <3>1. SUFFICES ASSUME astray'[t] = {}
                   PROVE  /\ row'[t].st \in {"starting", "running", "stopped", "unlaunched"} => row[t].auto
                          /\ row[t].auto /\ row'[t].st # "deleting" => HasData(t)'
                          /\ row'[t].st \in {"absent", "gone"} => row[t].auto = FALSE
      BY <2>1 DEF DataInv
    <3>2. astray[t] = {} /\ ~(row[t].st = "failed" /\ row'[t].st = "stopped")
      BY <2>1, <3>1
    <3>3. row[t].auto /\ row'[t].st # "deleting" => HasData(t)'
      <4>1. NoFile.from = "none"
        BY DEF NoFile, Of
      <4> QED BY <2>0, <2>1, <2>2, <3>2, <4>1 DEF TargetInv, DataInv, HasData
    <3>4. row[t].st = "failed" => ~Adoptable(t)
      BY <2>0, <3>2 DEF TargetInv, DeleteInv, Adoptable
    <3>5. row'[t].st \in {"starting", "running", "stopped", "unlaunched"} => row[t].auto
      BY <2>0, <2>2, <3>2, <3>4 DEF TargetInv, DataInv, Reconciled
    <3> QED BY <2>0, <2>2, <3>2, <3>3, <3>5 DEF TargetInv, DataInv
  <2>4. PhaseInv(t)' /\ StageInv(t)' /\ DownInv(t)'
    BY <1>1, <2>0, <2>1, <2>2 DEF TargetInv, PhaseInv, StageInv, DownInv
  <2>5. DeleteInv(t)'
    BY <1>1, <2>0, <2>1, <2>2 DEF TargetInv, DeleteInv
  <2>6. WorkspaceInv(t)'
    BY <1>1, <2>0, <2>1, <2>2 DEF TargetInv, WorkspaceInv, Exists
  <2> QED BY <2>3, <2>4, <2>5, <2>6 DEF TargetInv
<1>3. Shape'
  BY BootShape DEF IInv
<1> QED BY <1>1, <1>2, <1>3 DEF IInv

-----------------------------------------------------------------------------
(* POST start and stop.                                                    *)

\* One step of a start or a stop: of the row it writes the status alone, and it
\* makes an empty file where there is none.
LEMMA HandKeeps ==
  ASSUME IInv, NEW t \in Target, up, UNCHANGED <<wsp, staging, job, del, up>>, job[t].pc = "idle",
         NEW from \in {"none", "key", "probe", "up", "stop"},
         NEW to \in {"none", "key", "probe", "up", "stop"},
         sqld[t] = from, sqld' = [sqld EXCEPT ![t] = to],
         \/ /\ UNCHANGED <<row, file, astray>> /\ del[t] # "kill"
            /\ Exists(t) /\ row[t].st \notin {"deleting", "restoring", "failed"}
         \/ /\ \E st \in {"starting", "running", "unlaunched", "stopped"} : Write(t, st)
            /\ from # "none"
            /\ file' = file \/ file' = [file EXCEPT ![t] = IF @ = NoFile THEN Of("empty") ELSE @]
  PROVE  IInv'
<1>0. Shape /\ TargetInv(t)
  BY DEF IInv
<1>1. /\ sqld' \in [Target -> {"none", "key", "probe", "up", "stop"}] /\ sqld'[t] = to
      /\ \A u \in Target \ {t} : sqld'[u] = sqld[u]
  BY <1>0 DEF Shape
<1>2. CASE /\ UNCHANGED <<row, file, astray>> /\ del[t] # "kill"
           /\ Exists(t) /\ row[t].st \notin {"deleting", "restoring", "failed"}
  <2>1. Only(t) /\ Shape'
    BY <1>0, <1>1, <1>2 DEF Only, Shape
  <2>2. TargetInv(t)'
    BY <1>0, <1>1, <1>2
       DEF TargetInv, PhaseInv, DataInv, StageInv, DeleteInv, WorkspaceInv, DownInv, HasData, Exists
  <2> QED BY <1>0, <2>1, <2>2, OnlyOne
<1>3. ASSUME NEW st \in {"starting", "running", "unlaunched", "stopped"}, Write(t, st), from # "none",
             file' = file \/ file' = [file EXCEPT ![t] = IF @ = NoFile THEN Of("empty") ELSE @]
      PROVE  IInv'
  <2> DEFINE st2 == IF Exists(t) THEN st ELSE row[t].st
  <2>1. /\ row' \in [Target -> Row]
        /\ row'[t].st = st2 /\ row'[t].ws = row[t].ws /\ row'[t].auto = row[t].auto
        /\ \A u \in Target \ {t} : row'[u] = row[u]
    <3>1. row \in [Target -> Row] /\ st2 \in Status /\ row' = [row EXCEPT ![t].st = st2]
      BY <1>0, <1>3 DEF Shape, Row, Status, Write
    <3> HIDE DEF st2
    <3> QED BY <3>1, RowWritten
  <2>2. /\ astray' \in [Target -> SUBSET {"reset", "overwritten"}]
        /\ astray'[t] = IF row[t].st = "deleting" THEN astray[t] \cup {"overwritten"} ELSE astray[t]
        /\ \A u \in Target \ {t} : astray'[u] = astray[u]
    BY <1>0, <1>3 DEF Shape, Write
  <2>3. /\ DOMAIN file' = Target /\ \A u \in Target \ {t} : file'[u] = file[u]
        /\ file[t] # NoFile => file'[t] = file[t]
    BY <1>0, <1>3 DEF Shape
  <2>4. Only(t) /\ Shape'
    BY <1>0, <1>1, <2>1, <2>2, <2>3 DEF Only, Shape
  <2>5. "overwritten" \notin astray'[t] =>
          /\ row[t].st \notin {"absent", "restoring", "failed", "gone", "deleting"}
          /\ del[t] = "none" /\ "overwritten" \notin astray[t]
    BY <1>0, <1>3, <2>2 DEF TargetInv, DeleteInv
  <2>6. PhaseInv(t)' /\ StageInv(t)' /\ DownInv(t)'
    BY <1>0, <1>3, <2>1, <2>2 DEF TargetInv, PhaseInv, StageInv, DownInv, Exists
  <2>7. DataInv(t)'
    <3>1. SUFFICES ASSUME astray'[t] = {} PROVE DataInv(t)'
      BY DEF DataInv
    <3>2. row[t].st \in {"starting", "running", "stopped", "unlaunched"} /\ astray[t] = {}
      BY <1>0, <2>2, <2>5, <3>1 DEF Shape, Row, Status
    <3>3. row[t].auto /\ HasData(t)
      BY <1>0, <3>2 DEF TargetInv, DataInv
    <3>4. HasData(t)'
      BY <2>3, <3>3 DEF HasData, NoFile, Of
    <3> QED BY <2>1, <3>2, <3>3, <3>4 DEF DataInv, Exists
  <2>8. DeleteInv(t)'
    <3>1. SUFFICES ASSUME "overwritten" \notin astray'[t] PROVE DeleteInv(t)'
      BY DEF DeleteInv
    <3>2. row'[t].st = st /\ del'[t] = "none"
      BY <2>1, <2>5, <3>1 DEF Exists
    <3> QED BY <3>2 DEF DeleteInv
  <2>9. WorkspaceInv(t)'
    BY <1>0, <2>1 DEF TargetInv, WorkspaceInv, Exists
  <2> QED BY <1>0, <2>4, <2>6, <2>7, <2>8, <2>9, OnlyOne DEF TargetInv
<1> QED BY <1>2, <1>3

LEMMA ByOperatorKeeps == ASSUME IInv, NEW t \in Target, ByOperator(t) PROVE IInv'
<1>1. up /\ UNCHANGED <<wsp, staging, job, del, up>>
  BY DEF ByOperator, StartBegins, StartSpawns, StartEnds, StopBegins, StopEnds, ByHand, Free
<1>2. TargetInv(t) /\ sqld[t] \in {"none", "key", "probe", "up", "stop"}
  BY DEF IInv, Shape
<1>3. CASE StartBegins(t) \/ StopBegins(t)
  <2>1. job[t].pc = "idle"
    BY <1>2, <1>3 DEF StartBegins, StopBegins, MayStart, Running, Exists, TargetInv, PhaseInv
  <2>2. /\ UNCHANGED <<row, file, astray>> /\ del[t] # "kill"
        /\ Exists(t) /\ row[t].st \notin {"deleting", "restoring", "failed"}
        /\ \E to \in {"key", "stop"} : sqld' = [sqld EXCEPT ![t] = to]
    BY <1>3 DEF StartBegins, StopBegins, MayStart, ByHand
  <2> QED BY <1>1, <1>2, <2>1, <2>2, HandKeeps
<1>4. CASE StartSpawns(t) \/ StartEnds(t) \/ StopEnds(t)
  <2>1. /\ sqld[t] \in {"key", "probe", "stop"}
        /\ \E to \in {"probe", "up", "none"} : sqld' = [sqld EXCEPT ![t] = to]
        /\ \E st \in {"starting", "running", "unlaunched", "stopped"} : Write(t, st)
        /\ file' = file \/ file' = [file EXCEPT ![t] = IF @ = NoFile THEN Of("empty") ELSE @]
    BY <1>4 DEF StartSpawns, StartEnds, StopEnds, ByHand
  <2>2. job[t].pc = "idle"
    BY <1>2, <2>1 DEF TargetInv, PhaseInv
  <2> QED BY <1>1, <1>2, <2>1, <2>2, HandKeeps
<1> QED BY <1>3, <1>4 DEF ByOperator

-----------------------------------------------------------------------------
LEMMA IInvNext == ASSUME IInv, [Next]_vars PROVE IInv'
<1>1. ASSUME UNCHANGED <<wsp, row, diskVars, job, handVars, del, up>>
      PROVE  IInv'
  BY <1>1 DEF IInv, Shape, TargetInv, PhaseInv, DataInv, StageInv, DeleteInv, WorkspaceInv, DownInv,
     HasData, Exists, diskVars, handVars
<1>2. CASE World
  BY <1>1, <1>2 DEF World, Tick, Commit, Ship, Compact, StoreFails, StoreReturns, OperatorActs
<1>3. CASE UNCHANGED vars
  BY <1>1, <1>3 DEF vars
<1>4. ASSUME NEW t \in Target, NEW w \in Ws,
             RequestImport(t, w) \/ \E at \in 0..Second(now) + 1 : RequestRestore(t, w, at)
      PROVE  IInv'
  BY <1>4, RequestKeeps DEF RequestImport, RequestRestore
<1>5. ASSUME NEW t \in Target,
             \/ ReserveFails(t) \/ RestoreBegins(t) \/ ImportBegins(t) \/ ImportRefused(t)
             \/ JobStep(t) \/ Deletes(t) \/ ByOperator(t)
      PROVE  IInv'
  BY <1>5, ReserveFailsKeeps, BeginsKeeps, JobKeeps, DeletesKeeps, ByOperatorKeeps
<1>6. CASE Next
  BY <1>2, <1>4, <1>5, <1>6, DeleteWorkspaceKeeps, CrashKeeps, BootKeeps DEF Next
<1> QED BY <1>3, <1>6

\* The strengthening holds in every reachable state.
THEOREM JobsInvariant == Spec => []IInv
BY InitIInv, IInvNext, PTL DEF Spec

\* Whatever is served, or would be launched by the next boot, has the data its
\* job verified, wherever the server died and however it is started and stopped by
\* hand, but for a failed job's row that a boot has made "stopped" and a row whose
\* "deleting" a start or a stop has written over (restore.ts: place and hand-over;
\* routes.ts: assertNotRestoreTarget; supervisor.ts: reconcile).
THEOREM AlwaysComesUpWithItsData == Spec => []ComesUpWithItsData
<1>1. IInv => ComesUpWithItsData
  BY DEF IInv, TargetInv, DataInv, HasData, ComesUpWithItsData
<1> QED BY <1>1, JobsInvariant, PTL

\* A row has its workspace, and a deleted database whose "deleting" was not
\* written over leaves no file behind (routes.ts: DELETE, reserve; restore.ts and
\* import.ts: staging).
THEOREM NothingEverDangles == Spec => []NothingDangles
<1>1. IInv => NothingDangles
  BY DEF IInv, TargetInv, WorkspaceInv, DeleteInv, NothingDangles
<1> QED BY <1>1, JobsInvariant, PTL

-----------------------------------------------------------------------------
\* The largest of a set of naturals with a bound is one of them: otherwise the
\* finite intervals above its members would have no least one.
LEMMA Largest ==
  ASSUME NEW S \in SUBSET Nat, S # {}, NEW b \in Nat, \A n \in S : n <= b
  PROVE  Max(S) \in S /\ \A n \in S : n <= Max(S)
<1> DEFINE above(n) == (n + 1) .. b
           gaps == {above(n) : n \in S}
<1>1. gaps \subseteq FiniteSubsetsOf(Int) /\ gaps # {}
  <2> SUFFICES ASSUME NEW n \in S PROVE above(n) \in FiniteSubsetsOf(Int)
    OBVIOUS
  <2>1. above(n) \subseteq Int /\ IsFiniteSet(above(n))
    BY FS_Interval
  <2> QED BY <2>1 DEF FiniteSubsetsOf
<1>2. PICK g \in gaps : \A h \in gaps : <<h, g>> \notin StrictSubsetOrdering(Int)
  <2> HIDE DEF gaps
  <2> QED BY <1>1, FS_StrictSubsetOrderingWellFounded, WFMin
<1>3. PICK m \in S : g = above(m)
  OBVIOUS
<1>4. \A n \in S : m >= n
  <2> SUFFICES ASSUME NEW n \in S, n > m PROVE FALSE
    OBVIOUS
  <2>1. above(n) \subseteq above(m) /\ above(n) # above(m)
    <3>1. n \in above(m) /\ n \notin above(n)
      OBVIOUS
    <3> QED BY <3>1
  <2>2. above(n) \in SUBSET Int /\ above(m) \in SUBSET Int
    OBVIOUS
  <2>3. <<above(n), above(m)>> \in StrictSubsetOrdering(Int)
    BY <2>1, <2>2 DEF StrictSubsetOrdering
  <2> QED BY <1>2, <1>3, <2>3
<1>5. Max(S) \in S /\ \A n \in S : Max(S) >= n
  BY <1>4 DEF Max
<1> QED BY <1>5

-----------------------------------------------------------------------------
(* The point in time.                                                      *)

\* Transactions are numbered in the order they are committed, and a file of the
\* replica holds none that was committed after the second it is stamped with.
SourceInv ==
  /\ now \in Nat /\ commits \in Seq(Nat)
  /\ \A n \in 1..Len(commits) : commits[n] <= now
  /\ \A f \in ltx : /\ f.max \in 1..Len(commits) /\ f.ts \in Nat
                    /\ \A n \in 1..f.max : Second(commits[n]) <= f.ts

\* The transactions up to n are there, and older than the second `at`.
Earlier(n, at) == n \in 0..Len(commits) /\ \A k \in 1..n : commits[k] < 2 * at

\* What a restore pins, stages and places is older than it was asked for; what is
\* there before it begins is no restore's.
PointInv(t) ==
  /\ want[t] \in Nat
  /\ row[t].st = "absent" => file[t].from # "replica" /\ staging[t].data.from # "replica"
  /\ want[t] # 0 =>
       /\ job[t].pc = "download" => job[t].pin # 0 /\ Earlier(job[t].pin, want[t])
       /\ file[t].from = "replica" => Earlier(file[t].n, want[t])
       /\ staging[t].data.from = "replica" => Earlier(staging[t].data.n, want[t])

TimeInv == SourceInv /\ DOMAIN want = Target /\ \A t \in Target : PointInv(t)

LEMMA Seconds ==
  /\ \A m, n \in Nat : m <= n => Second(m) <= Second(n)
  /\ \A n \in Nat : Second(n) \in Nat
  /\ \A n, s \in Nat : Second(n) < s => n < 2 * s
BY DEF Second

\* A file is added to the replica, with what the others hold, or everything.
LEMMA FileAdded ==
  ASSUME SourceInv, NEW f, f.max \in 1..Len(commits), f.ts = Second(now),
         ltx' \subseteq ltx \cup {f}, UNCHANGED <<now, commits>>
  PROVE  SourceInv'
<1>1. \A n \in 1..f.max : commits[n] \in Nat /\ commits[n] <= now
  BY DEF SourceInv
<1>2. f.ts \in Nat /\ \A n \in 1..f.max : Second(commits[n]) <= f.ts
  BY <1>1, Seconds DEF SourceInv
<1> QED BY <1>2 DEF SourceInv

\* The source, its replica and the clock move on, and no target does.
LEMMA WorldPoint ==
  ASSUME TimeInv, World
  PROVE  TimeInv'
<1>1. UNCHANGED <<row, file, staging, job, want>>
  BY DEF World, Tick, Commit, Ship, Compact, StoreFails, StoreReturns, OperatorActs, diskVars
<1>2. CASE ~Commit
  <2>1. commits' = commits
    BY <1>2 DEF World, Tick, Ship, Compact, StoreFails, StoreReturns, OperatorActs, srcVars
  <2>2. SourceInv'
    <3>1. CASE Tick
      <4>1. now' = now + 1 /\ ltx' = ltx
        BY <3>1 DEF Tick
      <4> QED BY <2>1, <4>1 DEF TimeInv, SourceInv
    <3>2. CASE Ship
      <4> DEFINE f == [level |-> 0, max |-> Len(commits), ts |-> Second(now)]
      <4>1. Len(commits) \in 1..Len(commits)
        BY <3>2 DEF Ship, Txid, TimeInv, SourceInv
      <4>2. ltx' = ltx \cup {f} /\ now' = now
        BY <3>2 DEF Ship
      <4>3. f.max = Len(commits) /\ f.ts = Second(now)
        OBVIOUS
      <4> HIDE DEF f
      <4> QED BY <2>1, <4>1, <4>2, <4>3, FileAdded DEF TimeInv
    <3>3. CASE Compact
      <4> DEFINE maxes == {f.max : f \in ltx}
                 g == [level |-> 1, max |-> Max(maxes), ts |-> Second(now)]
      <4>1. maxes # {} /\ maxes \subseteq 1..Len(commits) /\ Len(commits) \in Nat
        BY <3>3 DEF Compact, TimeInv, SourceInv
      <4>2. Max(maxes) \in maxes
        <5> HIDE DEF maxes
        <5>1. maxes \in SUBSET Nat /\ \A n \in maxes : n <= Len(commits)
          BY <4>1
        <5> QED BY <4>1, <5>1, Largest
      <4>3. ltx' \subseteq ltx \cup {g} /\ now' = now
        BY <3>3 DEF Compact
      <4>4. g.max = Max(maxes) /\ g.ts = Second(now)
        OBVIOUS
      <4> HIDE DEF g, maxes
      <4>5. g.max \in 1..Len(commits)
        BY <4>1, <4>2, <4>4
      <4> QED BY <2>1, <4>3, <4>4, <4>5, FileAdded DEF TimeInv
    <3>4. CASE StoreFails \/ StoreReturns \/ OperatorActs
      BY <3>4 DEF StoreFails, StoreReturns, OperatorActs, srcVars, TimeInv, SourceInv
    <3> QED BY <1>2, <3>1, <3>2, <3>3, <3>4 DEF World
  <2> QED BY <1>1, <2>1, <2>2 DEF TimeInv, PointInv, Earlier
<1>3. CASE Commit
  <2>1. commits' = Append(commits, now) /\ now' = now /\ ltx' = ltx
    BY <1>3 DEF Commit
  <2>2. commits \in Seq(Nat) /\ now \in Nat
    BY DEF TimeInv, SourceInv
  <2>3. /\ commits' \in Seq(Nat) /\ Len(commits') = Len(commits) + 1 /\ Len(commits) \in Nat
        /\ \A n \in 1..Len(commits) : commits'[n] = commits[n]
        /\ commits'[Len(commits) + 1] = now
    BY <2>1, <2>2
  <2>4. SourceInv'
    <3>1. \A n \in 1..Len(commits') : commits'[n] <= now'
      BY <2>1, <2>2, <2>3 DEF TimeInv, SourceInv
    <3>2. \A f \in ltx : /\ f.max \in 1..Len(commits') /\ f.ts \in Nat
                         /\ \A n \in 1..f.max : Second(commits'[n]) <= f.ts
      <4> SUFFICES ASSUME NEW f \in ltx
                   PROVE  /\ f.max \in 1..Len(commits') /\ f.ts \in Nat
                          /\ \A n \in 1..f.max : Second(commits'[n]) <= f.ts
        OBVIOUS
      <4>1. /\ f.max \in 1..Len(commits) /\ f.ts \in Nat
            /\ \A n \in 1..f.max : Second(commits[n]) <= f.ts
        BY DEF TimeInv, SourceInv
      <4>2. \A n \in 1..f.max : commits'[n] = commits[n]
        BY <2>3, <4>1
      <4> QED BY <2>3, <4>1, <4>2
    <3> QED BY <2>1, <2>2, <2>3, <3>1, <3>2 DEF SourceInv
  <2>5. \A n, at : Earlier(n, at) => Earlier(n, at)'
    BY <2>3 DEF Earlier
  <2> QED BY <1>1, <2>4, <2>5 DEF TimeInv, PointInv
<1> QED BY <1>2, <1>3

\* A step that pins nothing and restores nothing: a file comes from the staging
\* directory if from anywhere, and no row becomes absent.
Quiet(t) ==
  /\ want'[t] = want[t]
  /\ row'[t].st = "absent" => row[t].st = "absent"
  /\ file'[t] \in {file[t], staging[t].data, NoFile, Of("empty")}
  /\ staging'[t].data = staging[t].data \/ staging'[t].data.from # "replica"
  /\ job'[t].pc = "download" => job'[t] = job[t] \/ want[t] = 0

LEMMA QuietKeeps ==
  ASSUME NEW t \in Target, PointInv(t), Quiet(t), UNCHANGED commits
  PROVE  PointInv(t)'
<1>1. NoFile.from # "replica" /\ Of("empty").from # "replica"
  BY DEF NoFile, Of
<1>2. \A n, at : Earlier(n, at)' <=> Earlier(n, at)
  BY DEF Earlier
<1> QED BY <1>1, <1>2 DEF PointInv, Quiet

LEMMA AllQuiet ==
  ASSUME TimeInv, UNCHANGED <<srcVars, want>>, \A t \in Target : Quiet(t)
  PROVE  TimeInv'
BY QuietKeeps DEF TimeInv, SourceInv, srcVars

\* Of the jobs, one that ends or goes to any phase but the download is quiet.
LEMMA JobQuiet ==
  ASSUME Shape, NEW t \in Target, NEW u \in Target,
         \/ job' = [job EXCEPT ![t] = NoJob]
         \/ \E pc : Goes(t, pc) /\ (pc # "download" \/ want[t] = 0)
  PROVE  job'[u].pc = "download" => job'[u] = job[u] \/ want[u] = 0
<1>1. CASE u = t
  BY <1>1 DEF Shape, Goes, NoJob
<1>2. CASE u # t
  BY <1>2 DEF Shape, Goes
<1> QED BY <1>1, <1>2

LEMMA FileQuiet ==
  ASSUME Shape, NEW t \in Target, NEW u \in Target,
         file' = file \/ file' = [file EXCEPT ![t] = staging[t].data] \/ file' = [file EXCEPT ![t] = NoFile]
  PROVE  file'[u] \in {file[u], staging[u].data, NoFile}
BY DEF Shape

LEMMA StageQuiet ==
  ASSUME Shape, NEW t \in Target, NEW u \in Target,
         \/ UNCHANGED staging
         \/ Unstage(t)
         \/ \E data : Stage(t, data) /\ data.from # "replica"
  PROVE  staging'[u].data = staging[u].data \/ staging'[u].data.from # "replica"
<1>0. NoFile.from # "replica"
  BY DEF NoFile, Of
<1>1. CASE u = t
  BY <1>0, <1>1 DEF Shape, Unstage, Stage
<1>2. CASE u # t
  BY <1>2 DEF Shape, Unstage, Stage
<1> QED BY <1>1, <1>2

LEMMA RowQuiet ==
  ASSUME Shape, NEW t \in Target, NEW u \in Target,
         \/ UNCHANGED row
         \/ \E st \in Status : row' = [row EXCEPT ![t].st = st] /\ (st # "absent" \/ row[t].st = "absent")
         \/ row' = [row EXCEPT ![t].auto = TRUE]
         \/ \E r \in Row : row' = [row EXCEPT ![t] = r] /\ r.st # "absent"
  PROVE  row'[u].st = "absent" => row[u].st = "absent"
<1>1. row \in [Target -> Row] /\ row[t] \in Row /\ row[u] \in Row
  BY DEF Shape
<1>2. CASE UNCHANGED row
  BY <1>2
<1>3. ASSUME NEW st \in Status, row' = [row EXCEPT ![t].st = st], st # "absent" \/ row[t].st = "absent"
      PROVE  row'[u].st = "absent" => row[u].st = "absent"
  BY <1>1, <1>3 DEF Row
<1>4. CASE row' = [row EXCEPT ![t].auto = TRUE]
  BY <1>1, <1>4 DEF Row
<1>5. ASSUME NEW r \in Row, row' = [row EXCEPT ![t] = r], r.st # "absent"
      PROVE  row'[u].st = "absent" => row[u].st = "absent"
  BY <1>1, <1>5
<1> QED BY <1>2, <1>3, <1>4, <1>5

LEMMA FailQuiet ==
  ASSUME Shape, NEW t \in Target, NEW u \in Target, FailJob(t), UNCHANGED <<file, want>>
  PROVE  Quiet(u)
<1>1. \E st \in Status : row' = [row EXCEPT ![t].st = st] /\ (st # "absent" \/ row[t].st = "absent")
  <2> DEFINE st == IF Exists(t) THEN "failed" ELSE row[t].st
  <2>1. st \in Status /\ (st # "absent" \/ row[t].st = "absent")
    BY DEF Shape, Row, Status
  <2>2. row' = [row EXCEPT ![t].st = st]
    BY DEF FailJob
  <2> QED BY <2>1, <2>2
<1> QED BY <1>1, JobQuiet, FileQuiet, StageQuiet, RowQuiet DEF Quiet, FailJob

\* The steps of a job but for the two that look for the point in time.
LEMMA StepsQuiet ==
  ASSUME Shape, NEW t \in Target, NEW u \in Target,
         JobStep(t), ~Listed(t), ~Downloaded(t)
  PROVE  Quiet(u)
<1>0. UNCHANGED want
  BY DEF JobStep, PreflightFails, PreflightPasses, NothingBefore, LitestreamFails, Hashed, Place,
     PlaceRefused, Unlock, HandOver, Started, NotStarted, JobEnds, WorldStays
<1>1. CASE PreflightFails(t) \/ NothingBefore(t) \/ LitestreamFails(t) \/ PlaceRefused(t) \/ NotStarted(t)
  BY <1>0, <1>1, FailQuiet DEF PreflightFails, NothingBefore, LitestreamFails, PlaceRefused, NotStarted
<1>2. CASE PreflightPasses(t)
  <2>1. /\ UNCHANGED <<row, file, staging>>
        /\ Goes(t, IF want[t] = 0 THEN "download" ELSE "list")
    BY <1>2 DEF PreflightPasses, diskVars
  <2>2. \E pc : Goes(t, pc) /\ (pc # "download" \/ want[t] = 0)
    BY <2>1
  <2> QED BY <1>0, <2>1, <2>2, JobQuiet DEF Quiet
<1>3. CASE Hashed(t) \/ JobEnds(t)
  <2>1. /\ UNCHANGED <<row, file, staging>>
        /\ Goes(t, "place") \/ job' = [job EXCEPT ![t] = NoJob]
    BY <1>3 DEF Hashed, JobEnds, diskVars
  <2> QED BY <1>0, <2>1, JobQuiet DEF Quiet
<1>4. CASE Place(t)
  <2>1. /\ UNCHANGED row /\ Unstage(t) /\ Goes(t, "unlock")
        /\ file' = [file EXCEPT ![t] = staging[t].data]
    BY <1>4 DEF Place
  <2> QED BY <1>0, <2>1, JobQuiet, FileQuiet, StageQuiet DEF Quiet
<1>5. CASE Unlock(t) \/ HandOver(t) \/ Started(t)
  <2>1. /\ UNCHANGED <<file, staging>>
        /\ Goes(t, "hand") \/ Goes(t, "start") \/ Goes(t, "after")
    BY <1>5 DEF Unlock, HandOver, Started, diskVars
  <2>2. row'[u].st = "absent" => row[u].st = "absent"
    BY <1>5, RowQuiet DEF Unlock, HandOver, Started, Status
  <2> QED BY <1>0, <2>1, <2>2, JobQuiet DEF Quiet
<1> QED BY <1>1, <1>2, <1>3, <1>4, <1>5 DEF JobStep

LEMMA DeletesQuiet ==
  ASSUME Shape, NEW t \in Target, NEW u \in Target, Deletes(t)
  PROVE  Quiet(u)
<1>0. UNCHANGED <<want, job>>
  BY DEF Deletes, RequestDelete, Killed, RemoveData, RemoveStaging, DropRow, DeleteStep
<1>1. file'[u] \in {file[u], staging[u].data, NoFile}
  BY FileQuiet DEF Deletes, RequestDelete, Killed, RemoveData, RemoveStaging, DropRow, diskVars
<1>2. staging'[u].data = staging[u].data \/ staging'[u].data.from # "replica"
  BY StageQuiet DEF Deletes, RequestDelete, Killed, RemoveData, RemoveStaging, DropRow, diskVars
<1>3. row'[u].st = "absent" => row[u].st = "absent"
  <2>1. [NoRow EXCEPT !.st = "gone"] \in Row /\ [NoRow EXCEPT !.st = "gone"].st # "absent"
    BY DEF NoRow, Row, Status
  <2> QED BY <2>1, RowQuiet DEF Deletes, RequestDelete, Killed, RemoveData, RemoveStaging, DropRow, Status
<1> QED BY <1>0, <1>1, <1>2, <1>3 DEF Quiet

\* The INSERT of a row, or its failure.
LEMMA BeginsQuiet ==
  ASSUME IInv, NEW t \in Target, NEW u \in Target,
         ReserveFails(t) \/ RestoreBegins(t) \/ ImportBegins(t) \/ ImportRefused(t)
  PROVE  Quiet(u)
<1>0. Shape /\ UNCHANGED <<want, file>>
  BY DEF IInv, ReserveFails, RestoreBegins, ImportBegins, ImportRefused, diskVars
<1>1. job'[u].pc = "download" => job'[u] = job[u] \/ want[u] = 0
  BY <1>0, JobQuiet DEF ReserveFails, RestoreBegins, ImportBegins, ImportRefused
<1>2. staging'[u].data = staging[u].data \/ staging'[u].data.from # "replica"
  <2>1. NoFile.from # "replica" /\ Copied.from # "replica"
    BY DEF NoFile, Copied, Of
  <2> QED BY <1>0, <2>1, StageQuiet DEF ReserveFails, RestoreBegins, ImportBegins, ImportRefused, diskVars
<1>3. row'[u].st = "absent" => row[u].st = "absent"
  <2>1. CASE ReserveFails(t)
    BY <2>1 DEF ReserveFails
  <2>2. ASSUME NEW st \in {"restoring", "failed"}, job[t].pc = "reserve",
               row' = [row EXCEPT ![t] = [st |-> st, ws |-> job[t].ws, auto |-> FALSE]]
        PROVE  row'[u].st = "absent" => row[u].st = "absent"
    <3>1. \E w \in Ws : job[t].ws = {w}
      BY <2>2 DEF IInv, TargetInv, PhaseInv
    <3>2. [st |-> st, ws |-> job[t].ws, auto |-> FALSE] \in Row
      BY <3>1 DEF Row, Status
    <3>3. [st |-> st, ws |-> job[t].ws, auto |-> FALSE].st # "absent"
      OBVIOUS
    <3> QED BY <1>0, <2>2, <3>2, <3>3, RowQuiet
  <2> QED BY <2>1, <2>2 DEF RestoreBegins, ImportBegins, ImportRefused, NewRow
<1> QED BY <1>0, <1>1, <1>2, <1>3 DEF Quiet

\* A request notes the second it asks for: nothing of its target is there yet.
LEMMA RequestPoint ==
  ASSUME IInv, TimeInv, NEW t \in Target, NEW w \in Ws,
         RequestImport(t, w) \/ \E at \in 0..Second(now) + 1 : RequestRestore(t, w, at)
  PROVE  TimeInv'
<1>1. PICK op \in {"restore", "import"} : Request(t, w, op)
  BY DEF RequestImport, RequestRestore
<1>2. /\ UNCHANGED <<row, file, staging, srcVars>> /\ row[t].st = "absent"
      /\ job' = [job EXCEPT ![t] = [pc |-> "reserve", op |-> op, ws |-> {w}, pin |-> 0]]
  BY <1>1 DEF Request, diskVars
<1>3. /\ job'[t].pc = "reserve" /\ \A u \in Target \ {t} : job'[u] = job[u]
  BY <1>2 DEF IInv, Shape
<1>4. /\ DOMAIN want' = Target /\ want'[t] \in Nat
      /\ \A u \in Target \ {t} : want'[u] = want[u]
  <2>1. Second(now) \in Nat
    BY Seconds DEF TimeInv, SourceInv
  <2> QED BY <2>1 DEF RequestImport, RequestRestore, TimeInv, PointInv
<1>5. SourceInv' /\ commits' = commits
  BY <1>2 DEF TimeInv, SourceInv, srcVars
<1>6. ASSUME NEW u \in Target PROVE PointInv(u)'
  <2>1. CASE u = t
    BY <1>2, <1>3, <1>4, <2>1 DEF TimeInv, PointInv
  <2>2. CASE u # t
    BY <1>2, <1>3, <1>4, <1>5, <2>2 DEF TimeInv, PointInv, Earlier
  <2> QED BY <2>1, <2>2
<1> QED BY <1>4, <1>5, <1>6 DEF TimeInv

\* The end of the last file written before the second, which pins the restore.
LEMMA ListedPoint ==
  ASSUME IInv, TimeInv, NEW t \in Target, Listed(t)
  PROVE  TimeInv'
<1> DEFINE ends == Before(want[t])
           pin == Max(ends)
<1>1. /\ UNCHANGED <<row, file, staging, want, srcVars>> /\ ends # {}
      /\ job' = [job EXCEPT ![t].pc = "download", ![t].pin = pin]
  BY DEF Listed, WorldStays, diskVars
<1>2. SourceInv /\ want[t] \in Nat
  BY DEF TimeInv, PointInv
<1>3. ends \in SUBSET Nat /\ Len(commits) \in Nat /\ \A n \in ends : n <= Len(commits)
  BY <1>2 DEF Before, SourceInv
<1>4. pin \in ends
  <2> HIDE DEF ends
  <2> QED BY <1>1, <1>3, Largest
<1>5. PICK f \in ltx : f.max = pin /\ f.ts < want[t]
  BY <1>4 DEF Before
<1> HIDE DEF pin, ends
<1>6. pin # 0 /\ Earlier(pin, want[t])
  <2>1. /\ pin \in 1..Len(commits) /\ f.ts \in Nat
        /\ \A n \in 1..pin : Second(commits[n]) <= f.ts
    <3>1. /\ f.max \in 1..Len(commits) /\ f.ts \in Nat
          /\ \A n \in 1..f.max : Second(commits[n]) <= f.ts
      BY <1>2, <1>5 DEF SourceInv
    <3> QED BY <1>5, <3>1
  <2>2. \A n \in 1..pin : commits[n] \in Nat /\ Second(commits[n]) \in Nat
    <3>1. commits \in Seq(Nat) /\ Len(commits) \in Nat
      BY <1>2 DEF SourceInv
    <3>2. \A n \in 1..pin : n \in 1..Len(commits)
      BY <2>1, <3>1
    <3>3. \A n \in 1..pin : commits[n] \in Nat
      BY <3>1, <3>2
    <3> QED BY <3>3, Seconds
  <2>3. \A n \in 1..pin : Second(commits[n]) < want[t]
    BY <1>2, <1>5, <2>1, <2>2
  <2>4. \A n \in 1..pin : commits[n] < 2 * want[t]
    BY <1>2, <2>2, <2>3, Seconds
  <2> QED BY <2>1, <2>4 DEF Earlier
<1>7. job'[t].pin = pin /\ \A u \in Target \ {t} : job'[u] = job[u]
  BY <1>1 DEF IInv, Shape
<1>8. SourceInv' /\ commits' = commits
  BY <1>1, <1>2 DEF SourceInv, srcVars
<1>9. ASSUME NEW u \in Target PROVE PointInv(u)'
  <2>1. PointInv(u)
    BY DEF TimeInv
  <2>2. \A n, at : Earlier(n, at)' <=> Earlier(n, at)
    BY <1>8 DEF Earlier
  <2> QED BY <1>1, <1>6, <1>7, <2>1, <2>2 DEF PointInv
<1> QED BY <1>1, <1>8, <1>9 DEF TimeInv

\* litestream with -txid ends at the pin, whatever was shipped meanwhile.
LEMMA DownloadedPoint ==
  ASSUME IInv, TimeInv, NEW t \in Target, Downloaded(t)
  PROVE  TimeInv'
<1>1. /\ UNCHANGED <<row, file, want, srcVars>> /\ Reachable(t) # {} /\ Goes(t, "place")
      /\ job[t].pc = "download"
      /\ Stage(t, UpTo(Max(Reachable(t)))) \/ Stage(t, Of("damaged"))
  BY DEF Downloaded, WorldStays
<1>2. SourceInv' /\ commits' = commits
  BY <1>1 DEF TimeInv, SourceInv, srcVars
<1>3. PointInv(t) /\ Shape /\ row[t].st # "absent"
  BY <1>1 DEF TimeInv, IInv, TargetInv, PhaseInv
<1>4. want[t] # 0 => Earlier(Max(Reachable(t)), want[t])
  <2> SUFFICES ASSUME want[t] # 0 PROVE Earlier(Max(Reachable(t)), want[t])
    OBVIOUS
  <2>1. job[t].pin # 0 /\ job[t].pin \in Nat /\ Earlier(job[t].pin, want[t])
    BY <1>1, <1>3 DEF PointInv, Earlier
  <2>2. Reachable(t) = {job[t].pin}
    BY <1>1, <2>1 DEF Reachable
  <2>3. Max({job[t].pin}) \in {job[t].pin}
    BY <2>1, Largest
  <2> QED BY <2>1, <2>2, <2>3
<1>5. /\ job'[t].pc = "place" /\ \A u \in Target \ {t} : job'[u] = job[u] /\ staging'[u] = staging[u]
      /\ \/ staging'[t].data.from # "replica"
         \/ staging'[t].data.n = Max(Reachable(t))
  BY <1>1, <1>3 DEF Shape, Goes, Stage, UpTo, Of
<1>6. ASSUME NEW u \in Target PROVE PointInv(u)'
  <2>1. PointInv(u)
    BY DEF TimeInv
  <2>2. \A n, at : Earlier(n, at)' <=> Earlier(n, at)
    BY <1>2 DEF Earlier
  <2>3. CASE u = t
    BY <1>1, <1>3, <1>4, <1>5, <2>1, <2>2, <2>3 DEF PointInv
  <2>4. CASE u # t
    BY <1>1, <1>5, <2>1, <2>2, <2>4 DEF PointInv
  <2> QED BY <2>3, <2>4
<1> QED BY <1>1, <1>2, <1>6 DEF TimeInv

LEMMA CrashBootQuiet ==
  ASSUME IInv, NEW u \in Target, Crash \/ Boot \/ \E w \in Ws : DeleteWorkspace(w)
  PROVE  Quiet(u)
<1>0. Shape
  BY DEF IInv
<1>1. UNCHANGED <<want, staging>> /\ file'[u] \in {file[u], Of("empty")}
  BY <1>0, BootTarget DEF Crash, DeleteWorkspace, diskVars, Boot
<1>2. job'[u].pc # "download" \/ job'[u] = job[u]
  BY DEF Crash, Boot, DeleteWorkspace, NoJob
<1>3. row'[u].st = "absent" => row[u].st = "absent"
  <2>1. CASE Boot
    <3>1. row'[u].st \in Booted(u) /\ row[u].st \in Status /\ row[u].auto \in BOOLEAN
      BY <1>0, <2>1, BootTarget DEF Shape, Row
    <3> QED BY <3>1 DEF Booted, Reconciled, Status
  <2> QED BY <2>1 DEF Crash, DeleteWorkspace
<1> QED BY <1>1, <1>2, <1>3 DEF Quiet

LEMMA HandQuiet ==
  ASSUME Shape, NEW t \in Target, NEW u \in Target, ByOperator(t)
  PROVE  Quiet(u)
<1>1. UNCHANGED <<want, job, staging>>
  BY DEF ByOperator, StartBegins, StartSpawns, StartEnds, StopBegins, StopEnds, ByHand
<1>2. file'[u] \in {file[u], Of("empty")}
  BY DEF ByOperator, StartBegins, StartSpawns, StartEnds, StopBegins, StopEnds, Shape
<1>3. row'[u].st = "absent" => row[u].st = "absent"
  <2>1. ASSUME NEW st \in {"starting", "running", "unlaunched", "stopped"}, Write(t, st)
        PROVE  row'[u].st = "absent" => row[u].st = "absent"
    <3>1. row' = [row EXCEPT ![t].st = IF Exists(t) THEN st ELSE row[t].st]
      BY <2>1 DEF Write
    <3>2. (IF Exists(t) THEN st ELSE row[t].st) \in Status
      BY DEF Shape, Row, Status
    <3>3. (IF Exists(t) THEN st ELSE row[t].st) # "absent" \/ row[t].st = "absent"
      BY DEF Exists
    <3> QED BY <3>1, <3>2, <3>3, RowQuiet
  <2> QED BY <2>1 DEF ByOperator, StartBegins, StartSpawns, StartEnds, StopBegins, StopEnds
<1> QED BY <1>1, <1>2, <1>3 DEF Quiet

LEMMA TimeInit == ASSUME Init PROVE TimeInv
<1>1. /\ now = 0 /\ commits = <<>> /\ ltx = {} /\ want = [t \in Target |-> 0]
      /\ file \in [Target -> {NoFile, Of("earlier")}]
      /\ staging = [t \in Target |-> [dir |-> "none", data |-> NoFile]]
  BY DEF Init
<1>2. NoFile.from # "replica" /\ Of("earlier").from # "replica"
  BY DEF NoFile, Of
<1>3. SourceInv
  BY <1>1 DEF SourceInv
<1> QED BY <1>1, <1>2, <1>3 DEF TimeInv, PointInv

LEMMA TimeNext == ASSUME IInv, TimeInv, [Next]_vars PROVE TimeInv'
<1>0. Shape
  BY DEF IInv
<1>1. CASE World
  BY <1>1, WorldPoint
<1>2. ASSUME NEW t \in Target, NEW w \in Ws,
             RequestImport(t, w) \/ \E at \in 0..Second(now) + 1 : RequestRestore(t, w, at)
      PROVE  TimeInv'
  BY <1>2, RequestPoint
<1>3. ASSUME NEW t \in Target,
             ReserveFails(t) \/ RestoreBegins(t) \/ ImportBegins(t) \/ ImportRefused(t)
      PROVE  TimeInv'
  <2>1. UNCHANGED <<srcVars, want>>
    BY <1>3 DEF ReserveFails, RestoreBegins, ImportBegins, ImportRefused
  <2> QED BY <1>3, <2>1, BeginsQuiet, AllQuiet
<1>4. ASSUME NEW t \in Target, JobStep(t)
      PROVE  TimeInv'
  <2>1. UNCHANGED <<srcVars, want>>
    BY <1>4 DEF JobStep, PreflightFails, PreflightPasses, Listed, NothingBefore, Downloaded,
       LitestreamFails, Hashed, Place, PlaceRefused, Unlock, HandOver, Started, NotStarted, JobEnds,
       WorldStays
  <2> QED BY <1>0, <1>4, <2>1, ListedPoint, DownloadedPoint, StepsQuiet, AllQuiet
<1>5. ASSUME NEW t \in Target, Deletes(t)
      PROVE  TimeInv'
  <2>1. UNCHANGED <<srcVars, want>>
    BY <1>5 DEF Deletes, RequestDelete, Killed, RemoveData, RemoveStaging, DropRow, DeleteStep
  <2> QED BY <1>0, <1>5, <2>1, DeletesQuiet, AllQuiet
<1>8. ASSUME NEW t \in Target, ByOperator(t)
      PROVE  TimeInv'
  <2>1. UNCHANGED <<srcVars, want>>
    BY <1>8 DEF ByOperator, StartBegins, StartSpawns, StartEnds, StopBegins, StopEnds, ByHand
  <2> QED BY <1>0, <1>8, <2>1, HandQuiet, AllQuiet
<1>6. CASE Crash \/ Boot \/ \E w \in Ws : DeleteWorkspace(w)
  <2>1. UNCHANGED <<srcVars, want>>
    BY <1>6 DEF Crash, Boot, DeleteWorkspace
  <2> QED BY <1>6, <2>1, CrashBootQuiet, AllQuiet
<1>7. CASE UNCHANGED vars
  BY <1>7 DEF vars, diskVars, srcVars, TimeInv, SourceInv, PointInv, Earlier
<1> QED BY <1>1, <1>2, <1>3, <1>4, <1>5, <1>6, <1>7, <1>8 DEF Next

\* A restore to a second holds no transaction committed in that second or later,
\* whatever was shipped and compacted, and stamped anew, meanwhile, and however
\* often it was cut short (restore.ts: resolveTxid).
THEOREM AlwaysPointInTime == Spec => []PointInTime
<1>1. IInv /\ TimeInv => PointInTime
  <2> SUFFICES ASSUME TimeInv, NEW t \in Target, file[t].from = "replica", want[t] # 0
               PROVE  \A n \in 1..file[t].n : commits[n] < 2 * want[t]
    BY DEF PointInTime
  <2> QED BY DEF TimeInv, PointInv, Earlier
<1>2. Spec => []TimeInv
  <2>1. TimeInv /\ IInv /\ [Next]_vars => TimeInv'
    BY TimeNext
  <2> QED BY <2>1, TimeInit, JobsInvariant, PTL DEF Spec
<1> QED BY <1>1, <1>2, JobsInvariant, PTL
=============================================================================
