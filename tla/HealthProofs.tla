---------------------------- MODULE HealthProofs ----------------------------
(***************************************************************************)
(* GapIsShown and ControlIsFresh for every Db, Lag, MaxAge and Grace.      *)
(***************************************************************************)
EXTENDS Health, TLAPS

\* What a log line leaves: it is not from the future, and after one that said
\* "caught up" only newer changes are missing.
LineTimes(d) ==
  /\ proc[d].sync # Never => proc[d].sync <= now
  /\ proc[d].behind # Never => proc[d].behind <= now
  /\ proc[d].sync # Never /\ proc[d].behind = Never /\ missing[d] # Never
       => missing[d] >= proc[d].sync

\* Where the replica trails, either the change is hardly older than the first
\* line that said so, or "ok" has been shown since that line at most.
TrailTimes(d) ==
  proc[d].behind # Never /\ missing[d] # Never
    => \/ missing[d] >= proc[d].behind - Lag
       \/ ReplicaState(d) = "ok" => since[d] >= proc[d].behind

\* The service never believes in a backup newer than the newest in the store.
ControlBelief ==
  control.ok # Never => saved # Never /\ control.ok <= saved

HInv ==
  /\ TypeOK
  /\ \A d \in Db : LineTimes(d)
  /\ \A d \in Db : TrailTimes(d)
  /\ ControlBelief

-----------------------------------------------------------------------------
LEMMA InitHInv == ASSUME Init PROVE HInv
  BY HealthAssumption DEF Init, HInv, TypeOK, LineTimes, TrailTimes, ControlBelief,
     NoEntry, Time

\* Launch, Stop, Relaunch, SyncLine, ErrorLine and Dies set one entry.
Entry == [here : BOOLEAN, child : BOOLEAN, sync : Time, error : Time, behind : Time]

LEMMA SeesType ==
  ASSUME TypeOK, NEW d \in Db, NEW entry \in Entry, Sees(d, entry)
  PROVE  proc' \in [Db -> Entry]
  BY DEF TypeOK, Sees, Entry

LEMMA ProcType ==
  ASSUME TypeOK, Step
  PROVE  proc' \in [Db -> Entry]
<1> USE HealthAssumption DEF Time
<1>0. NoEntry \in Entry
  BY DEF NoEntry, Entry
<1>a. proc \in [Db -> Entry]
  BY DEF TypeOK, Entry
<1>b. now \in Time
  BY DEF TypeOK
<1>1. CASE proc' = proc
  BY <1>1, <1>a
<1>2. CASE \E d \in Db : Launch(d)
  <2>1. PICK d \in Db : Launch(d)
    BY <1>2
  <2>2. [NoEntry EXCEPT !.here = TRUE, !.child = TRUE] \in Entry
    BY DEF NoEntry, Entry
  <2> QED BY <2>1, <2>2, SeesType DEF Launch
<1>3. CASE \E d \in Db : Stop(d)
  BY <1>3, <1>0, SeesType DEF Stop
<1>4. CASE \E d \in Db : Relaunch(d)
  <2>1. PICK d \in Db : Relaunch(d)
    BY <1>4
  <2>2. [proc[d] EXCEPT !.child = TRUE] \in Entry
    BY <1>a DEF Entry
  <2> QED BY <2>1, <2>2, SeesType DEF Relaunch
<1>5. CASE \E d \in Db, c \in BOOLEAN : SyncLine(d, c)
  <2>1. PICK d \in Db, c \in BOOLEAN : SyncLine(d, c)
    BY <1>5
  <2>2. Behind(d, c) \in Time
    BY <1>a, <1>b DEF Behind, Entry
  <2>3. [proc[d] EXCEPT !.sync = now, !.behind = Behind(d, c)] \in Entry
    BY <1>a, <1>b, <2>2 DEF Entry
  <2> QED BY <2>1, <2>3, SeesType DEF SyncLine
<1>6. CASE \E d \in Db : ErrorLine(d)
  <2>1. PICK d \in Db : ErrorLine(d)
    BY <1>6
  <2>2. [proc[d] EXCEPT !.error = now] \in Entry
    BY <1>a, <1>b DEF Entry
  <2> QED BY <2>1, <2>2, SeesType DEF ErrorLine
<1>7. CASE \E d \in Db : Dies(d)
  <2>1. PICK d \in Db : Dies(d)
    BY <1>7
  <2>2. [proc[d] EXCEPT !.child = FALSE, !.error = now] \in Entry
    BY <1>a, <1>b DEF Entry
  <2> QED BY <2>1, <2>2, SeesType DEF Dies
<1>8. CASE proc' = [d \in Db |-> NoEntry]
  BY <1>8, <1>0
<1> QED
  BY <1>1, <1>2, <1>3, <1>4, <1>5, <1>6, <1>7, <1>8
  DEF Step, Tick, Write, Verified, Ends, Begins, Flips, Uploads, Restart

LEMMA VerifiedType ==
  ASSUME TypeOK, Step
  PROVE  verified' \in [Db -> [failed : BOOLEAN, ok : Time]]
<1>1. CASE \E d \in Db, ok \in BOOLEAN : Verified(d, ok)
  <2>1. PICK d \in Db, ok \in BOOLEAN : Verified(d, ok)
    BY <1>1
  <2>2. [failed |-> ~ok, ok |-> IF ok THEN now ELSE verified[d].ok] \in [failed : BOOLEAN, ok : Time]
    BY DEF TypeOK, Time
  <2> QED BY <2>1, <2>2 DEF Verified, TypeOK
<1>2. CASE verified' = verified
  BY <1>2 DEF TypeOK
<1> QED
  BY <1>1, <1>2
  DEF Step, Tick, Write, Launch, Stop, Relaunch, SyncLine, ErrorLine, Dies, Ends, Begins, Flips,
      Uploads, Restart

LEMMA RowType ==
  ASSUME TypeOK, Step
  PROVE  row' \in [Db -> {"running", "stopped"}]
<1>1. CASE \E d \in Db : Ends(d) \/ Begins(d)
  BY <1>1 DEF Ends, Begins, Flips, TypeOK
<1>2. CASE row' = row
  BY <1>2 DEF TypeOK
<1> QED
  BY <1>1, <1>2
  DEF Step, Tick, Write, Launch, Stop, Relaunch, SyncLine, ErrorLine, Dies, Verified, Uploads,
      Restart

LEMMA MissingType ==
  ASSUME TypeOK, Step
  PROVE  missing' \in [Db -> Time]
<1>1. CASE \E d \in Db : Write(d)
  BY <1>1 DEF Write, TypeOK, Time
<1>2. CASE \E d \in Db, c \in BOOLEAN : SyncLine(d, c)
  BY <1>2 DEF SyncLine, TypeOK, Time
<1>3. CASE missing' = missing
  BY <1>3 DEF TypeOK
<1> QED
  BY <1>1, <1>2, <1>3
  DEF Step, Tick, Launch, Stop, Relaunch, ErrorLine, Dies, Verified, Ends, Begins, Flips,
      Uploads, Restart

LEMMA StepType ==
  ASSUME TypeOK, Step, Watched
  PROVE  TypeOK'
<1>1. now' \in Nat /\ startedAt' \in Nat
  <2>1. now' = now \/ now' = now + 1
    BY DEF Step, Tick, Write, Launch, Stop, Relaunch, SyncLine, ErrorLine, Dies,
       Verified, Ends, Begins, Flips, Uploads, Restart
  <2>2. startedAt' = startedAt \/ startedAt' = now
    BY DEF Step, Tick, Write, Launch, Stop, Relaunch, SyncLine, ErrorLine, Dies,
       Verified, Ends, Begins, Flips, Uploads, Restart
  <2> QED BY <2>1, <2>2 DEF TypeOK
<1>2. control' \in [ok : Time, error : Time] /\ saved' \in Time
  <2>1. CASE \E written, ok \in BOOLEAN : Uploads(written, ok)
    BY <2>1 DEF Uploads, TypeOK, Time
  <2>2. CASE \E listed \in BOOLEAN : Restart(listed)
    BY <2>2 DEF Restart, TypeOK, Time
  <2>3. CASE UNCHANGED <<control, saved>>
    BY <2>3 DEF TypeOK
  <2> QED
    BY <2>1, <2>2, <2>3
    DEF Step, Tick, Write, Launch, Stop, Relaunch, SyncLine, ErrorLine, Dies,
        Verified, Ends, Begins, Flips
<1>3. since' \in [Db -> Nat]
  BY <1>1 DEF TypeOK, Watched
<1> QED
  BY <1>1, <1>2, <1>3, ProcType, VerifiedType, RowType, MissingType DEF TypeOK, Entry

-----------------------------------------------------------------------------
(* The entry and the missing change of one database: what a step can do.   *)

\* A step leaves the entry of d, clears it, flips its child, adds an error, or
\* is a line that its litestream logs.
LEMMA EntrySteps ==
  ASSUME TypeOK, Step, NEW d \in Db
  PROVE  \/ /\ proc'[d].sync = proc[d].sync /\ proc'[d].behind = proc[d].behind
            /\ \/ missing'[d] = missing[d]
               \/ missing[d] = Never /\ missing'[d] = now
            /\ now' = now \/ now' = now + 1
         \/ /\ proc'[d].sync = Never /\ proc'[d].behind = Never
            /\ missing'[d] = missing[d] /\ now' = now
         \/ /\ proc'[d].sync = now /\ proc'[d].behind = Never
            /\ missing'[d] = Never /\ now' = now
         \/ /\ proc'[d].sync = now
            /\ proc'[d].behind = IF proc[d].behind = Never THEN now ELSE proc[d].behind
            /\ missing'[d] = missing[d] /\ missing[d] # Never /\ now' = now
<1> USE DEF TypeOK, Time
<1>1. CASE proc' = proc /\ missing' = missing
  BY <1>1 DEF Step, Tick, Write, Launch, Stop, Relaunch, SyncLine, ErrorLine, Dies,
     Verified, Ends, Begins, Flips, Uploads, Restart
<1>2. CASE \E e \in Db : Write(e)
  BY <1>2 DEF Write
<1>3. ASSUME NEW e \in Db, NEW entry, Sees(e, entry), UNCHANGED <<now, missing>>,
             \/ entry.sync = Never /\ entry.behind = Never
             \/ entry.sync = proc[e].sync /\ entry.behind = proc[e].behind
      PROVE  \/ proc'[d].sync = proc[d].sync /\ proc'[d].behind = proc[d].behind
             \/ proc'[d].sync = Never /\ proc'[d].behind = Never
  <2>1. CASE e = d
    BY <1>3, <2>1 DEF Sees
  <2>2. CASE e # d
    BY <1>3, <2>2 DEF Sees
  <2> QED BY <2>1, <2>2
<1>4a. CASE \E e \in Db : Launch(e)
  <2>1. PICK e \in Db : Launch(e)
    BY <1>4a
  <2> QED BY <2>1, <1>3 DEF Launch, NoEntry
<1>4b. CASE \E e \in Db : Stop(e)
  <2>1. PICK e \in Db : Stop(e)
    BY <1>4b
  <2> QED BY <2>1, <1>3 DEF Stop, NoEntry
<1>4c. CASE \E e \in Db : Relaunch(e)
  <2>1. PICK e \in Db : Relaunch(e)
    BY <1>4c
  <2> QED BY <2>1, <1>3 DEF Relaunch
<1>4d. CASE \E e \in Db : ErrorLine(e)
  <2>1. PICK e \in Db : ErrorLine(e)
    BY <1>4d
  <2> QED BY <2>1, <1>3 DEF ErrorLine
<1>4e. CASE \E e \in Db : Dies(e)
  <2>1. PICK e \in Db : Dies(e)
    BY <1>4e
  <2> QED BY <2>1, <1>3 DEF Dies
<1>5. CASE \E e \in Db : SyncLine(e, TRUE)
  BY <1>5 DEF SyncLine, Behind, Sees
<1>6. CASE \E e \in Db : SyncLine(e, FALSE)
  BY <1>6 DEF SyncLine, Behind, Sees
<1>7. CASE \E listed \in BOOLEAN : Restart(listed)
  BY <1>7 DEF Restart, NoEntry
<1> QED
  BY <1>1, <1>2, <1>4a, <1>4b, <1>4c, <1>4d, <1>4e, <1>5, <1>6, <1>7
  DEF Step, Tick, Verified, Ends, Begins, Flips, Uploads

LEMMA LineTimesStep ==
  ASSUME HInv, Step, Watched, NEW d \in Db
  PROVE  LineTimes(d)'
<1>1. TypeOK /\ LineTimes(d)
  BY DEF HInv
<1>2. now \in Nat /\ missing[d] \in Time /\ proc[d].sync \in Time /\ proc[d].behind \in Time
  BY <1>1 DEF TypeOK
<1> QED
  BY <1>1, <1>2, EntrySteps, HealthAssumption DEF LineTimes, Time

\* "ok" after a step was "ok" before it, or it is new.
LEMMA SinceStep ==
  ASSUME TypeOK, Watched, NEW d \in Db
  PROVE  \/ ReplicaState(d)' = ReplicaState(d) /\ since'[d] = since[d]
         \/ since'[d] = now'
  BY DEF Watched, TypeOK

\* What "ok" says of the entry.
LEMMA OkEntry ==
  ASSUME NEW d \in Db, ReplicaState(d) = "ok"
  PROVE  /\ Within(proc[d].sync, Lag)
         /\ proc[d].behind # Never => Within(proc[d].behind, Lag)
  BY DEF ReplicaState

LEMMA TrailTimesStep ==
  ASSUME HInv, Step, Watched, NEW d \in Db
  PROVE  TrailTimes(d)'
<1>1. TypeOK /\ LineTimes(d) /\ TrailTimes(d)
  BY DEF HInv
<1>2. /\ now \in Nat /\ since[d] \in Nat /\ missing[d] \in Time
      /\ proc[d].sync \in Time /\ proc[d].behind \in Time
  BY <1>1 DEF TypeOK
<1> DEFINE wasOk == ReplicaState(d) = "ok"
           isOk  == ReplicaState(d)'  = "ok"
<1>3. isOk => (wasOk /\ since'[d] = since[d]) \/ since'[d] = now'
  BY <1>1, SinceStep
<1>4. wasOk => /\ proc[d].sync # Never /\ now - proc[d].sync <= Lag
  BY OkEntry DEF Within
<1>5. LineTimes(d)'
  BY LineTimesStep
<1>6. TrailTimes(d)' <=>
        (proc'[d].behind # Never /\ missing'[d] # Never
           => missing'[d] >= proc'[d].behind - Lag \/ (isOk => since'[d] >= proc'[d].behind))
  BY DEF TrailTimes
<1>7. TrailTimes(d) <=>
        (proc[d].behind # Never /\ missing[d] # Never
           => missing[d] >= proc[d].behind - Lag \/ (wasOk => since[d] >= proc[d].behind))
  BY DEF TrailTimes
<1> HIDE DEF wasOk, isOk
<1> QED
  BY <1>1, <1>2, <1>3, <1>4, <1>5, <1>6, <1>7, EntrySteps, HealthAssumption DEF LineTimes, Time

LEMMA ControlBeliefStep ==
  ASSUME HInv, Step
  PROVE  ControlBelief'
<1>1. TypeOK /\ ControlBelief
  BY DEF HInv
<1>2. CASE \E written, ok \in BOOLEAN : Uploads(written, ok)
  BY <1>1, <1>2, HealthAssumption DEF Uploads, ControlBelief, TypeOK, Time
<1>3. CASE \E listed \in BOOLEAN : Restart(listed)
  BY <1>1, <1>3, HealthAssumption DEF Restart, ControlBelief, TypeOK, Time
<1>4. CASE UNCHANGED <<control, saved>>
  BY <1>1, <1>4 DEF ControlBelief
<1> QED
  BY <1>2, <1>3, <1>4
  DEF Step, Tick, Write, Launch, Stop, Relaunch, SyncLine, ErrorLine, Dies, Verified, Ends,
      Begins, Flips

LEMMA StepHInv == HInv /\ [Next]_vars => HInv'
<1> SUFFICES ASSUME HInv, [Next]_vars PROVE HInv'
  OBVIOUS
<1>1. CASE Next
  BY <1>1, StepType, LineTimesStep, TrailTimesStep, ControlBeliefStep DEF HInv, Next
<1>2. CASE UNCHANGED vars
  BY <1>2 DEF vars, HInv, TypeOK, LineTimes, TrailTimes, ControlBelief, ReplicaState, Within,
     AtOrAfter
<1> QED BY <1>1, <1>2

LEMMA SpecHInv == Spec => []HInv
<1>1. Init => HInv
  BY InitHInv
<1> QED BY <1>1, StepHInv, PTL DEF Spec

-----------------------------------------------------------------------------
\* The variables keep their types in every state of every behaviour.
THEOREM TypeCorrect == Spec => []TypeOK
<1>1. HInv => TypeOK
  BY DEF HInv
<1> QED BY <1>1, SpecHInv, PTL

LEMMA HInvShowsGaps == HInv => GapIsShown
<1> SUFFICES ASSUME HInv, NEW d \in Db, ReplicaState(d) = "ok", missing[d] # Never
             PROVE  Within(missing[d], 2 * Lag) \/ Within(since[d], 2 * Lag)
  BY DEF GapIsShown
<1>1. TypeOK /\ LineTimes(d) /\ TrailTimes(d)
  BY DEF HInv
<1>2. /\ now \in Nat /\ since[d] \in Nat /\ missing[d] \in Nat /\ Lag \in Nat
      /\ proc[d].sync \in Time /\ proc[d].behind \in Time
  BY <1>1, HealthAssumption DEF TypeOK, Time
<1>3. proc[d].sync # Never /\ now - proc[d].sync <= Lag
  BY OkEntry DEF Within
<1>4. proc[d].behind # Never => now - proc[d].behind <= Lag
  BY OkEntry DEF Within
<1>5. CASE proc[d].behind = Never
  <2>1. missing[d] >= proc[d].sync
    BY <1>1, <1>3, <1>5 DEF LineTimes
  <2> QED BY <1>2, <1>3, <2>1, HealthAssumption DEF Within, Time
<1>6. CASE proc[d].behind # Never
  <2>1. missing[d] >= proc[d].behind - Lag \/ since[d] >= proc[d].behind
    BY <1>1, <1>6 DEF TrailTimes
  <2> QED BY <1>2, <1>4, <1>6, <2>1, HealthAssumption DEF Within, Time
<1> QED BY <1>5, <1>6

\* A 200 from GET /healthz never hides, for longer than twice the allowed lag,
\* that a replica shown as "ok" lacks a change: whatever the number of
\* databases, the lag and the order of log lines, exits and restarts.
THEOREM GapShown == Spec => []GapIsShown
  BY SpecHInv, HInvShowsGaps, PTL

LEMMA HInvControlFresh == HInv => ControlIsFresh
<1> SUFFICES ASSUME HInv, Healthy
             PROVE  Within(saved, MaxAge) \/ Within(startedAt, Grace)
  BY DEF ControlIsFresh
<1>1. Within(control.ok, MaxAge) \/ Within(startedAt, Grace)
  BY DEF Healthy, ControlState
<1>2. TypeOK /\ ControlBelief
  BY DEF HInv
<1> QED
  BY <1>1, <1>2, HealthAssumption DEF ControlBelief, TypeOK, Time, Within

\* A 200 says that a backup of the control plane reached the store within
\* MaxAge, or that the server is younger than its grace period: for every
\* MaxAge and Grace, over restarts, half-failed uploads and failed listings.
THEOREM ControlFresh == Spec => []ControlIsFresh
  BY SpecHInv, HInvControlFresh, PTL
=============================================================================
