-------------------------- MODULE SupervisorProofs --------------------------
(***************************************************************************)
(* The theorems about Supervisor, for every number of databases, requests, *)
(* pids and restarts: the inductive invariant is preserved by every step   *)
(* (one section per part of MapsAgree, one lemma per group of actions),    *)
(* the safety properties follow from it, and so does the refinement of     *)
(* DataDirOwner.                                                           *)
(***************************************************************************)
EXTENDS Supervisor, SequenceTheorems, TLAPS

USE DEF AllKinds

-----------------------------------------------------------------------------
(* Types.                                                                  *)

\* The initial state is well typed.
LEMMA TypeInit ==
  ASSUME Init
  PROVE  TypeOK
<1>1. <<>> \in Seq(Thread)
  BY EmptySeq
<1> QED BY <1>1, ConstAssumption DEF Init, TypeOK, Thread, Status, Reason, PState, Mode, PC

\* Tail of a non-empty sequence is a sequence.
LEMMA TailType ==
  ASSUME NEW S, NEW s \in Seq(S), s # <<>>
  PROVE  Tail(s) \in Seq(S)
  BY HeadTailProperties

\* An operation chained behind others leaves the first one in place.
LEMMA AppendKeepsHead ==
  ASSUME NEW S, NEW s \in Seq(S), NEW e \in S
  PROVE  /\ Append(s, e) \in Seq(S)
         /\ Append(s, e) # <<>>
         /\ s # <<>> => Head(Append(s, e)) = Head(s)
  BY AppendProperties

\* A lock chain stays a sequence when its first operation settles (withLock).
LEMMA ReleaseType ==
  ASSUME TypeOK, NEW t \in Thread, Holds(t), Release(t)
  PROVE  locks' \in [Db -> Seq(Thread)]
<1>1. target[t] \in Db /\ locks[target[t]] \in Seq(Thread) /\ locks[target[t]] # <<>>
  BY DEF TypeOK, Holds
<1>2. Tail(locks[target[t]]) \in Seq(Thread)
  BY <1>1, TailType
<1> QED BY <1>2 DEF TypeOK, Release

\* A lock chain stays a sequence when an operation is chained (withLock).
LEMMA EnqueueType ==
  ASSUME TypeOK, NEW t \in Thread, NEW d \in Db, Enqueue(t, d)
  PROVE  locks' \in [Db -> Seq(Thread)]
<1>1. Append(locks[d], t) \in Seq(Thread)
  BY AppendKeepsHead DEF TypeOK
<1> QED BY <1>1 DEF TypeOK, Enqueue

\* A caller's note of a failed start is well typed.
LEMMA CallerType ==
  ASSUME TypeOK, NEW t \in Thread, CallerRecordsFailure(t)
  PROVE  status' \in [Db -> Status] /\ failed_reason' \in [Db -> Reason]
<1>1. status' \in [Db -> Status]
  <2>1. CASE kind[t] \in {"restore", "boot"}
    <3>1. status \in [Db -> Status] /\ "failed" \in Status
      BY DEF TypeOK, Status
    <3>2. SetStatus(target[t], "failed")
      BY <2>1 DEF CallerRecordsFailure
    <3> QED BY <3>1, <3>2 DEF SetStatus
  <2>2. CASE kind[t] \notin {"restore", "boot"}
    BY <2>2 DEF TypeOK, CallerRecordsFailure
  <2> QED BY <2>1, <2>2
<1>2. failed_reason' \in [Db -> Reason]
  BY DEF TypeOK, CallerRecordsFailure, Reason
<1> QED BY <1>1, <1>2

\* Process states stay well typed when init reaps the zombies.
LEMMA ReapType ==
  ASSUME TypeOK
  PROVE  Reap(pstate) \in [Pid -> PState]
  BY DEF TypeOK, Reap, PState

\* Memory is well typed after the control plane is gone.
LEMMA PlaneGoneType ==
  ASSUME TypeOK, PlaneGone
  PROVE  /\ mode' \in Mode
         /\ mine' \in SUBSET Pid
         /\ registry' \in SUBSET Pid
         /\ children' \in [Db -> Pid \cup {NoPid}]
         /\ adoptedPids' \in [Db -> Pid \cup {NoPid}]
         /\ watch' \in SUBSET (Pid \X Db)
         /\ locks' \in [Db -> Seq(Thread)]
         /\ todo' \in SUBSET Db
         /\ awaited' \in SUBSET Pid
         /\ termed' \in SUBSET Pid
         /\ pc' \in [Thread -> PC]
         /\ tpid' \in [Thread -> Pid \cup {NoPid}]
<1>1. <<>> \in Seq(Thread)
  BY EmptySeq
<1>2. locks' \in [Db -> Seq(Thread)]
  BY <1>1 DEF PlaneGone
<1> QED BY <1>2 DEF TypeOK, PlaneGone, Mode, PC

\* The steps of startDatabaseLocked keep TypeOK.  A lock is released only by
\* its holder, so this needs LockInv.
LEMMA TypeStart ==
  ASSUME TypeOK, LockInv, NEW t \in Thread, StartStep(t)
  PROVE  TypeOK'
<1> USE ConstAssumption DEF TypeOK, Status, Reason, PState, PC, Mode, Done, SetStatus, ClearRuntime, rowVars, osVars, memVars
<1>0. pc[t] \in {"key", "answered", "reap"} => Holds(t)
  BY DEF LockInv, InOperation
<1>1. CASE StartRefused(t)
  <2>1. locks' \in [Db -> Seq(Thread)]
    BY <1>1, ReleaseType DEF StartRefused
  <2>2. status' \in [Db -> Status] /\ failed_reason' \in [Db -> Reason]
    BY <1>1, CallerType DEF StartRefused
  <2> QED BY <1>1, <2>1, <2>2 DEF StartRefused
<1>2. CASE StartAlreadyRunning(t) BY <1>2, ReleaseType DEF StartAlreadyRunning, StartChecked
<1>3. CASE StartAccepted(t) BY <1>3 DEF StartAccepted
<1>4. CASE \E p \in Pid : SpawnChild(t, p) BY <1>4 DEF SpawnChild, Spawn
<1>5. CASE SpawnRefused(t) BY <1>0, <1>5, ReleaseType DEF SpawnRefused, LaunchFailed
<1>6. CASE ProbeAnswered(t) BY <1>6 DEF ProbeAnswered
<1>7. CASE LaunchReady(t) BY <1>0, <1>7, ReleaseType DEF LaunchReady
<1>8. CASE ProbeGivesUp(t) BY <1>8 DEF ProbeGivesUp
<1>9. CASE LaunchReaped(t) BY <1>0, <1>9, ReleaseType DEF LaunchReaped, LaunchFailed
<1>10. CASE KeyUnreadable(t)
  <2>1. CASE t = Boot
    <3>1. PlaneGone /\ pstate' = Reap(pstate) /\ UNCHANGED <<status, failed_reason, boots>>
      BY <1>10, <2>1 DEF KeyUnreadable
    <3>2. UNCHANGED <<auto_start, row_pid, row_start, pending, pstart, powner, pterm, clock, kind, target>>
      BY <1>10 DEF KeyUnreadable
    <3> QED BY <3>1, <3>2, PlaneGoneType, ReapType
  <2>2. CASE t # Boot
    <3>1. /\ CallerRecordsFailure(t)
          /\ Release(t)
          /\ pc' = [pc EXCEPT ![t] = "done"]
          /\ UNCHANGED <<pstate, mode, mine, registry, children, adoptedPids, watch, todo, awaited, boots, termed, tpid>>
      BY <1>10, <2>2 DEF KeyUnreadable
    <3>2. UNCHANGED <<auto_start, row_pid, row_start, pending, pstart, powner, pterm, clock, kind, target>>
      BY <1>10 DEF KeyUnreadable
    <3>3. Holds(t) BY <1>0, <1>10 DEF KeyUnreadable
    <3> QED BY <3>1, <3>2, <3>3, ReleaseType, CallerType
  <2> QED BY <2>1, <2>2
<1> QED BY <1>1, <1>2, <1>3, <1>4, <1>5, <1>6, <1>7, <1>8, <1>9, <1>10 DEF StartStep

\* A request that arrives keeps TypeOK.
LEMMA TypeArrives ==
  ASSUME TypeOK, NEW t \in Req, NEW d \in Db,
         \/ RequestCreate(t, d) \/ RequestStart(t, d) \/ RequestStop(t, d)
         \/ RequestDelete(t, d) \/ RequestRestore(t, d)
  PROVE  TypeOK'
<1>1. t \in Thread
  BY DEF Thread
<1> USE <1>1, EnqueueType, ConstAssumption DEF TypeOK, Status, Reason, PC, Arrive, osVars, rowVars
<1>2. CASE RequestCreate(t, d) BY <1>2 DEF RequestCreate
<1>3. CASE RequestStart(t, d) BY <1>3 DEF RequestStart
<1>4. CASE RequestStop(t, d) BY <1>4 DEF RequestStop
<1>5. CASE RequestDelete(t, d) BY <1>5 DEF RequestDelete
<1>6. CASE RequestRestore(t, d) BY <1>6 DEF RequestRestore
<1> QED BY <1>2, <1>3, <1>4, <1>5, <1>6

\* The steps of stop, delete and restore keep TypeOK.
LEMMA TypeRequest ==
  ASSUME TypeOK, LockInv, NEW t \in Req, RequestStep(t)
  PROVE  TypeOK'
<1>1. t \in Thread
  BY DEF Thread
<1>2. /\ TerminateBegins(t) => Holds(t)
      /\ ChildIsGone(t) => Holds(t)
      /\ AllGone(t) => Holds(t)
  BY <1>1 DEF TerminateBegins, ChildIsGone, AllGone, LockInv, InOperation
<1> USE <1>1, EnqueueType, ReleaseType
    DEF TypeOK, Status, Reason, PC, SetStatus, ClearRuntime, rowVars, osVars, memVars
<1>3. CASE RestoreFails(t) BY <1>3 DEF RestoreFails
<1>4. CASE RestorePlaces(t) BY <1>4 DEF RestorePlaces
<1>5. CASE StopRefused(t) BY <1>5 DEF StopRefused
<1>6. CASE TermChild(t) BY <1>6 DEF TermChild, Terminate
<1>7. CASE TermAdopted(t) BY <1>7 DEF TermAdopted, Terminate
<1>8. CASE StopFinishes(t) BY <1>2, <1>8 DEF StopFinishes
<1>9. CASE KillFinishes(t) BY <1>2, <1>9 DEF KillFinishes
<1>10. CASE RemoveFiles(t) BY <1>10 DEF RemoveFiles
<1>11. CASE DropRow(t) BY <1>11 DEF DropRow
<1> QED BY <1>3, <1>4, <1>5, <1>6, <1>7, <1>8, <1>9, <1>10, <1>11 DEF RequestStep

\* markCrashedIfLive writes well-typed rows.
LEMMA CrashedType ==
  ASSUME TypeOK, NEW d \in Db, MarkCrashedIfLive(d)
  PROVE  /\ status' \in [Db -> Status]
         /\ row_pid' \in [Db -> Pid \cup {NoPid}]
         /\ row_start' \in [Db -> Nat]
<1> USE DEF TypeOK, MarkCrashedIfLive, SetStatus, ClearRuntime, Status
<1>1. CASE status[d] \in {"running", "starting"}
  <2>1. SetStatus(d, "crashed") /\ ClearRuntime(d)
    BY <1>1
  <2> QED BY <2>1
<1>2. CASE status[d] \notin {"running", "starting"} BY <1>2
<1> QED BY <1>1, <1>2

\* What processes do, and the handlers of their deaths, keep TypeOK.
LEMMA TypeProcess ==
  ASSUME TypeOK, ChildInv, ProcessStep
  PROVE  TypeOK'
<1> USE DEF TypeOK, PState, rowVars, osVars, memVars, threadVars
<1>1. CASE \E p \in Pid : BindsPort(p) BY <1>1 DEF BindsPort
<1>2. CASE \E p \in Pid : Dies(p) BY <1>2 DEF Dies
<1>3. CASE \E p \in Pid : ForeignStarts(p) BY <1>3 DEF ForeignStarts, Spawn
<1>4. ASSUME NEW p \in Pid, ExitEvent(p)
      PROVE  TypeOK'
  <2>0. pstate[p] = "zombie"
    BY <1>4 DEF ExitEvent
  <2>1. powner[p] \in Db
    BY <2>0 DEF ChildInv
  <2>2. /\ status' \in [Db -> Status]
        /\ row_pid' \in [Db -> Pid \cup {NoPid}]
        /\ row_start' \in [Db -> Nat]
    <3>1. CASE mode \in {"stopping", "drained"} BY <1>4, <3>1 DEF ExitEvent
    <3>2. CASE mode \notin {"stopping", "drained"}
      BY <1>4, <2>1, <3>2, CrashedType DEF ExitEvent
    <3> QED BY <3>1, <3>2
  <2> QED BY <1>4, <2>1, <2>2 DEF ExitEvent
<1>5. ASSUME NEW p \in Pid, NEW d \in Db, WatchTick(p, d)
      PROVE  TypeOK'
  BY <1>5, CrashedType DEF WatchTick
<1> QED BY <1>1, <1>2, <1>3, <1>4, <1>5 DEF ProcessStep

\* reconcile() and sweepOrphans() keep TypeOK.
LEMMA TypeBoot ==
  ASSUME TypeOK, BootStep
  PROVE  TypeOK'
<1>1. Boot \in Thread
  BY DEF Thread
<1> USE <1>1, EnqueueType
    DEF TypeOK, Status, Reason, PState, Mode, PC, Visits, SetStatus, rowVars, osVars, memVars, threadVars
<1>2. ASSUME NEW d \in Db, BootLeaves(d) PROVE TypeOK' BY <1>2 DEF BootLeaves
<1>3. ASSUME NEW d \in Db, BootAdopts(d) PROVE TypeOK'
  BY <1>3 DEF BootAdopts, Adoptable, StartTime
<1>4. ASSUME NEW d \in Db, BootFindsPortBound(d) PROVE TypeOK' BY <1>4 DEF BootFindsPortBound
<1>5. ASSUME NEW d \in Db, BootRelaunches(d) PROVE TypeOK' BY <1>5 DEF BootRelaunches
<1>6. ASSUME NEW d \in Db, BootMarksStopped(d) PROVE TypeOK' BY <1>6 DEF BootMarksStopped
<1>7. CASE SweepTerm BY <1>7 DEF SweepTerm, Orphans
<1>8. CASE BootEnds BY <1>8 DEF BootEnds, KillSurvivors
<1> QED BY <1>2, <1>3, <1>4, <1>5, <1>6, <1>7, <1>8 DEF BootStep

\* Crash, restart and shutdown keep TypeOK.
LEMMA TypePlane ==
  ASSUME TypeOK, PlaneStep
  PROVE  TypeOK'
<1> USE DEF TypeOK, Mode, rowVars, osVars, memVars, threadVars
<1>1. CASE Crash BY <1>1, PlaneGoneType, ReapType DEF Crash
<1>2. ASSUME NEW t \in Thread, NEW p \in Pid, CrashAfterSpawn(t, p)
      PROVE  TypeOK'
  <2>1. pstate' \in [Pid -> PState]
    BY <1>2, ReapType DEF CrashAfterSpawn, PState
  <2>2. PlaneGone
    BY <1>2 DEF CrashAfterSpawn
  <2>3. /\ powner' \in [Pid -> Db \cup {Foreign}]
        /\ pstart' \in [Pid -> Nat]
        /\ pterm' \in [Pid -> BOOLEAN]
        /\ clock' \in Nat
    BY <1>2 DEF CrashAfterSpawn
  <2>4. UNCHANGED <<rowVars, boots, kind, target>>
    BY <1>2 DEF CrashAfterSpawn
  <2> QED BY <2>4, <2>1, <2>2, <2>3, PlaneGoneType
<1>3. CASE Restart BY <1>3 DEF Restart
<1>4. CASE Shutdown BY <1>4 DEF Shutdown
<1>5. CASE ShutdownDrains BY <1>5 DEF ShutdownDrains
<1>6. CASE ShutdownExits BY <1>6, PlaneGoneType, ReapType DEF ShutdownExits
<1> QED BY <1>1, <1>2, <1>3, <1>4, <1>5, <1>6 DEF PlaneStep

-----------------------------------------------------------------------------
\* A step that leaves the chains alone and lets only holders work keeps LockInv.
LEMMA LockFrame ==
  ASSUME LockInv, UNCHANGED locks,
         \A u \in Thread : pc'[u] \in InOperation =>
            /\ target'[u] = target[u]
            /\ pc[u] \in InOperation \/ Holds(u)
  PROVE  LockInv'
  BY DEF LockInv, Holds

\* A holder that releases and is out of its operation keeps LockInv.
LEMMA LockRelease ==
  ASSUME TypeOK, LockInv, NEW t \in Thread, Holds(t), Release(t),
         UNCHANGED target, pc'[t] \notin InOperation,
         \A u \in Thread \ {t} : pc'[u] = pc[u]
  PROVE  LockInv'
<1> SUFFICES ASSUME NEW u \in Thread, pc'[u] \in InOperation
             PROVE  Holds(u)'
  BY DEF LockInv
<1>1. u # t /\ Holds(u)
  BY DEF LockInv
<1>2. target[u] # target[t]
  BY <1>1 DEF Holds
<1> QED BY <1>1, <1>2 DEF Holds, Release, TypeOK

\* Chaining an operation keeps LockInv: the head stays.
LEMMA LockEnqueue ==
  ASSUME TypeOK, LockInv, NEW t \in Thread, NEW d \in Db, Enqueue(t, d),
         \A u \in Thread : pc'[u] \in InOperation =>
            pc[u] \in InOperation /\ target'[u] = target[u]
  PROVE  LockInv'
<1> SUFFICES ASSUME NEW u \in Thread, pc'[u] \in InOperation
             PROVE  Holds(u)'
  BY DEF LockInv
<1>1. Holds(u) /\ target'[u] = target[u] /\ target[u] \in Db
  BY DEF LockInv, TypeOK
<1>2. CASE target[u] = d
  <2>1. /\ Append(locks[d], t) # <<>>
        /\ Head(Append(locks[d], t)) = Head(locks[d])
    BY <1>1, <1>2, AppendKeepsHead DEF TypeOK, Holds
  <2> QED BY <1>1, <1>2, <2>1 DEF Holds, Enqueue, TypeOK
<1>3. CASE target[u] # d
  BY <1>1, <1>3 DEF Holds, Enqueue, TypeOK
<1> QED BY <1>2, <1>3

\* Without a control plane no operation is in progress.
LEMMA LockPlaneGone ==
  ASSUME PlaneGone
  PROVE  LockInv'
  BY DEF LockInv, PlaneGone, InOperation

\* A request that arrives keeps LockInv.
LEMMA LockArrives ==
  ASSUME TypeOK, LockInv, NEW t \in Req, NEW d \in Db,
         \/ RequestCreate(t, d) \/ RequestStart(t, d) \/ RequestStop(t, d)
         \/ RequestDelete(t, d) \/ RequestRestore(t, d)
  PROVE  LockInv'
<1>1. /\ t \in Thread
      /\ pc[t] = "idle"
      /\ pc'[t] \in {"queued", "fetch"}
      /\ \A u \in Thread \ {t} : pc'[u] = pc[u] /\ target'[u] = target[u]
  BY DEF RequestCreate, RequestStart, RequestStop, RequestDelete,
         RequestRestore, Arrive, Thread, TypeOK
<1>2. \A u \in Thread : pc'[u] \in InOperation =>
         pc[u] \in InOperation /\ target'[u] = target[u]
  BY <1>1 DEF InOperation
<1>3. Enqueue(t, d) \/ UNCHANGED locks
  BY DEF RequestCreate, RequestStart, RequestStop, RequestDelete, RequestRestore
<1> QED BY <1>1, <1>2, <1>3, LockEnqueue, LockFrame

\* The steps of startDatabaseLocked keep LockInv.
LEMMA LockStart ==
  ASSUME TypeOK, LockInv, NEW t \in Thread, StartStep(t)
  PROVE  LockInv'
<1>1. pc[t] \in {"key", "wait", "answered", "reap"} => Holds(t)
  BY DEF LockInv, InOperation
<1>2. CASE StartAccepted(t) \/ ProbeAnswered(t) \/ ProbeGivesUp(t)
           \/ \E p \in Pid : SpawnChild(t, p)
  <2>1. /\ UNCHANGED <<locks, target>>
        /\ Holds(t)
        /\ \A u \in Thread \ {t} : pc'[u] = pc[u]
    BY <1>1, <1>2 DEF StartAccepted, StartChecked, ProbeAnswered, ProbeGivesUp,
                      SpawnChild, memVars, TypeOK
  <2> QED BY <2>1, LockFrame
<1>3. CASE KeyUnreadable(t) /\ t = Boot
  BY <1>3, LockPlaneGone DEF KeyUnreadable
<1>4. CASE \/ StartRefused(t) \/ StartAlreadyRunning(t) \/ SpawnRefused(t)
           \/ LaunchReady(t) \/ LaunchReaped(t) \/ (KeyUnreadable(t) /\ t # Boot)
  <2>1. /\ Holds(t) /\ Release(t) /\ UNCHANGED target
        /\ pc' = [pc EXCEPT ![t] = Done(t)]
    BY <1>1, <1>4 DEF StartRefused, StartAlreadyRunning, StartChecked, SpawnRefused,
       LaunchFailed, LaunchReady, LaunchReaped, KeyUnreadable, Done
  <2>2. /\ pc'[t] \notin InOperation
        /\ \A u \in Thread \ {t} : pc'[u] = pc[u]
    BY <2>1 DEF TypeOK, Done, InOperation
  <2> QED BY <2>1, <2>2, LockRelease
<1> QED BY <1>2, <1>3, <1>4 DEF StartStep

\* The steps of stop, delete and restore keep LockInv.
LEMMA LockRequest ==
  ASSUME TypeOK, LockInv, NEW t \in Req, RequestStep(t)
  PROVE  LockInv'
<1>1. t \in Thread
  BY DEF Thread
<1>2. /\ TerminateBegins(t) => Holds(t)
      /\ ChildIsGone(t) => Holds(t)
      /\ AllGone(t) => Holds(t)
  BY <1>1 DEF TerminateBegins, ChildIsGone, AllGone, LockInv, InOperation
<1>3. CASE TermChild(t) \/ TermAdopted(t) \/ RestoreFails(t) \/ RemoveFiles(t) \/ DropRow(t)
  <2>1. /\ UNCHANGED <<locks, target>>
        /\ pc'[t] \in InOperation => Holds(t)
        /\ \A u \in Thread \ {t} : pc'[u] = pc[u]
    BY <1>1, <1>2, <1>3 DEF TermChild, TermAdopted, RestoreFails, RemoveFiles, DropRow,
       memVars, TypeOK, InOperation
  <2> QED BY <2>1, LockFrame
<1>4. CASE RestorePlaces(t)
  <2>1. /\ Enqueue(t, target[t]) /\ target[t] \in Db /\ UNCHANGED target
        /\ \A u \in Thread : pc'[u] \in InOperation => pc[u] \in InOperation
    BY <1>1, <1>4 DEF RestorePlaces, TypeOK, InOperation
  <2> QED BY <1>1, <2>1, LockEnqueue
<1>5. CASE StopRefused(t) \/ StopFinishes(t) \/ KillFinishes(t)
  <2>1. /\ Holds(t) /\ Release(t) /\ UNCHANGED target
        /\ pc'[t] \notin InOperation
        /\ \A u \in Thread \ {t} : pc'[u] = pc[u]
    BY <1>1, <1>2, <1>5 DEF StopRefused, StopFinishes, KillFinishes, TypeOK, InOperation
  <2> QED BY <1>1, <2>1, LockRelease
<1> QED BY <1>3, <1>4, <1>5 DEF RequestStep

\* Every other step keeps LockInv.
LEMMA LockRest ==
  ASSUME TypeOK, LockInv, ProcessStep \/ BootStep \/ PlaneStep
  PROVE  LockInv'
<1>1. CASE PlaneGone
  BY <1>1, LockPlaneGone
<1>2. CASE \E d \in Db : BootRelaunches(d)
  <2>1. PICK d \in Db : BootRelaunches(d)
    BY <1>2
  <2>2. /\ Boot \in Thread /\ Enqueue(Boot, d)
        /\ \A u \in Thread : pc'[u] \in InOperation =>
              pc[u] \in InOperation /\ target'[u] = target[u]
    BY <2>1 DEF BootRelaunches, Thread, TypeOK, InOperation
  <2> QED BY <2>2, LockEnqueue
<1>3. CASE UNCHANGED <<locks, pc, target>>
  BY <1>3, LockFrame
<1>4. ProcessStep => UNCHANGED <<locks, pc, target>>
  BY DEF ProcessStep, BindsPort, Dies, ForeignStarts, ExitEvent, WatchTick, memVars, threadVars
<1>5. BootStep => UNCHANGED <<locks, pc, target>> \/ \E d \in Db : BootRelaunches(d)
  BY DEF BootStep, BootLeaves, BootAdopts, BootFindsPortBound, BootMarksStopped, SweepTerm,
         BootEnds, KillSurvivors, threadVars
<1>6. PlaneStep => UNCHANGED <<locks, pc, target>> \/ PlaneGone
  BY DEF PlaneStep, Crash, CrashAfterSpawn, Restart, Shutdown, ShutdownDrains, ShutdownExits,
         threadVars
<1> QED BY <1>1, <1>2, <1>3, <1>4, <1>5, <1>6

-----------------------------------------------------------------------------
\* A step that changes no process, child or thread keeps ChildInv.
LEMMA ChildFrame ==
  ASSUME ChildInv,
         UNCHANGED <<pstate, powner, mine, children, mode, pc, tpid, target>>
  PROVE  ChildInv'
  BY DEF ChildInv

\* withLock: nobody else is in an operation on the database of the holder.
LEMMA OnlyHolder ==
  ASSUME LockInv, NEW t \in Thread, pc[t] \in InOperation \/ Holds(t)
  PROVE  \A u \in Thread : pc[u] \in InOperation /\ target[u] = target[t] => u = t
  BY DEF LockInv, Holds

\* The steps of startDatabaseLocked keep ChildInv.
LEMMA ChildStart ==
  ASSUME TypeOK, LockInv, ThreadInv, ChildInv, NEW t \in Thread, StartStep(t)
  PROVE  ChildInv'
<1> USE ConstAssumption DEF ChildInv, TypeOK, Done, rowVars, osVars, memVars
<1>1. CASE StartRefused(t) BY <1>1 DEF StartRefused
<1>2. CASE StartAlreadyRunning(t) BY <1>2 DEF StartAlreadyRunning
<1>3. CASE StartAccepted(t) BY <1>3 DEF StartAccepted
<1>4. CASE \E p \in Pid : SpawnChild(t, p)
  <2>1. PICK p \in Pid : SpawnChild(t, p)
    BY <1>4
  <2>2. \A u \in Thread : pc[u] \in InOperation /\ target[u] = target[t] => u = t
    BY <2>1, OnlyHolder DEF SpawnChild, InOperation
  <2> QED BY <2>1, <2>2 DEF SpawnChild, Spawn, InOperation
<1>5. CASE SpawnRefused(t) BY <1>5 DEF SpawnRefused, LaunchFailed
<1>6. CASE ProbeAnswered(t) BY <1>6 DEF ProbeAnswered
<1>7. CASE LaunchReady(t) BY <1>7 DEF LaunchReady
<1>8. CASE ProbeGivesUp(t) BY <1>8 DEF ProbeGivesUp
<1>9. CASE LaunchReaped(t) BY <1>9 DEF LaunchReaped, LaunchFailed
<1>10. CASE KeyUnreadable(t)
  <2>1. CASE PlaneGone /\ pstate' = Reap(pstate)
    BY <1>10, <2>1 DEF KeyUnreadable, PlaneGone, Reap
  <2>2. CASE /\ UNCHANGED <<pstate, mine, children, mode, tpid, powner, target>>
             /\ pc' = [pc EXCEPT ![t] = "done"]
    BY <2>2
  <2> QED BY <1>10, <2>1, <2>2 DEF KeyUnreadable
<1> QED BY <1>1, <1>2, <1>3, <1>4, <1>5, <1>6, <1>7, <1>8, <1>9, <1>10 DEF StartStep

\* A request that arrives keeps ChildInv.
LEMMA ChildArrives ==
  ASSUME TypeOK, ChildInv, NEW t \in Req, NEW d \in Db,
         \/ RequestCreate(t, d) \/ RequestStart(t, d) \/ RequestStop(t, d)
         \/ RequestDelete(t, d) \/ RequestRestore(t, d)
  PROVE  ChildInv'
<1>1. /\ t \in Thread
      /\ pc'[t] \in {"queued", "fetch"}
      /\ \A u \in Thread \ {t} : pc'[u] = pc[u] /\ target'[u] = target[u]
      /\ UNCHANGED <<tpid, pstate, powner, mode, mine, children>>
  BY DEF RequestCreate, RequestStart, RequestStop, RequestDelete,
         RequestRestore, Arrive, Thread, TypeOK, osVars
<1> QED BY <1>1 DEF ChildInv

\* The steps of stop, delete and restore keep ChildInv: children.delete forgets
\* no living child.
LEMMA ChildRequest ==
  ASSUME TypeOK, LockInv, ChildInv, NEW t \in Req, RequestStep(t)
  PROVE  ChildInv'
<1>1. t \in Thread
  BY DEF Thread
<1>2. /\ TerminateBegins(t) => Holds(t)
      /\ ChildIsGone(t) => Holds(t)
      /\ AllGone(t) => Holds(t)
  BY <1>1 DEF TerminateBegins, ChildIsGone, AllGone, LockInv, InOperation
<1>3. AllGone(t) => \A u \in Thread : pc[u] \in InOperation /\ target[u] = target[t] => u = t
  BY <1>1, <1>2, OnlyHolder
<1>4. ChildIsGone(t) /\ mode # "drained" => children[target[t]] = NoPid
  BY <1>1 DEF ChildIsGone, TerminateBegins, ChildInv
<1>41. AllGone(t) /\ mode # "drained" => children[target[t]] = NoPid
  BY <1>1, <1>4 DEF AllGone, ChildInv
<1> USE <1>1 DEF ChildInv, TypeOK, rowVars, osVars, memVars
<1>5. CASE RestoreFails(t) \/ RestorePlaces(t) \/ RemoveFiles(t) \/ DropRow(t) \/ StopRefused(t)
  BY <1>5 DEF RestoreFails, RestorePlaces, RemoveFiles, DropRow, StopRefused
<1>6. CASE TermChild(t) BY <1>6 DEF TermChild
<1>7. CASE TermAdopted(t) BY <1>4, <1>7 DEF TermAdopted
<1>8. CASE StopFinishes(t) BY <1>3, <1>41, <1>8 DEF StopFinishes, InOperation
<1>9. CASE KillFinishes(t) BY <1>3, <1>41, <1>9 DEF KillFinishes, InOperation
<1> QED BY <1>5, <1>6, <1>7, <1>8, <1>9 DEF RequestStep

\* Exits and their handlers keep ChildInv.
LEMMA ChildProcess ==
  ASSUME TypeOK, LockInv, ChildInv, ProcessStep
  PROVE  ChildInv'
<1> USE ConstAssumption DEF ChildInv, TypeOK, rowVars, osVars, memVars, threadVars
<1>1. CASE \E p \in Pid : BindsPort(p) BY <1>1 DEF BindsPort
<1>2. CASE \E p \in Pid : Dies(p) BY <1>2 DEF Dies, Alive
<1>3. CASE \E p \in Pid : ForeignStarts(p) BY <1>3 DEF ForeignStarts, Spawn
<1>4. ASSUME NEW p \in Pid, ExitEvent(p)
      PROVE  ChildInv'
  BY <1>4 DEF ExitEvent
<1>5. ASSUME NEW p \in Pid, NEW d \in Db, WatchTick(p, d)
      PROVE  ChildInv'
  BY <1>5 DEF WatchTick
<1> QED BY <1>1, <1>2, <1>3, <1>4, <1>5 DEF ProcessStep

\* reconcile() and the sweep keep ChildInv: no child is swept.
LEMMA ChildBoot ==
  ASSUME TypeOK, LockInv, ThreadInv, ChildInv, WatchInv, SweepInv, BootStep
  PROVE  ChildInv'
<1> USE DEF ChildInv, TypeOK, Visits, rowVars, osVars, memVars, threadVars
<1>2. ASSUME NEW d \in Db, BootLeaves(d) PROVE ChildInv' BY <1>2 DEF BootLeaves
<1>3. ASSUME NEW d \in Db, BootAdopts(d) PROVE ChildInv' BY <1>3 DEF BootAdopts
<1>4. ASSUME NEW d \in Db, BootFindsPortBound(d) PROVE ChildInv' BY <1>4 DEF BootFindsPortBound
<1>5. ASSUME NEW d \in Db, BootRelaunches(d) PROVE ChildInv' BY <1>5 DEF BootRelaunches
<1>6. ASSUME NEW d \in Db, BootMarksStopped(d) PROVE ChildInv' BY <1>6 DEF BootMarksStopped
<1>7. CASE SweepTerm BY <1>7 DEF SweepTerm
<1>8. CASE BootEnds
  <2>1. mode = "sweep" /\ mine \subseteq registry
    BY <1>8 DEF BootEnds, KillSurvivors, WatchInv
  <2>2. \A p \in Pid : p \in mine => p \notin termed
    BY <2>1 DEF SweepInv
  <2>3. \A p \in Pid : pstate'[p] = "zombie" => pstate[p] = "zombie"
    BY <1>8 DEF BootEnds, KillSurvivors
  <2>4. /\ \A p \in Pid : p \in mine => pstate'[p] = pstate[p]
        /\ mode' = "up"
        /\ UNCHANGED <<powner, mine, children, pc, tpid, target>>
    BY <1>8, <2>2 DEF BootEnds, KillSurvivors
  <2> QED BY <2>1, <2>3, <2>4
<1> QED BY <1>2, <1>3, <1>4, <1>5, <1>6, <1>7, <1>8 DEF BootStep

\* Crash, restart and shutdown keep ChildInv.
LEMMA ChildPlane ==
  ASSUME TypeOK, LockInv, ThreadInv, ChildInv, PlaneStep
  PROVE  ChildInv'
<1> USE ConstAssumption DEF ChildInv, TypeOK, rowVars, osVars, memVars, threadVars
<1>1. CASE Crash BY <1>1 DEF Crash, PlaneGone, Reap
<1>2. ASSUME NEW t \in Thread, NEW p \in Pid, CrashAfterSpawn(t, p)
      PROVE  ChildInv'
  BY <1>2 DEF CrashAfterSpawn, PlaneGone, Reap
<1>3. CASE Restart BY <1>3 DEF Restart
<1>4. CASE Shutdown BY <1>4 DEF Shutdown
<1>5. CASE ShutdownDrains BY <1>5 DEF ShutdownDrains
<1>6. CASE ShutdownExits BY <1>6 DEF ShutdownExits, PlaneGone, Reap
<1> QED BY <1>1, <1>2, <1>3, <1>4, <1>5, <1>6 DEF PlaneStep

-----------------------------------------------------------------------------
\* Without a control plane no thread runs.
LEMMA ThreadPlaneGone ==
  ASSUME ThreadInv, PlaneGone, UNCHANGED kind
  PROVE  ThreadInv'
<1>1. \A t \in Thread : pc'[t] \in {"idle", "done"}
  BY DEF PlaneGone
<1>2. pc'[Boot] = "idle" /\ Req \subseteq Thread
  BY DEF PlaneGone, Thread
<1> QED BY <1>1, <1>2 DEF ThreadInv

\* Every step keeps ThreadInv.
LEMMA ThreadNext ==
  ASSUME TypeOK, ThreadInv, Next
  PROVE  ThreadInv'
<1>0. Boot \in Thread
  BY DEF Thread
<1> USE <1>0, ConstAssumption DEF ThreadInv, TypeOK, rowVars, osVars, memVars, threadVars
<1>1. ASSUME NEW t \in Req, NEW d \in Db,
             \/ RequestCreate(t, d) \/ RequestStart(t, d) \/ RequestStop(t, d)
             \/ RequestDelete(t, d) \/ RequestRestore(t, d)
      PROVE  ThreadInv'
  <2>1. /\ t \in Thread /\ t # Boot /\ mode \in {"up", "stopping", "drained"}
        /\ kind'[t] # "boot"
        /\ \A u \in Thread \ {t} : /\ pc'[u] = pc[u] /\ target'[u] = target[u]
                                   /\ kind'[u] = kind[u]
        /\ UNCHANGED <<mode, todo>>
    BY <1>1 DEF RequestCreate, RequestStart, RequestStop, RequestDelete, Serving,
         RequestRestore, Arrive, Thread
  <2> QED BY <2>1
<1>2. ASSUME NEW t \in Thread, StartStep(t)
      PROVE  ThreadInv'
  <2>1. CASE PlaneGone /\ UNCHANGED <<kind, target>>
    BY <2>1, ThreadPlaneGone
  <2>2. CASE ~PlaneGone
    <3>1. /\ pc[t] \notin {"idle", "done"}
          /\ pc'[t] \in {"idle", "done", "key", "wait", "answered", "reap"}
          /\ t = Boot => pc'[t] # "done"
          /\ \A u \in Thread \ {t} : pc'[u] = pc[u]
          /\ UNCHANGED <<kind, target, mode, todo>>
      BY <1>2, <2>2 DEF StartStep, StartRefused, StartAlreadyRunning, StartAccepted, StartChecked,
         SpawnChild, SpawnRefused, LaunchFailed, ProbeAnswered, LaunchReady, ProbeGivesUp,
         LaunchReaped, KeyUnreadable, Done
    <3> QED BY <3>1 DEF Thread
  <2> QED BY <1>2, <2>1, <2>2 DEF StartStep, StartRefused, StartAlreadyRunning, StartAccepted, 
         SpawnChild, SpawnRefused, LaunchFailed, ProbeAnswered, LaunchReady, ProbeGivesUp,
         LaunchReaped, KeyUnreadable
<1>3. ASSUME NEW t \in Req, RequestStep(t)
      PROVE  ThreadInv'
  <2>1. /\ t \in Thread /\ t # Boot /\ pc[t] \notin {"idle", "done"}
        /\ \A u \in Thread \ {t} : pc'[u] = pc[u]
        /\ UNCHANGED <<kind, target, mode, todo>>
    BY <1>3 DEF RequestStep, RestoreFails, RestorePlaces, StopRefused, TermChild, TermAdopted,
       StopFinishes, KillFinishes, RemoveFiles, DropRow, TerminateBegins, ChildIsGone, AllGone, Thread
  <2> QED BY <2>1
<1>4. CASE ProcessStep
  BY <1>4 DEF ProcessStep, BindsPort, Dies, ForeignStarts, ExitEvent, WatchTick
<1>5. CASE BootStep
  <2>1. ASSUME NEW d \in Db, BootRelaunches(d)
        PROVE  ThreadInv'
    BY <2>1 DEF BootRelaunches, Visits, Thread
  <2>2. CASE /\ mode = "boot" /\ mode' = "boot" /\ todo' \subseteq todo
             /\ UNCHANGED <<pc, kind, target>>
    BY <2>2
  <2>3. CASE SweepTerm \/ BootEnds
    BY <2>3 DEF SweepTerm, BootEnds, KillSurvivors
  <2> QED BY <1>5, <2>1, <2>2, <2>3 DEF BootStep, Visits, BootLeaves, BootAdopts,
            BootFindsPortBound, BootMarksStopped
<1>6. CASE PlaneStep
  <2>1. CASE PlaneGone /\ UNCHANGED kind
    BY <2>1, ThreadPlaneGone
  <2>2. CASE Restart \/ Shutdown \/ ShutdownDrains
    BY <2>2 DEF Restart, Shutdown, ShutdownDrains
  <2> QED BY <1>6, <2>1, <2>2 DEF PlaneStep, Crash, CrashAfterSpawn, ShutdownExits
<1> QED BY <1>1, <1>2, <1>3, <1>4, <1>5, <1>6 DEF Next, RequestArrives

-----------------------------------------------------------------------------
\* Every step keeps RowPidInv: start times are never given out twice.
LEMMA RowPidNext ==
  ASSUME TypeOK, ChildInv, RowPidInv, Next
  PROVE  RowPidInv'
<1> USE ConstAssumption DEF RowPidInv, TypeOK, rowVars, osVars, memVars, threadVars, ClearRuntime
<1>1. CASE UNCHANGED <<row_pid, row_start, pstart, powner, clock>>
  BY <1>1
<1>2. ASSUME NEW d \in Db, ClearRuntime(d), UNCHANGED <<pstart, powner, clock>>
      PROVE  RowPidInv'
  BY <1>2
<1>3. ASSUME NEW p \in Pid, UNCHANGED <<row_pid, row_start>>, clock' = clock + 1,
             pstart' = [pstart EXCEPT ![p] = clock + 1], 
             \E o \in Db \cup {Foreign} : powner' = [powner EXCEPT ![p] = o]
      PROVE  RowPidInv'
  BY <1>3
<1>4. ASSUME NEW t \in Thread, NEW p \in Pid, SpawnChild(t, p)
      PROVE  RowPidInv'
  BY <1>4 DEF SpawnChild, Spawn
<1>5. ASSUME NEW t \in Thread, StartStep(t)
      PROVE  RowPidInv'
  <2>1. CASE SpawnRefused(t) \/ LaunchReaped(t)
    BY <1>2, <2>1 DEF SpawnRefused, LaunchReaped, LaunchFailed
  <2> QED BY <1>1, <1>4, <1>5, <2>1 DEF StartStep, StartRefused, StartAlreadyRunning, StartAccepted,
         ProbeAnswered, LaunchReady, ProbeGivesUp, KeyUnreadable
<1>6. ASSUME NEW t \in Req, RequestStep(t)
      PROVE  RowPidInv'
  <2>1. t \in Thread
    BY DEF Thread
  <2>2. CASE StopFinishes(t) \/ DropRow(t)
    BY <1>2, <2>1, <2>2 DEF StopFinishes, DropRow
  <2> QED BY <1>1, <1>6, <2>2 DEF RequestStep, RestoreFails, RestorePlaces, StopRefused, TermChild,
       TermAdopted, KillFinishes, RemoveFiles
<1>7. ASSUME ProcessStep
      PROVE  RowPidInv'
  <2>1. ASSUME NEW p \in Pid, ForeignStarts(p)
        PROVE  RowPidInv'
    BY <1>3, <2>1 DEF ForeignStarts, Spawn
  <2>2. ASSUME NEW d \in Db, MarkCrashedIfLive(d), UNCHANGED <<pstart, powner, clock>>
        PROVE  RowPidInv'
    BY <1>1, <1>2, <2>2 DEF MarkCrashedIfLive
  <2>3. ASSUME NEW p \in Pid, ExitEvent(p)
        PROVE  RowPidInv'
    <3>1. powner[p] \in Db
      BY <2>3 DEF ExitEvent, ChildInv
    <3> QED BY <1>1, <2>2, <2>3, <3>1 DEF ExitEvent
  <2> QED BY <1>1, <1>7, <2>1, <2>2, <2>3 DEF ProcessStep, BindsPort, Dies, WatchTick
<1>8. CASE RequestArrives
  BY <1>1, <1>8 DEF RequestArrives, RequestCreate, RequestStart, RequestStop, RequestDelete,
     RequestRestore, Arrive
<1>9. CASE BootStep
  BY <1>1, <1>9 DEF BootStep, BootLeaves, BootAdopts, BootFindsPortBound, BootRelaunches,
     BootMarksStopped, SweepTerm, BootEnds, KillSurvivors
<1>10. CASE PlaneStep
  <2>1. ASSUME NEW t \in Thread, NEW p \in Pid, CrashAfterSpawn(t, p)
        PROVE  RowPidInv'
    BY <1>3, <2>1 DEF CrashAfterSpawn
  <2> QED BY <1>1, <1>10, <2>1 DEF PlaneStep, Crash, Restart, Shutdown, ShutdownDrains, ShutdownExits
<1> QED BY <1>5, <1>6, <1>7, <1>8, <1>9, <1>10 DEF Next

-----------------------------------------------------------------------------

AdoptAll == OrphanInv /\ WatchInv /\ AdoptInv

\* Without a control plane nothing is adopted.
LEMMA AdoptPlaneGone ==
  ASSUME TypeOK, PlaneGone
  PROVE  AdoptAll'
  BY DEF PlaneGone, AdoptAll, OrphanInv, WatchInv, AdoptInv, AdoptedAlive

\* A step that changes no process and no map, and takes no thread into a launch.
LEMMA AdoptFrame ==
  ASSUME AdoptAll,
         UNCHANGED <<mode, pstate, powner, mine, registry, adoptedPids, watch, children, todo>>,
         \A t \in Thread : pc'[t] \in {"key", "wait", "answered", "reap"} =>
            /\ target'[t] = target[t]
            /\ \/ pc[t] \in {"key", "wait", "answered", "reap"}
               \/ ~AdoptedAlive(target[t])
  PROVE  AdoptAll'
  BY DEF AdoptAll, OrphanInv, WatchInv, AdoptInv, AdoptedAlive, Alive

\* A request that arrives keeps the adoption invariants.
LEMMA AdoptArrives ==
  ASSUME TypeOK, AdoptAll, NEW t \in Req, NEW d \in Db,
         \/ RequestCreate(t, d) \/ RequestStart(t, d) \/ RequestStop(t, d)
         \/ RequestDelete(t, d) \/ RequestRestore(t, d)
  PROVE  AdoptAll'
<1>1. /\ t \in Thread
      /\ pc'[t] \in {"queued", "fetch"}
      /\ \A u \in Thread \ {t} : pc'[u] = pc[u] /\ target'[u] = target[u]
      /\ UNCHANGED <<mode, pstate, powner, mine, registry, adoptedPids, watch, children, todo>>
  BY DEF RequestCreate, RequestStart, RequestStop, RequestDelete,
         RequestRestore, Arrive, Thread, TypeOK, osVars
<1> QED BY <1>1, AdoptFrame

\* A pid that no watcher polls is not an adopted one, so a process that starts
\* under it changes nothing for the adopted processes.
LEMMA AdoptSpawn ==
  ASSUME TypeOK, AdoptAll, NEW p \in Pid, NEW o \in Db \cup {Foreign}, Spawn(p, o),
         UNCHANGED adoptedPids
  PROVE  /\ \A d \in Db : adoptedPids[d] # p
         /\ \A d \in Db : AdoptedAlive(d)' <=> AdoptedAlive(d)
         /\ \A d \in Db : AdoptedAlive(d) => powner'[adoptedPids[d]] = powner[adoptedPids[d]]
         /\ \A q \in Pid \ {p} : (Alive(q)' <=> Alive(q)) /\ powner'[q] = powner[q]
         /\ \A d \in Db : <<p, d>> \notin watch
<1>1. \A d \in Db : <<p, d>> \notin watch
  <2> SUFFICES ASSUME NEW d \in Db, <<p, d>> \in watch
               PROVE  FALSE
    OBVIOUS
  <2>1. <<p, d>>[1] = p
    OBVIOUS
  <2> QED BY <2>1 DEF Spawn
<1>2. ASSUME NEW d \in Db, adoptedPids[d] = p
      PROVE  FALSE
  <2>1. adoptedPids[d] # NoPid
    BY <1>2, ConstAssumption
  <2>2. <<adoptedPids[d], d>> \in watch
    BY <2>1 DEF AdoptAll, WatchInv
  <2> QED BY <1>1, <1>2, <2>2
<1>3. \A q \in Pid \ {p} : (Alive(q)' <=> Alive(q)) /\ powner'[q] = powner[q]
  BY DEF Spawn, TypeOK, Alive
<1>4. \A d \in Db : adoptedPids[d] # NoPid => adoptedPids[d] \in Pid \ {p}
  BY <1>2 DEF TypeOK
<1>5. \A d \in Db : AdoptedAlive(d)' <=> AdoptedAlive(d)
  BY <1>3, <1>4 DEF AdoptedAlive
<1> QED BY <1>1, <1>2, <1>3, <1>4, <1>5 DEF AdoptedAlive

\* The steps of startDatabaseLocked keep the adoption invariants.
LEMMA AdoptStart ==
  ASSUME TypeOK, ThreadInv, ChildInv, AdoptAll, NEW t \in Thread, StartStep(t)
  PROVE  AdoptAll'
<1>1. ASSUME NEW p \in Pid, SpawnChild(t, p)
      PROVE  AdoptAll'
  <2>1. /\ pc[t] = "key" /\ target[t] \in Db /\ ~AdoptedAlive(target[t])
        /\ mode # "down" /\ (mode = "boot" => target[t] \notin todo)
    BY <1>1 DEF SpawnChild, AdoptAll, AdoptInv, TypeOK, ThreadInv, Thread
  <2>2. /\ mine' = mine \cup {p} /\ registry' = registry \cup {p}
        /\ children' = [children EXCEPT ![target[t]] = p]
        /\ UNCHANGED <<mode, adoptedPids, watch, todo, target>>
        /\ pc' = [pc EXCEPT ![t] = "wait"]
        /\ Spawn(p, target[t])
    BY <1>1 DEF SpawnChild
  <2>3. /\ \A d \in Db : adoptedPids[d] # p
        /\ \A d \in Db : AdoptedAlive(d)' <=> AdoptedAlive(d)
        /\ \A d \in Db : AdoptedAlive(d) => powner'[adoptedPids[d]] = powner[adoptedPids[d]]
        /\ \A q \in Pid \ {p} : (Alive(q)' <=> Alive(q)) /\ powner'[q] = powner[q]
        /\ \A d \in Db : <<p, d>> \notin watch
    BY <2>1, <2>2, AdoptSpawn
  <2>4. OrphanInv'
    BY <2>2, <2>3 DEF AdoptAll, OrphanInv
  <2>5. WatchInv'
    BY <2>2, <2>3 DEF AdoptAll, WatchInv
  <2>6. ASSUME NEW d \in Db
        PROVE  /\ AdoptedAlive(d)' => powner'[adoptedPids'[d]] = d /\ children'[d] = NoPid
               /\ mode' = "down" \/ (mode' = "boot" /\ d \in todo')
                    => adoptedPids'[d] = NoPid /\ children'[d] = NoPid
    BY <2>1, <2>2, <2>3 DEF AdoptAll, AdoptInv, TypeOK
  <2>7. ASSUME NEW u \in Thread, pc'[u] \in {"key", "wait", "answered", "reap"}
        PROVE  ~AdoptedAlive(target[u])'
    <3>1. pc[u] \in {"key", "wait", "answered", "reap"} /\ target'[u] = target[u] /\ target[u] \in Db
      BY <2>1, <2>2, <2>7 DEF TypeOK
    <3>2. ~AdoptedAlive(target[u])
      BY <3>1 DEF AdoptAll, AdoptInv
    <3> QED BY <2>3, <3>1, <3>2
  <2> QED BY <2>4, <2>5, <2>6, <2>7 DEF AdoptAll, AdoptInv
<1>2. CASE PlaneGone
  BY <1>2, AdoptPlaneGone
<1>3. CASE ~PlaneGone /\ ~\E p \in Pid : SpawnChild(t, p)
  <2>1. /\ UNCHANGED <<mode, pstate, powner, mine, registry, adoptedPids, watch, children, todo, target>>
        /\ \A u \in Thread \ {t} : pc'[u] = pc[u]
        /\ pc'[t] \in {"key", "wait", "answered", "reap"} =>
            \/ pc[t] \in {"key", "wait", "answered", "reap"}
            \/ ~AdoptedAlive(target[t])
    BY <1>3 DEF StartStep, StartRefused, StartAlreadyRunning, StartAccepted, StartChecked,
         SpawnRefused, LaunchFailed, ProbeAnswered, LaunchReady, ProbeGivesUp,
         LaunchReaped, KeyUnreadable, Done, memVars, osVars, TypeOK
  <2> QED BY <2>1, AdoptFrame
<1> QED BY <1>1, <1>2, <1>3

\* The steps of stop, delete and restore keep the adoption invariants.
LEMMA AdoptRequest ==
  ASSUME TypeOK, ThreadInv, AdoptAll, NEW t \in Req, RequestStep(t)
  PROVE  AdoptAll'
<1>1. t \in Thread
  BY DEF Thread
<1>2. CASE StopFinishes(t) \/ KillFinishes(t)
  <2>1. mode \notin {"down", "boot", "sweep"}
    BY <1>1, <1>2 DEF StopFinishes, KillFinishes, AllGone, ChildIsGone, TerminateBegins, ThreadInv
  <2>2. /\ ~AdoptedAlive(target[t]) /\ target[t] \in Db
        /\ adoptedPids' = [adoptedPids EXCEPT ![target[t]] = NoPid]
        /\ children' = [children EXCEPT ![target[t]] = NoPid]
        /\ pc'[t] \in {"rm", "done"}
        /\ \A u \in Thread \ {t} : pc'[u] = pc[u]
        /\ UNCHANGED <<mode, pstate, powner, mine, watch, todo, target>>
    BY <1>1, <1>2 DEF StopFinishes, KillFinishes, AllGone, osVars, TypeOK
  <2>3. OrphanInv'
    <3> SUFFICES ASSUME NEW p \in Pid, Alive(p), powner[p] \in Db, p \notin mine, mode # "drained",
                        mode \in {"up", "stopping"}
                 PROVE  adoptedPids'[powner[p]] = p
      BY <2>1, <2>2, TypeOK DEF OrphanInv, Alive, TypeOK, Mode
    <3>1. adoptedPids[powner[p]] = p
      BY DEF AdoptAll, OrphanInv
    <3>2. powner[p] # target[t]
      BY <2>2, <3>1, ConstAssumption DEF AdoptedAlive
    <3> QED BY <2>2, <3>1, <3>2 DEF TypeOK
  <2>4. WatchInv'
    BY <2>1, <2>2 DEF AdoptAll, WatchInv, TypeOK
  <2>5. AdoptInv'
    BY <2>1, <2>2 DEF AdoptAll, AdoptInv, AdoptedAlive, Alive, TypeOK
  <2> QED BY <2>3, <2>4, <2>5 DEF AdoptAll
<1>3. CASE ~(StopFinishes(t) \/ KillFinishes(t))
  <2>1. /\ UNCHANGED <<mode, pstate, powner, mine, registry, adoptedPids, watch, children, todo, target>>
        /\ \A u \in Thread : pc'[u] \in {"key", "wait", "answered", "reap"} => pc'[u] = pc[u]
    BY <1>1, <1>3 DEF RequestStep, RestoreFails, RestorePlaces, StopRefused, TermChild,
       TermAdopted, RemoveFiles, DropRow, memVars, osVars, TypeOK
  <2> QED BY <2>1, AdoptFrame
<1> QED BY <1>2, <1>3

\* Exits and their handlers keep the adoption invariants.
LEMMA AdoptProcess ==
  ASSUME TypeOK, ChildInv, AdoptAll, ProcessStep
  PROVE  AdoptAll'
<1> USE DEF AdoptAll, rowVars, osVars, memVars, threadVars
<1>1. CASE \E p \in Pid : BindsPort(p) \/ Dies(p)
  <2>1. /\ UNCHANGED <<mode, powner, mine, registry, adoptedPids, watch, children, todo, pc, target>>
        /\ \A q \in Pid : Alive(q)' => Alive(q)
    BY <1>1 DEF BindsPort, Dies, Alive, TypeOK
  <2>2. \A d \in Db : AdoptedAlive(d)' => AdoptedAlive(d)
    BY <2>1 DEF AdoptedAlive, TypeOK
  <2> QED BY <2>1, <2>2 DEF OrphanInv, WatchInv, AdoptInv, TypeOK
<1>2. ASSUME NEW p \in Pid, ForeignStarts(p)
      PROVE  AdoptAll'
  <2>1. /\ UNCHANGED <<mode, mine, registry, adoptedPids, watch, children, todo, pc, target>>
        /\ Spawn(p, Foreign) /\ powner'[p] = Foreign
    BY <1>2 DEF ForeignStarts, Spawn, TypeOK
  <2>2. /\ \A d \in Db : AdoptedAlive(d)' <=> AdoptedAlive(d)
        /\ \A d \in Db : AdoptedAlive(d) => powner'[adoptedPids[d]] = powner[adoptedPids[d]]
        /\ \A q \in Pid \ {p} : (Alive(q)' <=> Alive(q)) /\ powner'[q] = powner[q]
    BY <2>1, AdoptSpawn
  <2> QED BY <2>1, <2>2, ConstAssumption DEF OrphanInv, WatchInv, AdoptInv, TypeOK
<1>3. ASSUME NEW p \in Pid, ExitEvent(p)
      PROVE  AdoptAll'
  <2>1. /\ pstate[p] = "zombie" /\ p \in mine
        /\ \A q \in Pid : (Alive(q)' <=> Alive(q))
        /\ mine' = mine \ {p} /\ registry' = registry \ {p}
        /\ children' = [children EXCEPT ![powner[p]] = NoPid] /\ powner[p] \in Db
        /\ UNCHANGED <<mode, powner, adoptedPids, watch, todo, pc, target>>
        /\ ~Alive(p)
    BY <1>3 DEF ExitEvent, ChildInv, Alive, TypeOK
  <2>2. \A d \in Db : AdoptedAlive(d)' <=> AdoptedAlive(d)
    BY <2>1 DEF AdoptedAlive, TypeOK
  <2> QED BY <2>1, <2>2 DEF OrphanInv, WatchInv, AdoptInv, TypeOK
<1>4. ASSUME NEW p \in Pid, NEW d \in Db, WatchTick(p, d)
      PROVE  AdoptAll'
  <2>1. /\ ~Alive(p) /\ p \notin mine
        /\ \A q \in Pid : (Alive(q)' <=> Alive(q))
        /\ registry' = registry \ {p} /\ watch' = watch \ {<<p, d>>}
        /\ UNCHANGED <<mode, powner, mine, children, todo, pc, target>>
        /\ adoptedPids' = [adoptedPids EXCEPT ![d] = IF @ = p THEN NoPid ELSE @]
    BY <1>4 DEF WatchTick, WatchInv, Alive
  <2>2. \A e \in Db : /\ adoptedPids'[e] # NoPid => adoptedPids'[e] = adoptedPids[e]
                      /\ adoptedPids'[d] # p
                      /\ adoptedPids[e] # p => adoptedPids'[e] = adoptedPids[e]
    BY <2>1, ConstAssumption DEF TypeOK
  <2>3. \A e \in Db : AdoptedAlive(e)' => AdoptedAlive(e) /\ adoptedPids'[e] = adoptedPids[e]
    BY <2>1, <2>2 DEF AdoptedAlive, TypeOK
  <2>4. OrphanInv'
    BY <2>1, <2>2 DEF OrphanInv
  <2>5. WatchInv'
    BY <2>1, <2>2 DEF WatchInv
  <2>6. AdoptInv'
    BY <2>1, <2>2, <2>3 DEF AdoptInv, TypeOK
  <2> QED BY <2>4, <2>5, <2>6
<1> QED BY <1>1, <1>2, <1>3, <1>4 DEF ProcessStep

\* reconcile() establishes the adoption invariants row by row, and the sweep
\* for the processes that are left.
LEMMA AdoptBoot ==
  ASSUME TypeOK, ThreadInv, ChildInv, RowPidInv, AdoptAll, SweepInv, BootStep
  PROVE  AdoptAll'
<1>1. ASSUME NEW d \in Db, BootAdopts(d)
      PROVE  AdoptAll'
  <2> DEFINE p == row_pid[d]
  <2>1. /\ mode = "boot" /\ d \in todo /\ pc[Boot] = "idle"
        /\ adoptedPids[d] = NoPid /\ children[d] = NoPid
        /\ p \in Pid /\ Alive(p) /\ powner[p] = d
    BY <1>1 DEF BootAdopts, Visits, Adoptable, StartTime, AdoptAll, AdoptInv, RowPidInv, TypeOK
  <2>2. /\ registry' = registry \cup {p}
        /\ adoptedPids' = [adoptedPids EXCEPT ![d] = p]
        /\ watch' = watch \cup {<<p, d>>}
        /\ todo' = todo \ {d}
        /\ UNCHANGED <<mode, pstate, powner, mine, children, pc, target>>
    BY <1>1 DEF BootAdopts, Visits, osVars, threadVars
  <2>3. p \notin mine
    BY <2>1, ConstAssumption DEF ChildInv
  <2>4. OrphanInv'
    BY <2>1, <2>2, ConstAssumption DEF AdoptAll, OrphanInv, Alive, TypeOK
  <2>5. WatchInv'
    BY <2>1, <2>2, <2>3 DEF AdoptAll, WatchInv, TypeOK
  <2>6. \A t \in Thread : pc[t] \notin {"key", "wait", "answered", "reap"}
    BY <2>1 DEF ThreadInv, Thread
  <2>7. AdoptInv'
    BY <2>1, <2>2, <2>6 DEF AdoptAll, AdoptInv, AdoptedAlive, Alive, TypeOK
  <2> QED BY <2>4, <2>5, <2>7 DEF AdoptAll
<1>2. CASE \E d \in Db : BootLeaves(d) \/ BootFindsPortBound(d) \/ BootRelaunches(d) \/ BootMarksStopped(d)
  <2>1. /\ todo' \subseteq todo
        /\ UNCHANGED <<mode, pstate, powner, mine, registry, adoptedPids, watch, children>>
        /\ \A t \in Thread : pc'[t] \in {"key", "wait", "answered", "reap"} =>
              pc'[t] = pc[t] /\ target'[t] = target[t]
    BY <1>2 DEF BootLeaves, BootFindsPortBound, BootRelaunches, BootMarksStopped, Visits, osVars,
       threadVars, TypeOK, Thread
  <2> QED BY <2>1 DEF AdoptAll, OrphanInv, WatchInv, AdoptInv, AdoptedAlive, Alive
<1>3. CASE SweepTerm
  BY <1>3 DEF SweepTerm, threadVars, AdoptAll, OrphanInv, WatchInv, AdoptInv, AdoptedAlive, Alive
<1>4. CASE BootEnds
  <2>1. /\ mode = "sweep" /\ mode' = "up"
        /\ \A p \in Pid : Alive(p)' => Alive(p) /\ p \notin termed
        /\ UNCHANGED <<powner, mine, registry, adoptedPids, watch, children, todo, pc, target>>
    BY <1>4 DEF BootEnds, KillSurvivors, threadVars, Alive, TypeOK
  <2>2. OrphanInv'
    BY <2>1 DEF AdoptAll, OrphanInv, SweepInv
  <2>3. WatchInv'
    BY <2>1 DEF AdoptAll, WatchInv
  <2>4. \A d \in Db : AdoptedAlive(d)' => AdoptedAlive(d)
    BY <2>1 DEF AdoptedAlive, TypeOK
  <2>5. AdoptInv'
    BY <2>1, <2>4 DEF AdoptAll, AdoptInv, TypeOK
  <2> QED BY <2>2, <2>3, <2>5 DEF AdoptAll
<1> QED BY <1>1, <1>2, <1>3, <1>4 DEF BootStep

\* Crash, restart and shutdown keep the adoption invariants.
LEMMA AdoptPlane ==
  ASSUME TypeOK, ChildInv, AdoptAll, PlaneStep
  PROVE  AdoptAll'
<1>1. CASE PlaneGone
  BY <1>1, AdoptPlaneGone
<1>2. CASE Restart
  <2>1. ASSUME NEW p \in mine
        PROVE  FALSE
    <3>1. p \in Pid /\ powner[p] \in Db /\ children[powner[p]] = p
      BY <1>2, <2>1 DEF Restart, ChildInv, TypeOK
    <3>2. children[powner[p]] = NoPid
      BY <1>2, <3>1 DEF Restart, AdoptAll, AdoptInv
    <3> QED BY <3>1, <3>2, ConstAssumption
  <2>2. /\ mode = "down" /\ mode' = "boot"
        /\ UNCHANGED <<pstate, powner, mine, registry, adoptedPids, watch, children, pc, target>>
    BY <1>2 DEF Restart, osVars, threadVars
  <2> QED BY <2>1, <2>2 DEF AdoptAll, OrphanInv, WatchInv, AdoptInv, AdoptedAlive, Alive
<1>3. CASE Shutdown
  BY <1>3 DEF Shutdown, AdoptAll, OrphanInv, WatchInv, AdoptInv, AdoptedAlive, Alive, threadVars
<1>4. CASE ShutdownDrains
  <2>1. /\ mode' = "drained" /\ \A d \in Db : adoptedPids'[d] = NoPid
        /\ UNCHANGED <<mine, watch, target>>
    BY <1>4 DEF ShutdownDrains, threadVars
  <2>2. \A d \in Db : ~AdoptedAlive(d)'
    BY <2>1 DEF AdoptedAlive
  <2> QED BY <2>1, <2>2 DEF AdoptAll, OrphanInv, WatchInv, AdoptInv, TypeOK
<1> QED BY <1>1, <1>2, <1>3, <1>4 DEF PlaneStep, Crash, CrashAfterSpawn, ShutdownExits

-----------------------------------------------------------------------------
\* A step that signals and starts nothing keeps SignalInv.
LEMMA SignalFrame ==
  ASSUME SignalInv, UNCHANGED <<powner, pterm>>, \A p \in Pid : Alive(p)' => Alive(p)
  PROVE  SignalInv'
  BY DEF SignalInv

\* Every step keeps SignalInv: whoever is sent TERM is a child or adopted.
LEMMA SignalNext ==
  ASSUME TypeOK, ThreadInv, ChildInv, AdoptAll, SignalInv, Next
  PROVE  SignalInv'
<1>1. ASSUME UNCHANGED pstate, UNCHANGED <<powner, pterm>>
      PROVE  SignalInv'
  BY <1>1, SignalFrame DEF Alive
<1>2. ASSUME NEW p \in Pid, UNCHANGED <<pstate, powner>>,
             powner[p] # Foreign, pterm' = [pterm EXCEPT ![p] = TRUE]
      PROVE  SignalInv'
  BY <1>2 DEF SignalInv, Alive, TypeOK
<1>3. ASSUME NEW p \in Pid,
             pterm' = [pterm EXCEPT ![p] = FALSE],
             \A q \in Pid \ {p} : (Alive(q)' => Alive(q)) /\ powner'[q] = powner[q]
      PROVE  SignalInv'
  BY <1>3 DEF SignalInv, TypeOK
<1>4. \A p \in Pid : p \in mine => powner[p] # Foreign
  BY ConstAssumption DEF ChildInv
<1>5. \A d \in Db : /\ children[d] # NoPid => children[d] \in Pid /\ powner[children[d]] # Foreign
                    /\ AdoptedAlive(d) => adoptedPids[d] \in Pid /\ powner[adoptedPids[d]] # Foreign
  BY ConstAssumption DEF ChildInv, AdoptAll, AdoptInv, AdoptedAlive, TypeOK
<1>6. ASSUME NEW t \in Thread, StartStep(t)
      PROVE  SignalInv'
  <2>1. ASSUME NEW p \in Pid, SpawnChild(t, p)
        PROVE  SignalInv'
    BY <1>3, <2>1 DEF SpawnChild, Spawn, Alive, TypeOK
  <2>2. CASE ProbeGivesUp(t)
    BY <1>1, <1>2, <1>4, <2>2 DEF ProbeGivesUp, ChildInv, TypeOK
  <2>3. CASE KeyUnreadable(t)
    BY <2>3, SignalFrame DEF KeyUnreadable, Reap, Alive, TypeOK
  <2> QED BY <1>1, <1>6, <2>1, <2>2, <2>3 DEF StartStep, StartRefused, StartAlreadyRunning, StartAccepted,
         SpawnRefused, LaunchFailed, ProbeAnswered, LaunchReady, LaunchReaped, osVars
<1>7. ASSUME NEW t \in Req, RequestStep(t)
      PROVE  SignalInv'
  <2>1. t \in Thread /\ target[t] \in Db
    BY DEF Thread, TypeOK
  <2>2. CASE TermChild(t)
    BY <1>2, <1>5, <2>1, <2>2 DEF TermChild, Terminate
  <2>3. CASE TermAdopted(t)
    BY <1>2, <1>5, <2>1, <2>3 DEF TermAdopted, Terminate
  <2> QED BY <1>1, <1>7, <2>2, <2>3 DEF RequestStep, RestoreFails, RestorePlaces, StopRefused,
       StopFinishes, KillFinishes, RemoveFiles, DropRow, osVars
<1>8. CASE ProcessStep
  <2>1. ASSUME NEW p \in Pid, ForeignStarts(p)
        PROVE  SignalInv'
    BY <1>3, <2>1 DEF ForeignStarts, Spawn, Alive, TypeOK
  <2>2. CASE \E p \in Pid : BindsPort(p) \/ Dies(p) \/ ExitEvent(p)
    BY <2>2, SignalFrame DEF BindsPort, Dies, ExitEvent, Alive, TypeOK
  <2> QED BY <1>1, <1>8, <2>1, <2>2 DEF ProcessStep, WatchTick, osVars
<1>9. CASE RequestArrives
  BY <1>1, <1>9 DEF RequestArrives, RequestCreate, RequestStart, RequestStop, RequestDelete,
     RequestRestore, Arrive, osVars
<1>10. CASE BootStep
  <2>1. CASE SweepTerm
    BY <2>1, ConstAssumption DEF SweepTerm, Orphans, SignalInv, Alive, TypeOK
  <2>2. CASE BootEnds
    BY <2>2, SignalFrame DEF BootEnds, KillSurvivors, Alive, TypeOK
  <2> QED BY <1>1, <1>10, <2>1, <2>2 DEF BootStep, BootLeaves, BootAdopts, BootFindsPortBound, BootRelaunches,
     BootMarksStopped, osVars
<1>11. CASE PlaneStep
  <2>1. ASSUME NEW t \in Thread, NEW p \in Pid, CrashAfterSpawn(t, p)
        PROVE  SignalInv'
    BY <1>3, <2>1 DEF CrashAfterSpawn, Reap, Alive, TypeOK
  <2>2. CASE Crash \/ ShutdownExits
    BY <2>2, SignalFrame DEF Crash, ShutdownExits, Reap, Alive, TypeOK
  <2>3. CASE Shutdown
    BY <1>5, <2>3, ConstAssumption DEF Shutdown, SignalInv, Alive, AdoptedAlive, TypeOK
  <2> QED BY <1>1, <1>11, <2>1, <2>2, <2>3 DEF PlaneStep, Restart, ShutdownDrains, osVars
<1> QED BY <1>6, <1>7, <1>8, <1>9, <1>10, <1>11 DEF Next

-----------------------------------------------------------------------------
\* Outside boot and sweep the list is empty, and that is all there is to keep.
LEMMA SweepElsewhere ==
  ASSUME mode' \notin {"boot", "sweep"}, termed' = {}
  PROVE  SweepInv'
  BY DEF SweepInv

\* While a boot runs, a step that revives no adopted process and registers what
\* it starts keeps SweepInv.
LEMMA SweepFrame ==
  ASSUME TypeOK, SweepInv, UNCHANGED <<mode, termed, powner, pterm>>,
         \A p \in Pid : Alive(p)' => Alive(p),
         \A p \in Pid : Alive(p) => (p \in registry' <=> p \in registry),
         \A p \in Pid : p \in termed => p \notin registry',
         \A d \in Db : adoptedPids'[d] \in {adoptedPids[d], NoPid}
  PROVE  SweepInv'
<1>1. \A d \in Db : AdoptedAlive(d)' =>
        adoptedPids[d] \in Pid /\ AdoptedAlive(d) /\ adoptedPids'[d] = adoptedPids[d]
  BY DEF AdoptedAlive, TypeOK
<1> QED BY <1>1 DEF SweepInv, AdoptedAlive, TypeOK

\* Every step keeps SweepInv.
LEMMA SweepNext ==
  ASSUME TypeOK, ThreadInv, ChildInv, AdoptAll, SweepInv, Next
  PROVE  SweepInv'
<1>1. mode \notin {"boot", "sweep"} => termed = {}
  BY DEF SweepInv
<1>2. CASE RequestArrives
  BY <1>1, <1>2, SweepElsewhere DEF RequestArrives, RequestCreate, RequestStart, RequestStop,
     RequestDelete, RequestRestore, Arrive, Serving, memVars
<1>3. ASSUME NEW t \in Thread, StartStep(t)
      PROVE  SweepInv'
  <2>1. CASE mode' \notin {"boot", "sweep"}
    BY <1>1, <1>3, <2>1, SweepElsewhere DEF StartStep, StartRefused, StartAlreadyRunning, StartAccepted,
       SpawnChild, SpawnRefused, LaunchFailed, ProbeAnswered, LaunchReady, ProbeGivesUp, LaunchReaped,
       KeyUnreadable, PlaneGone, memVars
  <2>2. CASE mode' \in {"boot", "sweep"}
    <3>1. UNCHANGED <<mode, termed, adoptedPids>> /\ registry \subseteq registry'
      BY <1>3, <2>2 DEF StartStep, StartRefused, StartAlreadyRunning, StartAccepted,
       SpawnChild, SpawnRefused, LaunchFailed, ProbeAnswered, LaunchReady, ProbeGivesUp, LaunchReaped,
       KeyUnreadable, PlaneGone, memVars
    <3>2. mode = "boot" /\ termed = {}
      BY <1>3, <2>2, <3>1 DEF StartStep, StartRefused, StartAlreadyRunning, StartAccepted, StartChecked,
       SpawnChild, SpawnRefused, ProbeAnswered, LaunchReady, ProbeGivesUp, LaunchReaped,
       KeyUnreadable, ThreadInv, SweepInv, Thread
    <3>3. \A p \in Pid : (\A w \in watch : w[1] # p) => \A d \in Db : adoptedPids[d] # p
      BY ConstAssumption DEF AdoptAll, WatchInv
    <3>4. ASSUME NEW p \in Pid, SpawnChild(t, p)
          PROVE  \A d \in Db : AdoptedAlive(d)' => AdoptedAlive(d)
      <4>1. /\ \A d \in Db : adoptedPids[d] # p
            /\ \A q \in Pid \ {p} : Alive(q)' <=> Alive(q)
        BY <3>3, <3>4 DEF SpawnChild, Spawn, Alive, TypeOK
      <4> QED BY <3>1, <4>1 DEF AdoptedAlive, TypeOK
    <3>5. ASSUME ~ \E p \in Pid : SpawnChild(t, p)
          PROVE  \A d \in Db : AdoptedAlive(d)' => AdoptedAlive(d)
      <4>1. UNCHANGED pstate
        BY <1>3, <3>1, <3>2, <3>5 DEF StartStep, StartRefused, StartAlreadyRunning, StartAccepted,
         SpawnRefused, LaunchFailed, ProbeAnswered, LaunchReady, ProbeGivesUp, LaunchReaped,
         KeyUnreadable, PlaneGone, osVars
      <4> QED BY <3>1, <4>1 DEF AdoptedAlive, Alive
    <3>6. \A d \in Db : AdoptedAlive(d)' => AdoptedAlive(d)
      BY <3>4, <3>5
    <3> QED BY <3>1, <3>2, <3>6 DEF SweepInv
  <2> QED BY <2>1, <2>2
<1>4. ASSUME NEW t \in Req, RequestStep(t)
      PROVE  SweepInv'
  <2>1. mode \notin {"boot", "sweep"}
    BY <1>4 DEF RequestStep, RestoreFails, RestorePlaces, StopRefused, TermChild, TermAdopted,
       StopFinishes, KillFinishes, AllGone, ChildIsGone, TerminateBegins, RemoveFiles, DropRow, ThreadInv
  <2>2. UNCHANGED <<mode, termed>>
    BY <1>4 DEF RequestStep, RestoreFails, RestorePlaces, StopRefused, TermChild, TermAdopted,
       StopFinishes, KillFinishes, RemoveFiles, DropRow, memVars
  <2> QED BY <1>1, <2>1, <2>2, SweepElsewhere
<1>5. CASE ProcessStep
  <2>1. ASSUME NEW p \in Pid, ForeignStarts(p)
        PROVE  SweepInv'
    <3>1. \A d \in Db : adoptedPids[d] # p
      BY <2>1, ConstAssumption DEF ForeignStarts, Spawn, AdoptAll, WatchInv
    <3>2. /\ UNCHANGED <<mode, registry, adoptedPids, termed>>
          /\ \A q \in Pid \ {p} : /\ (Alive(q)' <=> Alive(q))
                                  /\ powner'[q] = powner[q] /\ pterm'[q] = pterm[q]
          /\ powner'[p] \notin Db
      BY <2>1, ConstAssumption DEF ForeignStarts, Spawn, memVars, Alive, TypeOK
    <3>3. \A d \in Db : AdoptedAlive(d)' => AdoptedAlive(d)
      BY <3>1, <3>2 DEF AdoptedAlive, TypeOK
    <3> QED BY <3>2, <3>3 DEF SweepInv
  <2>2. CASE \E p \in Pid : BindsPort(p) \/ Dies(p)
    BY <2>2, SweepFrame DEF BindsPort, Dies, memVars, Alive, TypeOK, SweepInv
  <2>3. ASSUME NEW p \in Pid, ExitEvent(p)
        PROVE  SweepInv'
    BY <2>3, SweepFrame DEF ExitEvent, Alive, TypeOK, SweepInv
  <2>4. ASSUME NEW p \in Pid, NEW d \in Db, WatchTick(p, d)
        PROVE  SweepInv'
    BY <2>4, SweepFrame DEF WatchTick, osVars, Alive, TypeOK, SweepInv
  <2> QED BY <1>5, <2>1, <2>2, <2>3, <2>4 DEF ProcessStep
<1>6. CASE BootStep
  <2>1. ASSUME NEW d \in Db, BootAdopts(d)
        PROVE  SweepInv'
    BY <1>1, <2>1 DEF BootAdopts, Visits, osVars, SweepInv, AdoptedAlive, Alive, TypeOK
  <2>2. CASE \E d \in Db : BootLeaves(d) \/ BootFindsPortBound(d) \/ BootRelaunches(d) \/ BootMarksStopped(d)
    BY <2>2 DEF BootLeaves, BootFindsPortBound, BootRelaunches, BootMarksStopped, Visits, osVars,
       SweepInv, AdoptedAlive, Alive
  <2>3. CASE SweepTerm
    BY <2>3, ConstAssumption DEF SweepTerm, Orphans, SweepInv, AdoptedAlive, Alive, TypeOK
  <2>4. CASE BootEnds
    BY <2>4, SweepElsewhere DEF BootEnds
  <2> QED BY <1>6, <2>1, <2>2, <2>3, <2>4 DEF BootStep
<1>7. CASE PlaneStep
  <2>1. CASE Restart
    <3>1. termed' = {} /\ mode' = "boot" /\ UNCHANGED <<adoptedPids, registry>>
      BY <1>1, <2>1 DEF Restart
    <3>2. \A d \in Db : adoptedPids[d] = NoPid
      BY <2>1 DEF Restart, AdoptAll, AdoptInv
    <3> QED BY <3>1, <3>2 DEF SweepInv, AdoptedAlive
  <2>2. CASE ~Restart
    BY <1>1, <1>7, <2>2, SweepElsewhere DEF PlaneStep, Crash, CrashAfterSpawn, PlaneGone, Shutdown,
       ShutdownDrains, ShutdownExits
  <2> QED BY <2>1, <2>2
<1> QED BY <1>2, <1>3, <1>4, <1>5, <1>6, <1>7 DEF Next

-----------------------------------------------------------------------------
Active(t) == pc[t] \notin {"idle", "done"}

\* While reconcile() runs no request does.
LEMMA BootAlone ==
  ASSUME ThreadInv, mode \in {"down", "boot", "sweep"}
  PROVE  \A t \in Thread : Active(t) => t = Boot
  BY DEF ThreadInv, Active, Thread

\* A step of t that starts nothing, on a database that keeps its row.
LEMMA RestoreFrame ==
  ASSUME TypeOK, ThreadInv, RestoreInv, NEW t \in Thread, UNCHANGED <<kind, target>>,
         \A u \in Thread \ {t} : pc'[u] = pc[u],
         \A d \in Db \ {target[t]} : status'[d] = status[d],
         Active(t),
         status'[target[t]] # "absent",
         pc'[t] \notin {"fetch", "queued"}
  PROVE  RestoreInv'
<1>1. \A u \in Thread : Active(u) /\ target[u] = target[t] /\ kind[u] = "restore" => u = t
  BY DEF RestoreInv, Active
<1>2. Active(Boot) => t = Boot
  <2>1. Boot \in Thread
    BY DEF Thread
  <2>2. Active(Boot) => mode = "boot"
    BY <2>1 DEF ThreadInv, Active
  <2> QED BY <2>2, BootAlone
<1>3. \A u \in Thread : target[u] \in Db
  BY DEF TypeOK
<1>4. ASSUME NEW u \in Thread, NEW v \in Thread,
             kind'[u] = "restore", pc'[u] \notin {"idle", "done"},
             target'[v] = target'[u], pc'[v] \notin {"idle", "done"}
      PROVE  u = v
  BY <1>4 DEF RestoreInv, Active
<1>5. ASSUME NEW u \in Thread
      PROVE  /\ pc'[u] \notin {"idle", "done"} => status'[target'[u]] # "absent"
             /\ pc'[u] = "fetch" => kind'[u] = "restore" /\ status'[target'[u]] = "restoring"
             /\ pc'[u] = "queued" /\ kind'[u] = "restore" => status'[target'[u]] \in {"starting", "crashed"}
  <2>1. CASE u = t
    BY <2>1
  <2>2. CASE u # t
    BY <1>1, <1>3, <2>2 DEF RestoreInv, Active
  <2> QED BY <2>1, <2>2
<1>6. pc'[Boot] = "queued" => ShouldTrack(target[Boot])'
  <2>1. CASE t = Boot
    BY <2>1
  <2>2. CASE t # Boot
    BY <1>2, <2>2 DEF Active, Thread
  <2> QED BY <2>1, <2>2
<1> QED BY <1>4, <1>5, <1>6 DEF RestoreInv

\* Without active threads RestoreInv holds.
LEMMA RestoreIdle ==
  ASSUME \A t \in Thread : pc'[t] \in {"idle", "done"}
  PROVE  RestoreInv'
  BY DEF RestoreInv, Thread

\* A request that arrives keeps RestoreInv (assertNotRestoreTarget).
LEMMA RestoreArrives ==
  ASSUME TypeOK, ThreadInv, RestoreInv, NEW t \in Req, NEW d \in Db,
         \/ RequestCreate(t, d) \/ RequestStart(t, d) \/ RequestStop(t, d)
         \/ RequestDelete(t, d) \/ RequestRestore(t, d)
  PROVE  RestoreInv'
<1>1. /\ t \in Thread /\ t # Boot /\ Boot \in Thread
      /\ pc[Boot] = "idle"
      /\ target'[t] = d
      /\ \A u \in Thread \ {t} : /\ pc'[u] = pc[u] /\ target'[u] = target[u]
                                 /\ kind'[u] = kind[u] /\ target[u] \in Db
      /\ \A e \in Db \ {d} : status'[e] = status[e]
      /\ status'[d] # "absent"
  BY ConstAssumption DEF RequestCreate, RequestStart, RequestStop, RequestDelete,
     RequestRestore, Arrive, Thread, TypeOK, Serving, ThreadInv, Exists, rowVars
<1>2. \A u \in Thread \ {t} : Active(u) /\ target[u] = d => kind[u] # "restore" /\ pc[u] # "fetch"
  <2>1. CASE status[d] = "absent"
    BY <2>1 DEF RestoreInv, Active
  <2>2. CASE ~IsRestoring(d)
    <3>1. \A u \in Thread : kind[u] = "restore" => u \in Req
      BY DEF ThreadInv, Thread
    <3> QED BY <2>2, <3>1 DEF IsRestoring, Active, RestoreInv
  <2> QED BY <2>1, <2>2 DEF RequestCreate, RequestStart, RequestStop, RequestDelete,
            RequestRestore, NotRestoreTarget
<1>3. kind'[t] = "restore" => \A u \in Thread \ {t} : Active(u) => target[u] # d
  BY <1>1 DEF RequestCreate, RequestStart, RequestStop, RequestDelete, RequestRestore, Arrive,
     RestoreInv, Active, TypeOK
<1>4. /\ pc'[t] = "fetch" => kind'[t] = "restore" /\ status'[d] = "restoring"
      /\ pc'[t] = "queued" => kind'[t] # "restore"
  BY <1>1 DEF RequestCreate, RequestStart, RequestStop, RequestDelete, RequestRestore, Arrive, TypeOK
<1>5. ASSUME NEW u \in Thread, NEW v \in Thread,
             kind'[u] = "restore", pc'[u] \notin {"idle", "done"},
             target'[v] = target'[u], pc'[v] \notin {"idle", "done"}
      PROVE  u = v
  BY <1>1, <1>2, <1>3, <1>5 DEF RestoreInv, Active
<1>6. ASSUME NEW u \in Thread
      PROVE  /\ pc'[u] \notin {"idle", "done"} => status'[target'[u]] # "absent"
             /\ pc'[u] = "fetch" => kind'[u] = "restore" /\ status'[target'[u]] = "restoring"
             /\ pc'[u] = "queued" /\ kind'[u] = "restore" => status'[target'[u]] \in {"starting", "crashed"}
  BY <1>1, <1>2, <1>4 DEF RestoreInv, Active
<1> QED BY <1>1, <1>5, <1>6 DEF RestoreInv

\* The steps of startDatabaseLocked keep RestoreInv.
LEMMA RestoreStart ==
  ASSUME TypeOK, ThreadInv, RestoreInv, NEW t \in Thread, StartStep(t)
  PROVE  RestoreInv'
<1>1. Active(t)
  BY DEF StartStep, StartRefused, StartAlreadyRunning, StartAccepted, StartChecked, SpawnChild,
     SpawnRefused, LaunchFailed, ProbeAnswered, LaunchReady, ProbeGivesUp, LaunchReaped, KeyUnreadable, Active
<1>2. target[t] \in Db /\ status[target[t]] # "absent"
  BY <1>1 DEF RestoreInv, Active, TypeOK
<1>3. CASE PlaneGone
  BY <1>3, RestoreIdle DEF PlaneGone
<1>4. CASE ~PlaneGone
  <2>1. /\ UNCHANGED <<kind, target>>
        /\ \A u \in Thread \ {t} : pc'[u] = pc[u]
        /\ pc'[t] \notin {"fetch", "queued"}
    BY <1>4 DEF StartStep, StartRefused, StartAlreadyRunning, StartAccepted, SpawnChild,
       SpawnRefused, LaunchFailed, ProbeAnswered, LaunchReady, ProbeGivesUp, LaunchReaped, KeyUnreadable, TypeOK, Done
  <2>2. \/ UNCHANGED status
        \/ \E s \in {"starting", "failed", "running"} : SetStatus(target[t], s)
    BY <1>4 DEF StartStep, StartRefused, StartAlreadyRunning, StartAccepted, SpawnChild, CallerRecordsFailure,
       SpawnRefused, LaunchFailed, ProbeAnswered, LaunchReady, ProbeGivesUp, LaunchReaped, KeyUnreadable, rowVars
  <2>3. /\ \A d \in Db \ {target[t]} : status'[d] = status[d]
        /\ status'[target[t]] # "absent"
    BY <1>2, <2>2 DEF SetStatus, TypeOK
  <2> QED BY <1>1, <2>1, <2>3, RestoreFrame
<1> QED BY <1>3, <1>4

\* The steps of stop, delete and restore keep RestoreInv.
LEMMA RestoreRequest ==
  ASSUME TypeOK, ThreadInv, RestoreInv, NEW t \in Req, RequestStep(t)
  PROVE  RestoreInv'
<1>1. t \in Thread /\ Active(t)
  BY DEF RequestStep, RestoreFails, RestorePlaces, StopRefused, TermChild, TermAdopted,
       StopFinishes, KillFinishes, RemoveFiles, DropRow, TerminateBegins, ChildIsGone, AllGone,
       Active, Thread
<1>2. target[t] \in Db /\ status[target[t]] # "absent"
  BY <1>1 DEF RestoreInv, Active, TypeOK
<1>3. CASE RestorePlaces(t)
  <2>1. /\ kind[t] = "restore" /\ status[target[t]] = "restoring" /\ t # Boot
    BY <1>1, <1>3, ConstAssumption DEF RestorePlaces, RestoreInv
  <2>2. /\ status' = [status EXCEPT ![target[t]] = "starting"]
        /\ pc' = [pc EXCEPT ![t] = "queued"]
        /\ UNCHANGED <<kind, target>>
    BY <1>3, <2>1 DEF RestorePlaces, SetStatus, Exists
  <2>3. \A u \in Thread \ {t} : Active(u) => target[u] # target[t]
    BY <1>1, <2>1 DEF RestoreInv, Active
  <2>4. pc[Boot] # "queued"
    BY <1>1, <2>1, BootAlone DEF ThreadInv, Active
  <2> QED BY <1>1, <1>2, <2>1, <2>2, <2>3, <2>4 DEF RestoreInv, Active, TypeOK
<1>4. CASE ~RestorePlaces(t)
  <2>1. /\ UNCHANGED <<kind, target>>
        /\ \A u \in Thread \ {t} : pc'[u] = pc[u]
        /\ pc'[t] \notin {"fetch", "queued"}
    BY <1>1, <1>4 DEF RequestStep, RestoreFails, StopRefused, TermChild, TermAdopted,
       StopFinishes, KillFinishes, RemoveFiles, DropRow, TypeOK
  <2>2. \/ UNCHANGED status
        \/ \E s \in {"failed", "stopped"} : SetStatus(target[t], s)
        \/ status' = [status EXCEPT ![target[t]] = "gone"]
    BY <1>4 DEF RequestStep, RestoreFails, StopRefused, TermChild, TermAdopted,
       StopFinishes, KillFinishes, RemoveFiles, DropRow, rowVars
  <2>3. /\ \A d \in Db \ {target[t]} : status'[d] = status[d]
        /\ status'[target[t]] # "absent"
    BY <1>2, <2>2 DEF SetStatus, TypeOK
  <2> QED BY <1>1, <2>1, <2>3, RestoreFrame
<1> QED BY <1>3, <1>4

\* Every other step keeps RestoreInv.
LEMMA RestoreRest ==
  ASSUME TypeOK, ThreadInv, ChildInv, RestoreInv, ProcessStep \/ BootStep \/ PlaneStep
  PROVE  RestoreInv'
<1> USE DEF rowVars, osVars, memVars, threadVars
<1>1. ASSUME UNCHANGED <<status, pc, kind, target>>
      PROVE  RestoreInv'
  BY <1>1 DEF RestoreInv, ShouldTrack
<1>2. ASSUME NEW d \in Db, MarkCrashedIfLive(d), UNCHANGED <<pc, kind, target>>
      PROVE  RestoreInv'
  <2>1. CASE UNCHANGED status
    BY <1>1, <1>2, <2>1
  <2>2. CASE status[d] \in {"running", "starting"} /\ status' = [status EXCEPT ![d] = "crashed"]
    BY <1>2, <2>2 DEF RestoreInv, ShouldTrack, TypeOK, Thread
  <2> QED BY <1>2, <2>1, <2>2 DEF MarkCrashedIfLive, SetStatus, Exists
<1>3. CASE ProcessStep
  <2>1. ASSUME NEW p \in Pid, ExitEvent(p)
        PROVE  RestoreInv'
    <3>1. powner[p] \in Db
      BY <2>1 DEF ExitEvent, ChildInv
    <3> QED BY <1>1, <1>2, <2>1, <3>1 DEF ExitEvent
  <2> QED BY <1>1, <1>2, <1>3, <2>1 DEF ProcessStep, BindsPort, Dies, ForeignStarts, WatchTick
<1>4. CASE BootStep
  <2>1. ASSUME NEW d \in Db, BootRelaunches(d)
        PROVE  RestoreInv'
    <3>1. /\ Boot \in Thread /\ kind[Boot] = "boot" /\ ShouldTrack(d)
          /\ \A t \in Thread : ~Active(t)
      BY <2>1, BootAlone DEF BootRelaunches, Visits, ThreadInv, Thread, Active
    <3>2. /\ \A t \in Thread \ {Boot} : pc'[t] = pc[t] /\ target'[t] = target[t]
          /\ pc'[Boot] = "queued" /\ target'[Boot] = d
          /\ UNCHANGED <<status, kind>>
      BY <2>1, <3>1 DEF BootRelaunches, TypeOK
    <3> QED BY <3>1, <3>2 DEF RestoreInv, ShouldTrack, Active
  <2>2. CASE UNCHANGED pc /\ mode \in {"boot", "sweep"} /\ pc[Boot] = "idle"
    BY <2>2, RestoreIdle, BootAlone DEF Active
  <2> QED BY <1>4, <2>1, <2>2 DEF BootStep, BootLeaves, BootAdopts, BootFindsPortBound, Visits,
     BootMarksStopped, SweepTerm, BootEnds, KillSurvivors, ThreadInv
<1>5. CASE PlaneStep
  <2>1. CASE PlaneGone
    BY <2>1, RestoreIdle DEF PlaneGone
  <2> QED BY <1>1, <1>5, <2>1 DEF PlaneStep, Crash, CrashAfterSpawn, Restart, Shutdown, ShutdownDrains, ShutdownExits
<1> QED BY <1>3, <1>4, <1>5

-----------------------------------------------------------------------------
Unserved(d) == children[d] = NoPid /\ ~AdoptedAlive(d)

\* A step that gives no database a process, and settles only unserved ones.
LEMMA SettledFrame ==
  ASSUME SettledInv,
         mode' \in {"boot", "sweep", "up"} => mode \in {"boot", "sweep", "up"},
         \A d \in Db : Unserved(d) => Unserved(d)',
         \A d \in Db : \/ status'[d] = status[d]
                       \/ status'[d] \notin {"absent", "stopped", "failed", "restoring"}
                       \/ mode' \in {"boot", "sweep", "up"} => Unserved(d)'
  PROVE  SettledInv'
  BY DEF SettledInv, Unserved

\* A request that arrives keeps SettledInv.
LEMMA SettledArrives ==
  ASSUME TypeOK, SettledInv, NEW t \in Req, NEW d \in Db,
         \/ RequestCreate(t, d) \/ RequestStart(t, d) \/ RequestStop(t, d)
         \/ RequestDelete(t, d) \/ RequestRestore(t, d)
  PROVE  SettledInv'
<1>1. UNCHANGED <<mode, children, adoptedPids, pstate>>
  BY DEF RequestCreate, RequestStart, RequestStop, RequestDelete, RequestRestore, Arrive, osVars
<1>2. \A e \in Db : Unserved(e)' <=> Unserved(e)
  BY <1>1 DEF Unserved, AdoptedAlive, Alive
<1>3. \A e \in Db : \/ status'[e] = status[e]
                    \/ status'[e] \in {"starting", "deleting"}
                    \/ status[e] = "absent"
  BY DEF RequestCreate, RequestStart, RequestStop, RequestDelete, RequestRestore, TypeOK, rowVars
<1> QED BY <1>1, <1>2, <1>3, SettledFrame DEF SettledInv, Unserved

\* The steps of startDatabaseLocked keep SettledInv: "failed" is written after
\* the child is dead.
LEMMA SettledStart ==
  ASSUME TypeOK, LockInv, ThreadInv, ChildInv, AdoptAll, RestoreInv, SettledInv,
         NEW t \in Thread, StartStep(t)
  PROVE  SettledInv'
<1> DEFINE d == target[t]
<1>1. d \in Db
  BY DEF TypeOK
<1>2. CASE UNCHANGED <<status, mode, children, adoptedPids, pstate>>
  BY <1>2 DEF SettledInv, AdoptedAlive, Alive
<1>3. CASE PlaneGone
  BY <1>3 DEF PlaneGone, SettledInv
<1>4. CASE LaunchReady(t)
  BY <1>1, <1>4 DEF LaunchReady, SetStatus, SettledInv, AdoptedAlive, Alive, TypeOK, osVars
<1>5. ASSUME NEW p \in Pid, SpawnChild(t, p)
      PROVE  SettledInv'
  <2>1. status[d] # "absent"
    BY <1>5 DEF SpawnChild, RestoreInv
  <2>2. status'[d] \in {"gone", "starting"}
    BY <1>1, <1>5, <2>1 DEF SpawnChild, SetStatus, Exists, TypeOK
  <2>3. \A e \in Db \ {d} : status'[e] = status[e] /\ children'[e] = children[e]
    BY <1>1, <1>5 DEF SpawnChild, SetStatus, TypeOK
  <2>4. \A e \in Db : AdoptedAlive(e)' <=> AdoptedAlive(e)
    BY <1>1, <1>5, AdoptSpawn DEF SpawnChild
  <2> QED BY <1>5, <2>2, <2>3, <2>4 DEF SettledInv, SpawnChild
<1>6. ASSUME SetStatus(d, "failed"), UNCHANGED <<mode, children, adoptedPids, pstate>>,
             mode # "drained" => children[d] = NoPid /\ ~AdoptedAlive(d)
      PROVE  SettledInv'
  BY <1>1, <1>6 DEF SettledInv, SetStatus, AdoptedAlive, Alive, TypeOK
<1>7. CASE SpawnRefused(t) \/ LaunchReaped(t)
  <2>1. mode # "drained" => children[d] = NoPid /\ ~AdoptedAlive(d)
    BY <1>7 DEF SpawnRefused, LaunchReaped, ChildInv, AdoptAll, AdoptInv
  <2> QED BY <1>6, <1>7, <2>1 DEF SpawnRefused, LaunchReaped, LaunchFailed, osVars
<1>8. CASE KeyUnreadable(t) /\ ~PlaneGone
  <2>1. children[d] = NoPid /\ ~AdoptedAlive(d)
    BY <1>8 DEF KeyUnreadable, ChildInv, AdoptAll, AdoptInv
  <2> QED BY <1>2, <1>6, <1>8, <2>1 DEF KeyUnreadable, CallerRecordsFailure
<1>9. CASE StartRefused(t)
  <2>1. CASE kind[t] \in {"restore", "boot"}
    BY <1>9, <2>1 DEF StartRefused, RestoreInv, ThreadInv, ShouldTrack, Exists
  <2>2. CASE kind[t] \notin {"restore", "boot"}
    BY <1>2, <1>9, <2>2 DEF StartRefused, CallerRecordsFailure, osVars
  <2> QED BY <2>1, <2>2
<1> QED BY <1>2, <1>3, <1>4, <1>5, <1>7, <1>8, <1>9 DEF StartStep, StartAlreadyRunning, StartAccepted,
         ProbeAnswered, ProbeGivesUp, rowVars, osVars, memVars

\* The steps of stop, delete and restore keep SettledInv: "stopped" is written
\* after the process is dead.
LEMMA SettledRequest ==
  ASSUME TypeOK, RestoreInv, SettledInv, NEW t \in Req, RequestStep(t)
  PROVE  SettledInv'
<1> DEFINE d == target[t]
<1>1. t \in Thread /\ d \in Db
  BY DEF Thread, TypeOK
<1>2. CASE UNCHANGED <<status, mode, children, adoptedPids, pstate>>
  BY <1>2 DEF SettledInv, AdoptedAlive, Alive
<1>3. CASE RestoreFails(t)
  <2>1. status[d] = "restoring"
    BY <1>1, <1>3 DEF RestoreFails, RestoreInv
  <2> QED BY <1>1, <1>3, <2>1 DEF RestoreFails, SetStatus, SettledInv, AdoptedAlive, Alive, osVars, memVars, TypeOK
<1>4. CASE RestorePlaces(t)
  <2>1. status[d] = "restoring"
    BY <1>1, <1>4 DEF RestorePlaces, RestoreInv
  <2> QED BY <1>1, <1>4, <2>1 DEF RestorePlaces, SetStatus, Exists, SettledInv, AdoptedAlive, Alive, osVars, TypeOK
<1>5. CASE StopFinishes(t) \/ KillFinishes(t)
  <2>1. /\ children' = [children EXCEPT ![d] = NoPid]
        /\ adoptedPids' = [adoptedPids EXCEPT ![d] = NoPid]
        /\ \A e \in Db \ {d} : status'[e] = status[e]
        /\ UNCHANGED <<mode, pstate>>
    BY <1>1, <1>5 DEF StopFinishes, KillFinishes, SetStatus, TypeOK, rowVars, osVars
  <2>2. \A e \in Db : Unserved(e) \/ e = d => Unserved(e)'
    BY <1>1, <2>1 DEF Unserved, AdoptedAlive, Alive, TypeOK
  <2> QED BY <2>1, <2>2, SettledFrame
<1>6. CASE DropRow(t)
  BY <1>1, <1>6 DEF DropRow, SettledInv, AdoptedAlive, Alive, osVars, memVars, TypeOK
<1> QED BY <1>2, <1>3, <1>4, <1>5, <1>6 DEF RequestStep, StopRefused, TermChild, TermAdopted, RemoveFiles,
         rowVars, osVars, memVars

\* Every other step keeps SettledInv.
LEMMA SettledRest ==
  ASSUME TypeOK, ThreadInv, ChildInv, RowPidInv, AdoptAll, SettledInv,
         ProcessStep \/ BootStep \/ PlaneStep
  PROVE  SettledInv'
<1> USE DEF rowVars, osVars, memVars, threadVars
<1>1. CASE ProcessStep
  <2>1. ASSUME NEW e \in Db, MarkCrashedIfLive(e)
        PROVE  \A d \in Db : status'[d] = status[d] \/ status'[d] = "crashed"
    BY <2>1 DEF MarkCrashedIfLive, SetStatus, TypeOK
  <2>2. CASE \E p \in Pid : BindsPort(p) \/ Dies(p)
    <3>1. /\ UNCHANGED <<status, mode, children, adoptedPids>>
          /\ \A p \in Pid : Alive(p)' => Alive(p)
      BY <2>2 DEF BindsPort, Dies, Alive, TypeOK
    <3> QED BY <3>1 DEF SettledInv, AdoptedAlive, TypeOK
  <2>3. ASSUME NEW p \in Pid, ForeignStarts(p)
        PROVE  SettledInv'
    <3>1. \A d \in Db : AdoptedAlive(d)' <=> AdoptedAlive(d)
      BY <2>3, AdoptSpawn DEF ForeignStarts
    <3> QED BY <2>3, <3>1 DEF ForeignStarts, SettledInv
  <2>4. ASSUME NEW p \in Pid, ExitEvent(p)
        PROVE  SettledInv'
    <3>1. powner[p] \in Db
      BY <2>4 DEF ExitEvent, ChildInv
    <3>2. /\ \A d \in Db : status'[d] = status[d] \/ status'[d] = "crashed"
          /\ \A d \in Db : Unserved(d) => Unserved(d)'
          /\ UNCHANGED mode
      BY <2>1, <2>4, <3>1 DEF ExitEvent, Unserved, AdoptedAlive, Alive, TypeOK
    <3> QED BY <3>2, SettledFrame
  <2>5. ASSUME NEW p \in Pid, NEW e \in Db, WatchTick(p, e)
        PROVE  SettledInv'
    <3>1. /\ \A d \in Db : status'[d] = status[d] \/ status'[d] = "crashed"
          /\ \A d \in Db : Unserved(d) => Unserved(d)'
          /\ UNCHANGED mode
      BY <2>1, <2>5, ConstAssumption DEF WatchTick, Unserved, AdoptedAlive, Alive, TypeOK
    <3> QED BY <3>1, SettledFrame
  <2> QED BY <1>1, <2>2, <2>3, <2>4, <2>5 DEF ProcessStep
<1>2. CASE BootStep
  <2>1. ASSUME NEW d \in Db, Visits(d)
        PROVE  Unserved(d)
    BY <2>1 DEF Visits, AdoptAll, AdoptInv, Unserved, AdoptedAlive
  <2>2. ASSUME NEW d \in Db, BootAdopts(d)
        PROVE  SettledInv'
    BY <2>2 DEF BootAdopts, ShouldTrack, SetStatus, Exists, SettledInv, AdoptedAlive, Alive, TypeOK
  <2>3. ASSUME NEW d \in Db, \/ BootLeaves(d) \/ BootFindsPortBound(d) \/ BootRelaunches(d)
                             \/ BootMarksStopped(d)
        PROVE  SettledInv'
    <3>1. /\ UNCHANGED <<mode, children, adoptedPids, pstate>>
          /\ Visits(d)
          /\ \A e \in Db \ {d} : status'[e] = status[e]
      BY <2>3 DEF BootLeaves, BootFindsPortBound, BootRelaunches, BootMarksStopped, SetStatus, TypeOK
    <3>2. \A e \in Db : Unserved(e) <=> Unserved(e)'
      BY <3>1 DEF Unserved, AdoptedAlive, Alive
    <3> QED BY <2>1, <3>1, <3>2, SettledFrame
  <2>4. CASE SweepTerm
    BY <2>4 DEF SweepTerm, SettledInv, AdoptedAlive, Alive
  <2>5. CASE BootEnds
    <3>1. /\ UNCHANGED <<children, adoptedPids>> /\ mode = "sweep"
          /\ \A p \in Pid : Alive(p)' => Alive(p)
      BY <2>5 DEF BootEnds, KillSurvivors, Alive, TypeOK
    <3>2. \A e \in Db : Unserved(e) => Unserved(e)'
      BY <3>1 DEF Unserved, AdoptedAlive, TypeOK
    <3>3. \A e \in Db : \/ status'[e] = status[e]
                        \/ status[e] = "restoring"
      BY <2>5 DEF BootEnds, KillSurvivors
    <3> QED BY <3>1, <3>2, <3>3, SettledFrame DEF SettledInv, Unserved
  <2> QED BY <1>2, <2>2, <2>3, <2>4, <2>5 DEF BootStep
<1>3. CASE PlaneStep
  <2>1. CASE mode' \notin {"boot", "sweep", "up"}
    BY <2>1 DEF SettledInv
  <2>2. CASE Restart
    BY <2>2 DEF Restart, SettledInv, AdoptAll, AdoptInv, AdoptedAlive
  <2> QED BY <1>3, <2>1, <2>2 DEF PlaneStep, Crash, CrashAfterSpawn, Shutdown, ShutdownDrains, ShutdownExits, PlaneGone
<1> QED BY <1>1, <1>2, <1>3

-----------------------------------------------------------------------------
IInv == TypeOK /\ MapsAgree

\* A stuttering step keeps the inductive invariant.
LEMMA IInvStutter ==
  ASSUME IInv, UNCHANGED vars
  PROVE  IInv'
  BY DEF IInv, vars, rowVars, osVars, memVars, threadVars, TypeOK, MapsAgree, LockInv, Holds, ThreadInv,
     ChildInv, RowPidInv, OrphanInv, WatchInv, AdoptInv, AdoptedAlive, Alive, SignalInv, SweepInv,
     RestoreInv, ShouldTrack, SettledInv

-----------------------------------------------------------------------------
(* The invariant, and what follows from it.                                *)

\* The inductive invariant holds in the initial state.
LEMMA IInvInit ==
  ASSUME Init
  PROVE  IInv
<1>1. TypeOK
  BY TypeInit
<1>2. /\ \A t \in Thread : pc[t] = "idle" /\ kind[t] \in {"boot", "start"} /\ tpid[t] = NoPid
                           /\ (kind[t] = "boot" <=> t = Boot)
      /\ \A p \in Pid : pstate[p] = "free"
      /\ \A d \in Db : /\ children[d] = NoPid /\ adoptedPids[d] = NoPid
                       /\ row_pid[d] = NoPid /\ row_start[d] = 0
      /\ mode = "up" /\ mine = {} /\ registry = {} /\ watch = {} /\ clock = 0 /\ termed = {}
  BY DEF Init
<1>3. Boot \in Thread
  BY DEF Thread
<1>4. LockInv /\ ThreadInv /\ RestoreInv
  BY <1>2, <1>3 DEF LockInv, InOperation, ThreadInv, RestoreInv, Thread
<1>5. ChildInv /\ RowPidInv
  BY <1>2 DEF ChildInv, RowPidInv
<1>6. OrphanInv /\ WatchInv /\ AdoptInv /\ SignalInv /\ SweepInv /\ SettledInv
  BY <1>2 DEF OrphanInv, WatchInv, AdoptInv, SignalInv, SweepInv, SettledInv, AdoptedAlive, Alive
<1> QED BY <1>1, <1>4, <1>5, <1>6 DEF IInv, MapsAgree

\* Every step keeps the inductive invariant: one case per disjunct of Next, each
\* from the lemmas above.
LEMMA IInvNext ==
  ASSUME IInv, [Next]_vars
  PROVE  IInv'
<1>1. CASE UNCHANGED vars
  BY <1>1, IInvStutter
<1>2. CASE Next
  <2> USE DEF IInv, MapsAgree, AdoptAll
  <2>1. ThreadInv' /\ RowPidInv' /\ SignalInv' /\ SweepInv'
    BY <1>2, ThreadNext, RowPidNext, SignalNext, SweepNext
  <2>2. CASE RequestArrives
    BY <2>1, <2>2, TypeArrives, LockArrives, ChildArrives, AdoptArrives, RestoreArrives, SettledArrives
       DEF RequestArrives
  <2>3. CASE \E t \in Thread : StartStep(t)
    BY <2>1, <2>3, TypeStart, LockStart, ChildStart, AdoptStart, RestoreStart, SettledStart
  <2>4. CASE \E t \in Req : RequestStep(t)
    BY <2>1, <2>4, TypeRequest, LockRequest, ChildRequest, AdoptRequest, RestoreRequest, SettledRequest
  <2>5. CASE ProcessStep
    BY <2>1, <2>5, TypeProcess, LockRest, ChildProcess, AdoptProcess, RestoreRest, SettledRest
  <2>6. CASE BootStep
    BY <2>1, <2>6, TypeBoot, LockRest, ChildBoot, AdoptBoot, RestoreRest, SettledRest
  <2>7. CASE PlaneStep
    BY <2>1, <2>7, TypePlane, LockRest, ChildPlane, AdoptPlane, RestoreRest, SettledRest
  <2> QED BY <1>2, <2>2, <2>3, <2>4, <2>5, <2>6, <2>7 DEF Next
<1> QED BY <1>1, <1>2

\* The inductive invariant holds in every reachable state.
THEOREM Inductive == Spec => []IInv
<1>1. Init => IInv
  BY IInvInit
<1>2. IInv /\ [Next]_vars => IInv'
  BY IInvNext
<1> QED BY <1>1, <1>2, PTL DEF Spec

\* Every variable keeps its type.
THEOREM TypeCorrect == Spec => []TypeOK
<1>1. IInv => TypeOK
  BY DEF IInv
<1> QED BY <1>1, Inductive, PTL

\* withLock, the child map, the adopted map, the watchers, the process table and
\* the rows agree in every reachable state (supervisor.ts, its four maps).
THEOREM MapsAlwaysAgree == Spec => []MapsAgree
<1>1. IInv => MapsAgree
  BY DEF IInv
<1> QED BY <1>1, Inductive, PTL

\* withLock: two operations on one database are never in progress together.
THEOREM Serialized == Spec => []LifecycleSerialized
<1>1. IInv => LifecycleSerialized
  BY OnlyHolder DEF IInv, MapsAgree, LifecycleSerialized
<1> QED BY <1>1, Inductive, PTL

\* While the API serves, a live sqld is the child or the adopted process of its
\* database.
LEMMA SqldIsTracked ==
  ASSUME IInv, mode \in {"up", "stopping"}, NEW d \in Db, NEW p \in Sqlds(d)
  PROVE  /\ p \in mine => children[d] = p
         /\ p \notin mine => adoptedPids[d] = p /\ AdoptedAlive(d)
<1>1. p \in Pid /\ Alive(p) /\ powner[p] = d
  BY DEF Sqlds
<1> QED BY <1>1, ConstAssumption DEF IInv, MapsAgree, ChildInv, OrphanInv, AdoptedAlive

\* No sqld runs untracked once a boot is over, whatever crashed before.
THEOREM NoOrphans == Spec => []EverySqldIsTracked
<1>1. IInv => EverySqldIsTracked
  BY SqldIsTracked DEF EverySqldIsTracked, Tracked
<1> QED BY <1>1, Inductive, PTL

\* A database has a child or an adopted process, never both, hence one sqld.
LEMMA OneWriter ==
  ASSUME IInv
  PROVE  OneWriterPerDatabase
<1> SUFFICES ASSUME mode \in {"up", "stopping"}, NEW d \in Db, NEW p \in Sqlds(d), NEW q \in Sqlds(d)
             PROVE  p = q
  BY DEF OneWriterPerDatabase
<1>1. AdoptedAlive(d) => children[d] = NoPid
  BY DEF IInv, MapsAgree, AdoptInv
<1>2. p \in Pid /\ q \in Pid
  BY DEF Sqlds
<1> QED BY <1>1, <1>2, SqldIsTracked, ConstAssumption

\* Two sqlds never write one data directory while the supervisor is in charge.
THEOREM NeverTwoWriters == Spec => []OneWriterPerDatabase
<1>1. IInv => OneWriterPerDatabase
  BY OneWriter
<1> QED BY <1>1, Inductive, PTL

\* A row that says "stopped" or "failed" has no process behind it.
THEOREM SettledIsDead == Spec => []SettledMeansDead
<1>1. ASSUME IInv
      PROVE  SettledMeansDead
  <2> SUFFICES ASSUME mode = "up", NEW d \in Db, status[d] \in {"stopped", "failed"},
                      NEW p \in Sqlds(d)
               PROVE  FALSE
    BY DEF SettledMeansDead
  <2>1. children[d] = NoPid /\ ~AdoptedAlive(d)
    BY <1>1 DEF IInv, MapsAgree, SettledInv
  <2>2. p \in Pid
    BY DEF Sqlds
  <2> QED BY <1>1, <2>1, <2>2, SqldIsTracked, ConstAssumption
<1> QED BY <1>1, Inductive, PTL

\* TERM and adoption reach only the database in question, and the SIGKILL of the
\* sweep no sqld the supervisor holds.
THEOREM OnlyOursSignalled == Spec => []OnlyOwnProcessesSignalled
<1>1. ASSUME IInv
      PROVE  OnlyOwnProcessesSignalled
  <2>1. ASSUME NEW p \in Pid, p \in termed, Alive(p), powner[p] \in Db, NEW d \in Db
        PROVE  pterm[p] /\ p \notin registry /\ children[d] # p /\ adoptedPids[d] # p
    <3>1. mode = "sweep" /\ pterm[p] /\ p \notin registry
      BY <1>1, <2>1 DEF IInv, MapsAgree, SweepInv
    <3>2. adoptedPids[d] # p
      BY <1>1, <2>1, <3>1, ConstAssumption DEF IInv, MapsAgree, SweepInv, AdoptedAlive
    <3>3. children[d] # p
      BY <1>1, <3>1, ConstAssumption DEF IInv, MapsAgree, ChildInv, WatchInv
    <3> QED BY <3>1, <3>2, <3>3
  <2>2. /\ \A p \in Pid : Alive(p) /\ powner[p] = Foreign => ~pterm[p]
        /\ \A d \in Db : AdoptedAlive(d) => powner[adoptedPids[d]] = d
        /\ \A d \in Db : Adoptable(d) => powner[row_pid[d]] = d
    BY <1>1 DEF IInv, MapsAgree, SignalInv, AdoptInv, RowPidInv, Adoptable, StartTime
  <2>3. termed \subseteq Pid
    BY <1>1 DEF IInv, TypeOK
  <2>4. \A p \in termed :
          Alive(p) /\ powner[p] \in Db =>
            /\ pterm[p] /\ p \notin registry
            /\ \A d \in Db : children[d] # p /\ adoptedPids[d] # p
    BY <2>1, <2>3
  <2> QED BY <2>2, <2>4 DEF OnlyOwnProcessesSignalled
<1> QED BY <1>1, Inductive, PTL

-----------------------------------------------------------------------------
(* Refinement of DataDirOwner.                                             *)

\* DataDirOwner promises something.
Open == mode \in {"up", "stopping"}

\* The processes of a database are those of the next state if no death, start or
\* hand-over touches them.
LEMMA SqldsFrame ==
  ASSUME NEW d \in Db,
         \A p \in Pid : (Alive(p)' /\ powner'[p] = d) <=> (Alive(p) /\ powner[p] = d)
  PROVE  Sqlds(d)' = Sqlds(d)
<1>1. Sqlds(d)' = {p \in Pid : Alive(p)' /\ powner'[p] = d}
  BY DEF Sqlds
<1>2. Sqlds(d) = {p \in Pid : Alive(p) /\ powner[p] = d}
  BY DEF Sqlds
<1> QED BY <1>1, <1>2

\* A step that changes no process set stutters in DataDirOwner.
LEMMA OwnerFrame ==
  ASSUME Open, Open', \A d \in Db : Sqlds(d)' = Sqlds(d)
  PROVE  UNCHANGED Owner!vars
  BY DEF Owner!vars, Open

\* A step that leaves the process table alone stutters in DataDirOwner.
LEMMA OwnerStill ==
  ASSUME Open, Open', UNCHANGED <<pstate, powner>>
  PROVE  UNCHANGED Owner!vars
<1>1. \A p \in Pid : Alive(p)' <=> Alive(p)
  BY DEF Alive
<1> QED BY <1>1, SqldsFrame, OwnerFrame

\* Outside service every step stutters in DataDirOwner.
LEMMA OwnerClosed ==
  ASSUME ~Open, ~Open'
  PROVE  UNCHANGED Owner!vars
  BY DEF Owner!vars, Open

\* Crash and shutdown are Owner!Close.
LEMMA OwnerCloses ==
  ASSUME Open, ~Open'
  PROVE  Owner!Next
<1>1. Owner!Close
  BY DEF Owner!Close, Owner!None, Open
<1> QED BY <1>1 DEF Owner!Next

\* The end of a boot is Owner!Open.
LEMMA OwnerOpens ==
  ASSUME ~Open, Open', OneWriterPerDatabase'
  PROVE  Owner!Next
<1>1. \A d \in Db : Sqlds(d)' \in SUBSET Pid
  BY DEF Sqlds
<1>2. \A d \in Db : \A p, q \in Sqlds(d)' : p = q
  BY DEF OneWriterPerDatabase, Open
<1>3. Owner!Open
  BY <1>1, <1>2 DEF Owner!Open, Owner!AtMostOne, Open
<1> QED BY <1>3 DEF Owner!Next

\* A spawn is Owner!Launch: the directory has no writer, since the lock was held
\* from the look at the two maps to the spawn.
LEMMA OwnerLaunches ==
  ASSUME IInv, Open, Open',
         NEW t \in Thread, NEW p \in Pid, SpawnChild(t, p)
  PROVE  Owner!Next
<1> DEFINE e == target[t]
<1>t. e \in Db /\ TypeOK
  BY DEF IInv, TypeOK
<1>1. Sqlds(e) = {}
  <2>1. children[e] = NoPid /\ ~AdoptedAlive(e)
    BY DEF SpawnChild, IInv, MapsAgree, ChildInv, AdoptInv
  <2>2. \A q \in Sqlds(e) : q \in Pid
    BY DEF Sqlds
  <2> QED BY <1>t, <2>1, <2>2, SqldIsTracked, ConstAssumption DEF Open
<1>2. /\ pstate[p] = "free"
      /\ pstate' = [pstate EXCEPT ![p] = "booting"]
      /\ powner' = [powner EXCEPT ![p] = e]
  BY DEF SpawnChild, Spawn
<1>3. /\ \A q \in Pid : Alive(q)' <=> (q = p \/ Alive(q))
      /\ \A q \in Pid : powner'[q] = IF q = p THEN e ELSE powner[q]
      /\ ~Alive(p)
  BY <1>2, <1>t DEF Alive, TypeOK
<1>4. \A d \in Db : Sqlds(d)' = IF d = e THEN {p} ELSE Sqlds(d)
  <2> SUFFICES ASSUME NEW d \in Db PROVE Sqlds(d)' = IF d = e THEN {p} ELSE Sqlds(d)
    OBVIOUS
  <2>1. CASE d = e
    <3>1. Sqlds(d)' = {q \in Pid : Alive(q)' /\ powner'[q] = d}
      BY DEF Sqlds
    <3>2. Sqlds(e) = {q \in Pid : Alive(q) /\ powner[q] = e}
      BY DEF Sqlds
    <3>3. \A q \in Pid : ~(Alive(q) /\ powner[q] = e)
      BY <3>2, <1>1
    <3>4. \A q \in Pid : (Alive(q)' /\ powner'[q] = d) <=> q = p
      BY <1>3, <3>3, <2>1
    <3>5. {q \in Pid : Alive(q)' /\ powner'[q] = d} = {p}
      BY <3>4
    <3> QED BY <3>1, <3>5, <2>1
  <2>2. CASE d # e
    <3>1. \A q \in Pid : (Alive(q)' /\ powner'[q] = d) <=> (Alive(q) /\ powner[q] = d)
      BY <2>2, <1>3
    <3> QED BY <2>2, <3>1, SqldsFrame
  <2> QED BY <2>1, <2>2
<1>5. Owner!Launch(e, p)
  BY <1>1, <1>4, <1>t DEF Owner!Launch, Open
<1> QED BY <1>5, <1>t DEF Owner!Next

\* The death of a sqld is Owner!Exit: it was the only writer.
LEMMA OwnerExits ==
  ASSUME IInv, OneWriterPerDatabase, Open, Open', NEW p \in Pid, Dies(p)
  PROVE  [Owner!Next]_(Owner!vars)
<1> DEFINE e == powner[p]
<1>t. TypeOK /\ e \in Db \cup {Foreign}
  BY DEF IInv, TypeOK
<1>1. /\ Alive(p) /\ UNCHANGED powner
      /\ \A q \in Pid : Alive(q)' <=> (q # p /\ Alive(q))
  BY <1>t DEF Dies, Alive, TypeOK
<1>2. \A d \in Db : d # e => Sqlds(d)' = Sqlds(d)
  <2> SUFFICES ASSUME NEW d \in Db, d # e PROVE Sqlds(d)' = Sqlds(d)
    OBVIOUS
  <2>1. \A q \in Pid : (Alive(q)' /\ powner'[q] = d) <=> (Alive(q) /\ powner[q] = d)
    BY <1>1
  <2> QED BY <2>1, SqldsFrame
<1>3. CASE e \in Db
  <2>1. p \in Sqlds(e)
    BY <1>1 DEF Sqlds
  <2>2. \A q \in Pid : Alive(q) /\ powner[q] = e => q = p
    BY <2>1, <1>3 DEF OneWriterPerDatabase, Open, Sqlds
  <2>3. \A q \in Pid : ~(Alive(q)' /\ powner'[q] = e)
    BY <1>1, <2>2
  <2>4. \A d \in Db : d = e => Sqlds(d)' = {}
    <3> SUFFICES ASSUME NEW d \in Db, d = e PROVE Sqlds(d)' = {}
      OBVIOUS
    <3>1. Sqlds(d)' = {q \in Pid : Alive(q)' /\ powner'[q] = d}
      BY DEF Sqlds
    <3> QED BY <3>1, <2>3
  <2>5. Owner!Exit(e)
    BY <1>2, <2>4, <1>3 DEF Owner!Exit, Open
  <2> QED BY <2>5, <1>3 DEF Owner!Next
<1>4. CASE e = Foreign
  BY <1>2, <1>4, ConstAssumption, OwnerFrame
<1> QED BY <1>3, <1>4, <1>t

\* While the API serves every step is one of DataDirOwner, or stutters there.
LEMMA OwnerStays ==
  ASSUME IInv, OneWriterPerDatabase, Open, Open', Next
  PROVE  [Owner!Next]_(Owner!vars)
<1>t. TypeOK
  BY DEF IInv
<1>1. CASE RequestArrives
  <2>1. UNCHANGED <<pstate, powner>>
    BY <1>1 DEF RequestArrives, RequestCreate, RequestStart, RequestStop, RequestDelete,
                RequestRestore, Arrive, osVars
  <2> QED BY <2>1, OwnerStill
<1>2. ASSUME NEW t \in Thread, StartStep(t)
      PROVE  [Owner!Next]_(Owner!vars)
  <2>1. CASE \E p \in Pid : SpawnChild(t, p)
    BY <2>1, OwnerLaunches
  <2>2. CASE KeyUnreadable(t)
    <3>1. UNCHANGED <<pstate, powner>>
      BY <2>2 DEF KeyUnreadable, PlaneGone, Open
    <3> QED BY <3>1, OwnerStill
  <2>3. CASE \/ StartRefused(t) \/ StartAlreadyRunning(t) \/ StartAccepted(t) \/ SpawnRefused(t)
             \/ ProbeAnswered(t) \/ LaunchReady(t) \/ ProbeGivesUp(t) \/ LaunchReaped(t)
    <3>1. UNCHANGED <<pstate, powner>>
      BY <2>3 DEF StartRefused, StartAlreadyRunning, StartAccepted, SpawnRefused, ProbeAnswered,
                  LaunchReady, ProbeGivesUp, LaunchReaped, LaunchFailed, osVars
    <3> QED BY <3>1, OwnerStill
  <2> QED BY <1>2, <2>1, <2>2, <2>3 DEF StartStep
<1>3. CASE \E t \in Req : RequestStep(t)
  <2>1. UNCHANGED <<pstate, powner>>
    BY <1>3 DEF RequestStep, RestoreFails, RestorePlaces, StopRefused, TermChild, TermAdopted,
                StopFinishes, KillFinishes, RemoveFiles, DropRow, osVars
  <2> QED BY <2>1, OwnerStill
<1>4. ASSUME NEW p \in Pid, BindsPort(p) \/ Dies(p) \/ ForeignStarts(p)
      PROVE  [Owner!Next]_(Owner!vars)
  <2>1. CASE BindsPort(p)
    <3>1. \A q \in Pid : Alive(q)' <=> Alive(q)
      BY <2>1, <1>t DEF BindsPort, Alive, TypeOK
    <3>2. UNCHANGED powner
      BY <2>1 DEF BindsPort
    <3> QED BY <3>1, <3>2, SqldsFrame, OwnerFrame
  <2>2. CASE Dies(p)
    BY <2>2, OwnerExits
  <2>3. CASE ForeignStarts(p)
    <3>1. /\ \A q \in Pid : q # p => powner'[q] = powner[q] /\ (Alive(q)' <=> Alive(q))
          /\ powner'[p] = Foreign /\ ~Alive(p)
      BY <2>3, <1>t DEF ForeignStarts, Spawn, Alive, TypeOK
    <3>2. \A d \in Db : \A q \in Pid : (Alive(q)' /\ powner'[q] = d) <=> (Alive(q) /\ powner[q] = d)
      BY <3>1, ConstAssumption
    <3> QED BY <3>2, SqldsFrame, OwnerFrame
  <2> QED BY <1>4, <2>1, <2>2, <2>3
<1>5. ASSUME NEW p \in Pid, ExitEvent(p)
      PROVE  [Owner!Next]_(Owner!vars)
  <2>1. \A q \in Pid : Alive(q)' <=> Alive(q)
    BY <1>5, <1>t DEF ExitEvent, Alive, TypeOK
  <2>2. UNCHANGED powner
    BY <1>5 DEF ExitEvent
  <2> QED BY <2>1, <2>2, SqldsFrame, OwnerFrame
<1>6. CASE \E p \in Pid, d \in Db : WatchTick(p, d)
  <2>1. UNCHANGED <<pstate, powner>>
    BY <1>6 DEF WatchTick, osVars
  <2> QED BY <2>1, OwnerStill
<1>7. ~BootStep
  BY DEF BootStep, Open, BootLeaves, BootAdopts, BootFindsPortBound, BootRelaunches,
         BootMarksStopped, Visits, SweepTerm, BootEnds, KillSurvivors
<1>8. CASE PlaneStep
  <2>1. Shutdown
    BY <1>8 DEF PlaneStep, Crash, CrashAfterSpawn, PlaneGone, Restart, ShutdownDrains,
                ShutdownExits, Open
  <2>2. UNCHANGED <<pstate, powner>>
    BY <2>1 DEF Shutdown
  <2> QED BY <2>2, OwnerStill
<1> QED BY <1>1, <1>2, <1>3, <1>4, <1>5, <1>6, <1>7, <1>8 DEF Next, ProcessStep

\* The supervisor implements the abstract owner of the data directories.
THEOREM Refines == Spec => OwnerSpec
<1>1. Init => Owner!Init
  <2> SUFFICES ASSUME Init PROVE Owner!Init
    OBVIOUS
  <2>1. \A d \in Db : Sqlds(d) = {}
    BY DEF Init, Sqlds, Alive
  <2>2. mode = "up"
    BY DEF Init
  <2> QED BY <2>1, <2>2 DEF Owner!Init, Owner!None
<1>2. IInv /\ OneWriterPerDatabase /\ OneWriterPerDatabase' /\ [Next]_vars
        => [Owner!Next]_(Owner!vars)
  <2> SUFFICES ASSUME IInv, OneWriterPerDatabase, OneWriterPerDatabase', [Next]_vars
               PROVE  [Owner!Next]_(Owner!vars)
    OBVIOUS
  <2>1. CASE UNCHANGED vars
    <3>1. UNCHANGED <<mode, pstate, powner>>
      BY <2>1 DEF vars, memVars, osVars
    <3>2. Open' <=> Open
      BY <3>1 DEF Open
    <3> QED BY <3>1, <3>2, OwnerStill, OwnerClosed
  <2>2. CASE Next /\ Open /\ Open'
    BY <2>2, OwnerStays
  <2>3. CASE ~Open /\ Open'
    BY <2>3, OwnerOpens
  <2>4. CASE Open /\ ~Open'
    BY <2>4, OwnerCloses
  <2>5. CASE ~Open /\ ~Open'
    BY <2>5, OwnerClosed
  <2> QED BY <2>1, <2>2, <2>3, <2>4, <2>5
<1> QED BY <1>1, <1>2, Inductive, NeverTwoWriters, PTL DEF Spec, OwnerSpec, Owner!Spec
=============================================================================
