---------------------------- MODULE BackupProofs ----------------------------
(***************************************************************************)
(* What is proved of the backups for all values of the constants: how they *)
(* are taken (ControlBackup: no caller waits for a run that nobody starts, *)
(* success means saved, pruning leaves a backup), tried (VerifyQueue: one  *)
(* restore at a time, and "ok" only of a proved backup) and put back       *)
(* (Rebuild: no database comes up empty, a restored file is never restored *)
(* over, a parked database has its signing key).                           *)
(***************************************************************************)
EXTENDS ControlBackup, Rebuild, VerifyQueue, FiniteSetTheorems, TLAPS

----------------------------------------------------------------------------
(* The control-plane backup                                                *)

CallState == {"idle", "upload", "followUp", "ok", "failed"}

\* The part of the type invariant the argument needs: which waiters exist
\* depends on the phases, the flag and the calls only.
RunTypes ==
  /\ phase \in [Svc -> {"idle", "write", "list", "prune"}]
  /\ followUp \in BOOLEAN
  /\ call \in [Call -> CallState]

RunInv == RunTypes /\ WaitersHaveARun

\* The first boot's upload has no waiters.
LEMMA InitRun == Init => RunInv
BY DEF Init, RunInv, RunTypes, WaitersHaveARun, Svc, CallState

\* Between its calls the service keeps the promise: runNow() starts a run or
\* chains a follow-up on one.
LEMMA RunNowKeeps ==
  ASSUME RunInv, RunNow, call' \in [Call -> CallState],
         \A c \in Call :
           \/ call'[c] = call[c]
           \/ call'[c] = IF phase["server"] = "idle" THEN "upload" ELSE "followUp"
  PROVE  RunInv'
<1>1. CASE phase["server"] = "idle"
  <2>1. /\ phase' = [phase EXCEPT !["server"] = "write"]
        /\ followUp' = followUp
    BY <1>1 DEF RunNow, Uploads, UploadsTo
  <2> QED BY <1>1, <2>1 DEF RunInv, RunTypes, WaitersHaveARun, Svc, CallState
<1>2. CASE phase["server"] # "idle"
  <2>1. phase' = phase /\ followUp' = TRUE
    BY <1>2 DEF RunNow, uploadVars
  <2> QED BY <1>2, <2>1 DEF RunInv, RunTypes, WaitersHaveARun, Svc, CallState
<1> QED BY <1>1, <1>2

\* The end of an upload answers its callers and starts the follow-up, whose
\* callers then wait for that upload.
LEMMA SettlesKeeps ==
  ASSUME NEW s \in Svc, NEW result \in {"ok", "failed"}, NEW objs, RunInv, Settles(s, result, objs)
  PROVE  RunInv'
<1>1. CASE s = "server" /\ followUp
  <2>1. /\ phase' = [phase EXCEPT ![s] = "write"]
        /\ followUp' = FALSE
        /\ call' = [c \in Call |-> CASE call[c] = "upload" -> result
                                     [] call[c] = "followUp" -> "upload"
                                     [] OTHER -> call[c]]
    BY <1>1 DEF Settles, UploadsTo
  <2>2. \A c \in Call : call'[c] \in CallState /\ call'[c] # "followUp"
    BY <2>1 DEF RunInv, RunTypes, CallState
  <2> QED BY <1>1, <2>1, <2>2 DEF RunInv, RunTypes, WaitersHaveARun, Svc
<1>2. CASE ~(s = "server" /\ followUp)
  <2>1. /\ phase' = [phase EXCEPT ![s] = "idle"]
        /\ followUp' = followUp
        /\ call' = [c \in Call |-> IF s = "server" /\ call[c] = "upload" THEN result ELSE call[c]]
    BY <1>2 DEF Settles
  <2>2. CASE s = "server"
    <3>1. \A c \in Call : call'[c] \in CallState \ {"upload", "followUp"}
      BY <1>2, <2>1, <2>2 DEF RunInv, RunTypes, WaitersHaveARun, CallState
    <3> QED BY <1>2, <2>1, <2>2, <3>1 DEF RunInv, RunTypes, WaitersHaveARun, Svc, CallState
  <2>3. CASE s = "cli"
    BY <2>1, <2>3 DEF RunInv, RunTypes, WaitersHaveARun, Svc, CallState
  <2> QED BY <2>2, <2>3 DEF Svc
<1> QED BY <1>1, <1>2

\* A step of an upload that does not end it.
LEMMA UploadGoesOn ==
  ASSUME NEW s \in Svc, NEW p \in {"write", "list", "prune"}, RunInv,
         phase' = [phase EXCEPT ![s] = p], followUp' = followUp, call' = call
  PROVE  RunInv'
BY DEF RunInv, RunTypes, WaitersHaveARun, Svc, CallState

\* RunInv is inductive.
LEMMA NextRun == RunInv /\ [Next]_vars => RunInv'
<1> SUFFICES ASSUME RunInv, [Next]_vars PROVE RunInv'
  OBVIOUS
<1>1. CASE phase' = phase /\ followUp' = followUp /\ call' = call
  BY <1>1 DEF RunInv, RunTypes, WaitersHaveARun
<1>2. CASE \E c \in Call : RequestBackup(c)
  <2> PICK c \in Call : RequestBackup(c)
    BY <1>2
  <2>1. call' = [call EXCEPT ![c] = IF phase["server"] = "idle" THEN "upload" ELSE "followUp"] /\ RunNow
    BY DEF RequestBackup
  <2>2. call' \in [Call -> CallState]
    BY <2>1 DEF RunInv, RunTypes, CallState
  <2>3. \A d \in Call :
          \/ call'[d] = call[d]
          \/ call'[d] = IF phase["server"] = "idle" THEN "upload" ELSE "followUp"
    BY <2>1 DEF RunInv, RunTypes
  <2> QED BY <2>1, <2>2, <2>3, RunNowKeeps
<1>3. CASE DebounceFires \/ ScheduledRun
  <2>1. call' = call /\ RunNow
    BY <1>3 DEF DebounceFires, ScheduledRun, callVars
  <2>2. call' \in [Call -> CallState]
    BY <2>1 DEF RunInv, RunTypes
  <2> QED BY <2>1, <2>2, RunNowKeeps
<1>4. CASE CliBackup
  <2>1. phase' = [phase EXCEPT !["cli"] = "write"] /\ followUp' = followUp /\ call' = call
    BY <1>4 DEF CliBackup, Uploads, UploadsTo, callVars
  <2> QED BY <2>1, UploadGoesOn DEF Svc
<1>5. CASE \E s \in Svc : SvcStep(s)
  <2> PICK s \in Svc : SvcStep(s)
    BY <1>5
  <2>1. CASE WriteSucceeds(s)
    BY <2>1, UploadGoesOn DEF WriteSucceeds, callVars
  <2>2. CASE Lists(s)
    BY <2>2, UploadGoesOn DEF Lists, callVars
  <2>3. CASE Deletes(s)
    BY <2>3 DEF Deletes, callVars, RunInv, RunTypes, WaitersHaveARun
  <2>4. CASE WriteFails(s)
    BY <2>4, SettlesKeeps DEF WriteFails
  <2>5. CASE ListFails(s)
    BY <2>5, SettlesKeeps DEF ListFails
  <2>6. CASE DeleteFails(s)
    BY <2>6, SettlesKeeps DEF DeleteFails
  <2>7. CASE Finishes(s)
    BY <2>7, SettlesKeeps DEF Finishes
  <2> QED BY <2>1, <2>2, <2>3, <2>4, <2>5, <2>6, <2>7 DEF SvcStep
<1>6. CASE Restart
  <2>1. /\ call' = [c \in Call |-> IF call[c] \in {"upload", "followUp"} THEN "failed" ELSE call[c]]
        /\ followUp' = FALSE
    BY <1>6 DEF Restart
  <2>2. \/ phase' = [phase EXCEPT !["server"] = "write"]
        \/ phase' = [phase EXCEPT !["server"] = "idle"]
    BY <1>6 DEF Restart, UploadsTo
  <2>3. \A c \in Call : call'[c] \in CallState \ {"upload", "followUp"}
    BY <2>1 DEF RunInv, RunTypes, CallState
  <2>4. call' \in [Call -> CallState]
    BY <2>1, <2>3
  <2> QED BY <2>1, <2>2, <2>3, <2>4 DEF RunInv, RunTypes, WaitersHaveARun, Svc
<1>7. CASE (\E route \in Routes : ApiChange(route)) \/ CliChange \/ ClockStepsBack
  BY <1>7, <1>1 DEF ApiChange, CliChange, ClockStepsBack, uploadVars, callVars
<1>8. CASE UNCHANGED vars
  BY <1>8, <1>1 DEF vars, uploadVars, callVars
<1> QED BY <1>2, <1>3, <1>4, <1>5, <1>6, <1>7, <1>8 DEF Next

\* Every call that waits for an upload or a follow-up has one under way, for
\* any number of calls and whatever fails, restarts or is pruned meanwhile.
THEOREM WaitersAlwaysHaveARun == Spec => []WaitersHaveARun
<1>1. RunInv => WaitersHaveARun
  BY DEF RunInv
<1> QED BY InitRun, NextRun, <1>1, PTL DEF Spec

----------------------------------------------------------------------------
(* The control-plane backup: what is stored                                *)

Phase == {"idle", "write", "list", "prune"}

\* No `backup-control` ever runs beside the server.
Alone == \A b \in Budgets : b["run"] = 0

\* The places of the objects o, the last name last.
Places(o) == 1..Len(o)

\* Who is to be deleted has been written, and with KEEP > 1 a later one has.
Tidy(o) ==
  \A i \in Places(o) : o[i].excess # {} =>
     o[i].stored /\ (Keep > 1 => \E j \in Places(o) : i < j /\ o[j].stored)

\* The objects o, when the uploads are at p.
Fits(o, p) ==
  /\ o \in Seq(Object)
  /\ \A i, j \in Places(o) : o[i].of = o[j].of /\ o[i].of # None => i = j
  /\ \A i \in Places(o) : o[i].of = None => o[i].stored
  /\ \A i \in Places(o), s \in Svc : o[i].of = s =>
        p[s] # "idle" /\ (o[i].stored <=> p[s] # "write") /\ s \notin o[i].excess
  /\ \A s \in Svc : p[s] = "write" \/ (Alone /\ p[s] # "idle") => \E i \in Places(o) : o[i].of = s
  /\ \A i \in Places(o) : o[i].version <= version
  /\ ~behind => \A i, j \in Places(o) : i <= j => o[i].version <= o[j].version
  /\ Tidy(o)

\* The store has a backup of version v or later.
Saves(o, v) == \E i \in Places(o) : o[i].stored /\ o[i].version >= v

\* What the server uploads is of version v or later.
Brings(o, v) == \A i \in Places(o) : o[i].of = "server" => o[i].version >= v

\* Nothing of what o promises is missing in t.
Keeps(o, t) == \A v \in Nat : (Saves(o, v) => Saves(t, v)) /\ (Brings(o, v) => Brings(t, v))

\* The services and KEEP.
LEMMA Svcs == None \notin Svc /\ "server" \in Svc /\ "cli" \in Svc /\ Keep \in Nat /\ Keep >= 1
BY ControlAssumption DEF Svc

\* Where the objects are after an insertion.
LEMMA Inserted ==
  ASSUME NEW o \in Seq(Object), NEW k \in 1..Len(o) + 1, NEW e \in Object
  PROVE  LET t == InsertAt(o, k, e) IN
         /\ t \in Seq(Object) /\ Len(t) = Len(o) + 1 /\ t[k] = e
         /\ \A i \in 1..Len(o) : i < k => t[i] = o[i]
         /\ \A i \in 1..Len(o) : k <= i => t[i + 1] = o[i]
<1> DEFINE a == SubSeq(o, 1, k - 1)
           b == SubSeq(o, k, Len(o))
           t == InsertAt(o, k, e)
<1>1. a \in Seq(Object) /\ Len(a) = k - 1 /\ \A i \in 1..k - 1 : a[i] = o[i]
  OBVIOUS
<1>2. b \in Seq(Object) /\ Len(b) = Len(o) - k + 1 /\ \A i \in 1..Len(o) - k + 1 : b[i] = o[k + i - 1]
  OBVIOUS
<1>3. t = a \o <<e>> \o b
  BY DEF InsertAt
<1> HIDE DEF a, b, t
<1>4. a \o <<e>> \in Seq(Object) /\ Len(a \o <<e>>) = k /\ (a \o <<e>>)[k] = e
      /\ \A i \in 1..k - 1 : (a \o <<e>>)[i] = o[i]
  BY <1>1
<1>5. t \in Seq(Object) /\ Len(t) = Len(o) + 1 /\ t[k] = e /\ \A i \in 1..k - 1 : t[i] = o[i]
  BY <1>2, <1>3, <1>4
<1>6. \A i \in 1..Len(o) : k <= i => t[i + 1] = o[i]
  <2> SUFFICES ASSUME NEW i \in 1..Len(o), k <= i PROVE t[i + 1] = o[i]
    OBVIOUS
  <2>1. t[i + 1] = b[i + 1 - k]
    BY <1>2, <1>3, <1>4
  <2> QED BY <1>2, <2>1
<1> QED BY <1>5, <1>6 DEF t

\* And after a removal.
LEMMA Removed ==
  ASSUME NEW o \in Seq(Object), NEW k \in 1..Len(o)
  PROVE  LET t == RemoveAt(o, k) IN
         /\ t \in Seq(Object) /\ Len(t) = Len(o) - 1
         /\ \A i \in 1..Len(o) : i < k => t[i] = o[i]
         /\ \A i \in 1..Len(o) : k < i => t[i - 1] = o[i]
<1> DEFINE a == SubSeq(o, 1, k - 1)
           b == SubSeq(o, k + 1, Len(o))
           t == RemoveAt(o, k)
<1>1. a \in Seq(Object) /\ Len(a) = k - 1 /\ \A i \in 1..k - 1 : a[i] = o[i]
  OBVIOUS
<1>2. b \in Seq(Object) /\ Len(b) = Len(o) - k /\ \A i \in 1..Len(o) - k : b[i] = o[k + i]
  OBVIOUS
<1>3. t = a \o b
  BY DEF RemoveAt
<1> HIDE DEF a, b, t
<1>4. t \in Seq(Object) /\ Len(t) = Len(o) - 1 /\ \A i \in 1..k - 1 : t[i] = o[i]
  BY <1>1, <1>2, <1>3
<1>5. \A i \in 1..Len(o) : k < i => t[i - 1] = o[i]
  <2> SUFFICES ASSUME NEW i \in 1..Len(o), k < i PROVE t[i - 1] = o[i]
    OBVIOUS
  <2>1. t[i - 1] = b[i - k]
    BY <1>1, <1>2, <1>3
  <2> QED BY <1>2, <2>1
<1> QED BY <1>4, <1>5 DEF t

\* The places of D in o, in their order, as places in t.
Embeds(f, D, o, t) ==
  /\ f \in [D -> Places(t)]
  /\ \A i, j \in D : i < j <=> f[i] < f[j]
  /\ \A i \in D : t[f[i]] = o[i]

\* An insertion keeps the others in their order.
LEMMA InsertEmbeds ==
  ASSUME NEW o \in Seq(Object), NEW k \in 1..Len(o) + 1, NEW e \in Object,
         NEW t, t = InsertAt(o, k, e)
  PROVE  /\ t \in Seq(Object) /\ k \in Places(t) /\ t[k] = e
         /\ \E f : /\ Embeds(f, Places(o), o, t)
                   /\ \A i \in Places(o) : f[i] # k /\ (i < k => f[i] < k)
                   /\ \A m \in Places(t) : m = k \/ \E i \in Places(o) : m = f[i]
<1> DEFINE f == [i \in Places(o) |-> IF i < k THEN i ELSE i + 1]
<1>1. /\ t \in Seq(Object) /\ Len(t) = Len(o) + 1 /\ t[k] = e
      /\ \A i \in Places(o) : i < k => t[i] = o[i]
      /\ \A i \in Places(o) : k <= i => t[i + 1] = o[i]
  BY Inserted DEF Places
<1>2. Len(o) \in Nat
  OBVIOUS
<1>3. Embeds(f, Places(o), o, t)
  <2>1. f \in [Places(o) -> Places(t)]
    BY <1>1, <1>2 DEF Places
  <2>2. \A i, j \in Places(o) : i < j <=> f[i] < f[j]
    BY <1>2 DEF Places
  <2>3. \A i \in Places(o) : t[f[i]] = o[i]
    BY <1>1, <1>2 DEF Places
  <2> QED BY <2>1, <2>2, <2>3 DEF Embeds
<1>4. \A i \in Places(o) : f[i] # k /\ (i < k => f[i] < k)
  BY <1>2 DEF Places
<1>5. ASSUME NEW m \in Places(t) PROVE m = k \/ \E i \in Places(o) : m = f[i]
  <2>0. m < k \/ k < m \/ m = k
    BY <1>1, <1>2 DEF Places
  <2>1. CASE m < k
    <3>1. m \in Places(o) /\ f[m] = m
      BY <1>1, <1>2, <2>1 DEF Places
    <3> QED BY <3>1
  <2>2. CASE k < m
    <3>1. m - 1 \in Places(o) /\ f[m - 1] = m
      BY <1>1, <1>2, <2>2 DEF Places
    <3> QED BY <3>1
  <2> QED BY <2>0, <2>1, <2>2
<1>6. k \in Places(t)
  BY <1>1, <1>2 DEF Places
<1> HIDE DEF f
<1> QED BY <1>1, <1>3, <1>4, <1>5, <1>6

\* The places of o but k.
AllBut(o, k) == Places(o) \ {k}

\* So does a removal.
LEMMA RemoveEmbeds ==
  ASSUME NEW o \in Seq(Object), NEW k \in Places(o), NEW t, t = RemoveAt(o, k)
  PROVE  /\ t \in Seq(Object)
         /\ \E f : /\ Embeds(f, AllBut(o, k), o, t)
                   /\ \A m \in Places(t) : \E i \in AllBut(o, k) : m = f[i]
<1> DEFINE f == [i \in Places(o) \ {k} |-> IF i < k THEN i ELSE i - 1]
<1>1. /\ t \in Seq(Object) /\ Len(t) = Len(o) - 1
      /\ \A i \in Places(o) : i < k => t[i] = o[i]
      /\ \A i \in Places(o) : k < i => t[i - 1] = o[i]
  BY Removed DEF Places
<1>2. Len(o) \in Nat /\ k \in 1..Len(o)
  BY DEF Places
<1>3. Embeds(f, Places(o) \ {k}, o, t)
  <2>1. f \in [Places(o) \ {k} -> Places(t)]
    BY <1>1, <1>2 DEF Places
  <2>2. ASSUME NEW i \in Places(o) \ {k}, NEW j \in Places(o) \ {k} PROVE i < j <=> f[i] < f[j]
    <3>1. i \in Nat /\ j \in Nat /\ k \in Nat /\ i # k /\ j # k
      BY <1>2 DEF Places
    <3>2. f[i] = (IF i < k THEN i ELSE i - 1) /\ f[j] = (IF j < k THEN j ELSE j - 1)
      OBVIOUS
    <3> HIDE DEF f
    <3> QED BY <3>1, <3>2
  <2>3. \A i \in Places(o) \ {k} : t[f[i]] = o[i]
    BY <1>1, <1>2 DEF Places
  <2> QED BY <2>1, <2>2, <2>3 DEF Embeds
<1>4. ASSUME NEW m \in Places(t) PROVE \E i \in Places(o) \ {k} : m = f[i]
  <2>1. CASE m < k
    <3>1. m \in Places(o) \ {k} /\ f[m] = m
      BY <1>1, <1>2, <2>1 DEF Places
    <3> QED BY <3>1
  <2>2. CASE k <= m
    <3>1. m + 1 \in Places(o) \ {k} /\ f[m + 1] = m
      BY <1>1, <1>2, <2>2 DEF Places
    <3> QED BY <3>1
  <2> QED BY <1>1, <1>2, <2>1, <2>2 DEF Places
<1> HIDE DEF f
<1> QED BY <1>1, <1>3, <1>4 DEF AllBut

\* What an order-preserving placement preserves.
LEMMA Ordered ==
  ASSUME NEW o, NEW t, NEW f, NEW D \in SUBSET Places(o), Embeds(f, D, o, t), Len(o) \in Nat, Len(t) \in Nat
  PROVE  /\ \A i, j \in D : i <= j <=> f[i] <= f[j]
         /\ \A i, j \in D : i = j <=> f[i] = f[j]
<1>1. \A i \in D : i \in Nat /\ f[i] \in Nat
  BY DEF Embeds, Places
<1>2. \A i, j \in D : (i < j <=> f[i] < f[j]) /\ (j < i <=> f[j] < f[i])
  BY DEF Embeds
<1> QED BY <1>1, <1>2

\* The fields of an object.
LEMMA ObjectFields ==
  ASSUME NEW o \in Seq(Object), NEW i \in Places(o)
  PROVE  /\ o[i] \in Object /\ o[i].version \in Nat /\ o[i].stored \in BOOLEAN
         /\ o[i].of \in Svc \cup {None} /\ o[i].excess \subseteq Svc
         /\ Places(o) = DOMAIN o /\ i \in Nat /\ Len(o) \in Nat
<1>1. Places(o) = DOMAIN o /\ i \in Nat /\ Len(o) \in Nat /\ o[i] \in Object
  BY DEF Places
<1> QED BY <1>1 DEF Object

\* An upload starts: nobody's object moves, and nothing is stored or lost.
LEMMA InsertFits ==
  ASSUME NEW o, NEW p \in [Svc -> Phase], Fits(o, p), NEW s \in Svc, p[s] = "idle",
         version \in Nat, NEW k \in (IF behind THEN 1 ELSE Len(o) + 1)..Len(o) + 1
  PROVE  /\ Fits(InsertAt(o, k, NewObject(s)), [p EXCEPT ![s] = "write"])
         /\ \A v \in Nat : Saves(o, v) => Saves(InsertAt(o, k, NewObject(s)), v)
         /\ \A v \in Nat : Brings(o, v) /\ (s = "server" => v <= version)
                           => Brings(InsertAt(o, k, NewObject(s)), v)
<1> DEFINE e == NewObject(s)
           t == InsertAt(o, k, e)
           q == [p EXCEPT ![s] = "write"]
<1>0. o \in Seq(Object) /\ Len(o) \in Nat /\ k \in 1..Len(o) + 1
  BY DEF Fits
<1>1. /\ e \in Object /\ e.version = version /\ e.stored = FALSE /\ e.of = s /\ e.excess = {}
  BY DEF NewObject, Object
<1>i. t = InsertAt(o, k, e)
  OBVIOUS
<1> HIDE DEF e, t
<1>2. t \in Seq(Object) /\ k \in Places(t) /\ t[k] = e
  BY <1>0, <1>1, <1>i, InsertEmbeds
<1>3. PICK f : /\ Embeds(f, Places(o), o, t)
               /\ \A i \in Places(o) : f[i] # k /\ (i < k => f[i] < k)
               /\ \A m \in Places(t) : m = k \/ \E i \in Places(o) : m = f[i]
  BY <1>0, <1>1, <1>i, InsertEmbeds
<1>4. Len(t) \in Nat /\ f \in [Places(o) -> Places(t)] /\ \A i \in Places(o) : t[f[i]] = o[i]
  BY <1>2, <1>3 DEF Embeds
<1>5. /\ \A i, j \in Places(o) : i <= j <=> f[i] <= f[j]
      /\ \A i, j \in Places(o) : i < j <=> f[i] < f[j]
      /\ \A i, j \in Places(o) : i = j <=> f[i] = f[j]
  BY <1>0, <1>3, <1>4, Ordered DEF Embeds
<1>6. \A i \in Places(o) : o[i].of # s
  BY DEF Fits
<1>7. \A m \in Places(t) : m = k \/ \E i \in Places(o) : m = f[i] /\ t[m] = o[i]
  BY <1>3, <1>4
<1>q. q \in [Svc -> Phase] /\ q[s] = "write" /\ \A u \in Svc \ {s} : q[u] = p[u]
  BY DEF Phase
<1> HIDE DEF q
<1>8. \A m, n \in Places(t) : t[m].of = t[n].of /\ t[m].of # None => m = n
  <2>1. ASSUME NEW m \in Places(t), t[m].of = s PROVE m = k
    BY <1>6, <1>7, <2>1
  <2>2. ASSUME NEW m \in Places(t), NEW n \in Places(t), m # k, n # k, t[m].of = t[n].of, t[m].of # None
        PROVE  m = n
    <3>1. PICK i \in Places(o) : m = f[i] /\ t[m] = o[i]
      BY <1>7, <2>2
    <3>2. PICK j \in Places(o) : n = f[j] /\ t[n] = o[j]
      BY <1>7, <2>2
    <3>3. i = j
      BY <2>2, <3>1, <3>2 DEF Fits
    <3> QED BY <3>1, <3>2, <3>3
  <2> QED BY <1>1, <1>2, <2>1, <2>2
<1>9. \A m \in Places(t) : t[m].of = None => t[m].stored
  BY <1>1, <1>2, <1>7, Svcs DEF Fits
<1>10. \A m \in Places(t), u \in Svc : t[m].of = u =>
         q[u] # "idle" /\ (t[m].stored <=> q[u] # "write") /\ u \notin t[m].excess
  <2> SUFFICES ASSUME NEW m \in Places(t), NEW u \in Svc, t[m].of = u
               PROVE  q[u] # "idle" /\ (t[m].stored <=> q[u] # "write") /\ u \notin t[m].excess
    OBVIOUS
  <2>1. CASE m = k
    BY <1>1, <1>2, <1>q, <2>1
  <2>2. CASE m # k
    <3>1. PICK i \in Places(o) : m = f[i] /\ t[m] = o[i]
      BY <1>7, <2>2
    <3>2. q[u] = p[u]
      BY <1>6, <1>q, <3>1
    <3> QED BY <3>1, <3>2 DEF Fits
  <2> QED BY <2>1, <2>2
<1>11. \A u \in Svc : q[u] = "write" \/ (Alone /\ q[u] # "idle") => \E m \in Places(t) : t[m].of = u
  <2> SUFFICES ASSUME NEW u \in Svc, q[u] = "write" \/ (Alone /\ q[u] # "idle")
               PROVE  \E m \in Places(t) : t[m].of = u
    OBVIOUS
  <2>1. CASE u = s
    BY <1>1, <1>2, <2>1
  <2>2. CASE u # s
    <3>1. PICK i \in Places(o) : o[i].of = u
      BY <1>q, <2>2 DEF Fits
    <3> QED BY <1>4, <3>1
  <2> QED BY <2>1, <2>2
<1>12. \A m \in Places(t) : t[m].version <= version
  BY <1>1, <1>2, <1>7 DEF Fits
<1>13. ~behind => \A m, n \in Places(t) : m <= n => t[m].version <= t[n].version
  <2> SUFFICES ASSUME ~behind, NEW m \in Places(t), NEW n \in Places(t), m <= n
               PROVE  t[m].version <= t[n].version
    OBVIOUS
  <2>1. k = Len(o) + 1
    BY <1>0
  <2>2. CASE n = k
    BY <1>1, <1>2, <1>12, <2>2
  <2>3. CASE n # k
    <3>1. PICK j \in Places(o) : n = f[j] /\ t[n] = o[j]
      BY <1>7, <2>3
    <3>2. f[j] < k
      BY <1>0, <1>3, <2>1 DEF Places
    <3>3. m # k
      BY <1>0, <1>2, <1>4, <3>1, <3>2 DEF Places
    <3>4. PICK i \in Places(o) : m = f[i] /\ t[m] = o[i]
      BY <1>7, <3>3
    <3>5. i <= j
      BY <1>5, <3>1, <3>4
    <3> QED BY <3>1, <3>4, <3>5 DEF Fits
  <2> QED BY <2>2, <2>3
<1>14. Tidy(t)
  <2> SUFFICES ASSUME NEW m \in Places(t), t[m].excess # {}
               PROVE  t[m].stored /\ (Keep > 1 => \E n \in Places(t) : m < n /\ t[n].stored)
    BY DEF Tidy
  <2>1. PICK i \in Places(o) : m = f[i] /\ t[m] = o[i]
    BY <1>1, <1>2, <1>7
  <2>2. o[i].stored /\ (Keep > 1 => \E j \in Places(o) : i < j /\ o[j].stored)
    BY <2>1 DEF Fits, Tidy
  <2> QED BY <1>4, <1>5, <2>1, <2>2
<1>15. Fits(t, q)
  BY <1>2, <1>8, <1>9, <1>10, <1>11, <1>12, <1>13, <1>14 DEF Fits
<1>16. \A v \in Nat : Saves(o, v) => Saves(t, v)
  BY <1>4 DEF Saves
<1>17. \A v \in Nat : Brings(o, v) /\ (s = "server" => v <= version) => Brings(t, v)
  BY <1>1, <1>2, <1>7 DEF Brings
<1> QED BY <1>15, <1>16, <1>17 DEF t, q, e

\* An object is taken out: of an upload that ends, or excess.
LEMMA RemoveFits ==
  ASSUME NEW o, NEW p \in [Svc -> Phase], Fits(o, p), NEW q \in [Svc -> Phase],
         NEW k \in Places(o), NEW t, t = RemoveAt(o, k),
         \A u \in Svc : q[u] = p[u] \/ q[u] = "idle",
         \A u \in Svc, i \in Places(o) : o[i].of = u /\ q[u] = "idle" => i = k,
         \A u \in Svc : o[k].of = u => q[u] = "idle" \/ (q[u] # "write" /\ ~Alone),
         o[k].stored /\ Keep > 1 => \E j \in Places(o) : k < j /\ o[j].stored
  PROVE  /\ Fits(t, q)
         /\ \A v \in Nat : Brings(o, v) => Brings(t, v)
         /\ \A v \in Nat : Saves(o, v) /\ (o[k].stored => Keep > 1 /\ (v = 0 \/ ~behind)) => Saves(t, v)
<1>0. o \in Seq(Object) /\ Len(o) \in Nat
  BY DEF Fits
<1>1. /\ t \in Seq(Object)
      /\ \E f : /\ Embeds(f, AllBut(o, k), o, t)
                /\ \A m \in Places(t) : \E i \in AllBut(o, k) : m = f[i]
  BY <1>0, RemoveEmbeds
<1>2. t \in Seq(Object) /\ Len(t) \in Nat
  BY <1>1
<1>3. PICK f : /\ Embeds(f, Places(o) \ {k}, o, t)
               /\ \A m \in Places(t) : \E i \in Places(o) \ {k} : m = f[i]
  BY <1>1 DEF AllBut
<1>4. f \in [Places(o) \ {k} -> Places(t)] /\ \A i \in Places(o) \ {k} : t[f[i]] = o[i]
  BY <1>3 DEF Embeds
<1> DEFINE D == Places(o) \ {k}
<1>d. D \in SUBSET Places(o) /\ Embeds(f, D, o, t)
  BY <1>3
<1> HIDE DEF D
<1>e. /\ \A i, j \in D : i <= j <=> f[i] <= f[j]
      /\ \A i, j \in D : i = j <=> f[i] = f[j]
  BY <1>0, <1>2, <1>d, Ordered
<1>g. \A i, j \in D : i < j <=> f[i] < f[j]
  BY <1>d DEF Embeds
<1>5. /\ \A i, j \in Places(o) \ {k} : i <= j <=> f[i] <= f[j]
      /\ \A i, j \in Places(o) \ {k} : i < j <=> f[i] < f[j]
      /\ \A i, j \in Places(o) \ {k} : i = j <=> f[i] = f[j]
  BY <1>e, <1>g DEF D
<1>6. \A m \in Places(t) : \E i \in Places(o) \ {k} : m = f[i] /\ t[m] = o[i]
  BY <1>3, <1>4
<1>7. \A i \in Places(o) : i \in Nat
  BY <1>0 DEF Places
<1>8. \A m, n \in Places(t) : t[m].of = t[n].of /\ t[m].of # None => m = n
  <2> SUFFICES ASSUME NEW m \in Places(t), NEW n \in Places(t), t[m].of = t[n].of, t[m].of # None
               PROVE  m = n
    OBVIOUS
  <2>1. PICK i \in Places(o) \ {k} : m = f[i] /\ t[m] = o[i]
    BY <1>6
  <2>2. PICK j \in Places(o) \ {k} : n = f[j] /\ t[n] = o[j]
    BY <1>6
  <2>3. i = j
    BY <2>1, <2>2 DEF Fits
  <2> QED BY <2>1, <2>2, <2>3
<1>9. \A m \in Places(t) : t[m].of = None => t[m].stored
  BY <1>6 DEF Fits
<1>10. \A m \in Places(t), u \in Svc : t[m].of = u =>
         q[u] # "idle" /\ (t[m].stored <=> q[u] # "write") /\ u \notin t[m].excess
  <2> SUFFICES ASSUME NEW m \in Places(t), NEW u \in Svc, t[m].of = u
               PROVE  q[u] # "idle" /\ (t[m].stored <=> q[u] # "write") /\ u \notin t[m].excess
    OBVIOUS
  <2>1. PICK i \in Places(o) \ {k} : m = f[i] /\ t[m] = o[i]
    BY <1>6
  <2>2. q[u] # "idle" /\ q[u] = p[u]
    BY <2>1
  <2> QED BY <2>1, <2>2 DEF Fits
<1>11. \A u \in Svc : q[u] = "write" \/ (Alone /\ q[u] # "idle") => \E m \in Places(t) : t[m].of = u
  <2> SUFFICES ASSUME NEW u \in Svc, q[u] = "write" \/ (Alone /\ q[u] # "idle")
               PROVE  \E m \in Places(t) : t[m].of = u
    OBVIOUS
  <2>1. q[u] = p[u] /\ o[k].of # u
    OBVIOUS
  <2>2. PICK i \in Places(o) : o[i].of = u
    BY <2>1 DEF Fits
  <2>3. i \in Places(o) \ {k}
    BY <2>1, <2>2
  <2> QED BY <1>4, <2>2, <2>3
<1>12. \A m \in Places(t) : t[m].version <= version
  BY <1>6 DEF Fits
<1>13. ~behind => \A m, n \in Places(t) : m <= n => t[m].version <= t[n].version
  <2> SUFFICES ASSUME ~behind, NEW m \in Places(t), NEW n \in Places(t), m <= n
               PROVE  t[m].version <= t[n].version
    OBVIOUS
  <2>1. PICK i \in Places(o) \ {k} : m = f[i] /\ t[m] = o[i]
    BY <1>6
  <2>2. PICK j \in Places(o) \ {k} : n = f[j] /\ t[n] = o[j]
    BY <1>6
  <2>3. i <= j
    BY <1>5, <2>1, <2>2
  <2> QED BY <2>1, <2>2, <2>3 DEF Fits
<1>l. ASSUME NEW i \in Places(o) \ {k}, \E j \in Places(o) : i < j /\ o[j].stored, Keep > 1
      PROVE  \E j \in Places(o) \ {k} : i < j /\ o[j].stored
  <2>1. PICK j \in Places(o) : i < j /\ o[j].stored
    BY <1>l
  <2>2. CASE j = k
    <3>1. PICK l \in Places(o) : k < l /\ o[l].stored
      BY <1>l, <2>1, <2>2
    <3>2. i < l /\ l # k
      BY <1>7, <2>1, <2>2, <3>1
    <3> QED BY <3>1, <3>2
  <2> QED BY <2>1, <2>2
<1>14. Tidy(t)
  <2> SUFFICES ASSUME NEW m \in Places(t), t[m].excess # {}
               PROVE  t[m].stored /\ (Keep > 1 => \E n \in Places(t) : m < n /\ t[n].stored)
    BY DEF Tidy
  <2>1. PICK i \in Places(o) \ {k} : m = f[i] /\ t[m] = o[i]
    BY <1>6
  <2>2. o[i].stored /\ (Keep > 1 => \E j \in Places(o) : i < j /\ o[j].stored)
    BY <2>1 DEF Fits, Tidy
  <2>3. ASSUME Keep > 1 PROVE \E n \in Places(t) : m < n /\ t[n].stored
    <3>1. PICK j \in Places(o) \ {k} : i < j /\ o[j].stored
      BY <1>l, <2>2, <2>3
    <3> QED BY <1>4, <1>5, <2>1, <3>1
  <2> QED BY <2>1, <2>2, <2>3
<1>15. Fits(t, q)
  BY <1>2, <1>8, <1>9, <1>10, <1>11, <1>12, <1>13, <1>14 DEF Fits
<1>16. \A v \in Nat : Brings(o, v) => Brings(t, v)
  BY <1>6 DEF Brings
<1>17. ASSUME NEW v \in Nat, Saves(o, v), o[k].stored => Keep > 1 /\ (v = 0 \/ ~behind)
       PROVE  Saves(t, v)
  <2>1. PICK i \in Places(o) : o[i].stored /\ o[i].version >= v
    BY <1>17 DEF Saves
  <2>2. CASE i # k
    BY <1>4, <2>1, <2>2 DEF Saves
  <2>3. CASE i = k
    <3>1. PICK j \in Places(o) : k < j /\ o[j].stored
      BY <1>17, <2>1, <2>3
    <3>2. j \in Places(o) \ {k} /\ k <= j
      BY <1>7, <3>1
    <3>3. o[j].version \in Nat /\ o[k].version \in Nat
      BY <1>0, ObjectFields
    <3>4. o[j].version >= v
      <4>1. CASE v = 0
        BY <3>3, <4>1
      <4>2. CASE ~behind
        <5>1. o[k].version <= o[j].version
          BY <3>2, <4>2 DEF Fits
        <5> QED BY <2>1, <2>3, <3>3, <5>1
      <4> QED BY <1>17, <2>1, <2>3, <4>1, <4>2
    <3> QED BY <1>4, <3>1, <3>2, <3>4 DEF Saves
  <2> QED BY <2>2, <2>3
<1> QED BY <1>15, <1>16, <1>17

\* Each object stays in its place with its version: one is stored or given up
\* by its upload, some become excess or no longer are.
Redone(o, t, q) ==
  /\ t \in Seq(Object) /\ Len(t) = Len(o)
  /\ \A i \in Places(o) :
       /\ t[i].version = o[i].version
       /\ o[i].stored => t[i].stored
       /\ t[i].of = o[i].of \/ (t[i].of = None /\ t[i].stored)
       /\ \/ t[i].excess \subseteq o[i].excess
          \/ t[i].stored /\ (Keep > 1 => \E j \in Places(o) : i < j /\ t[j].stored)
  /\ \A i \in Places(o), u \in Svc : t[i].of = u =>
       q[u] # "idle" /\ (t[i].stored <=> q[u] # "write") /\ u \notin t[i].excess
  /\ \A u \in Svc : q[u] = "write" \/ (Alone /\ q[u] # "idle") => \E i \in Places(o) : t[i].of = u

LEMMA ChangeFits ==
  ASSUME NEW o, NEW p \in [Svc -> Phase], Fits(o, p),
         NEW q \in [Svc -> Phase], NEW t, Redone(o, t, q)
  PROVE  Fits(t, q) /\ Keeps(o, t)
<1>1. Places(t) = Places(o)
  BY DEF Places, Redone
<1>2. \A i, j \in Places(t) : t[i].of = t[j].of /\ t[i].of # None => i = j
  <2> SUFFICES ASSUME NEW i \in Places(o), NEW j \in Places(o), t[i].of = t[j].of, t[i].of # None
               PROVE  i = j
    BY <1>1
  <2>1. o[i].of = t[i].of /\ o[j].of = t[j].of
    BY DEF Redone
  <2> QED BY <2>1 DEF Fits
<1>3. \A i \in Places(t) : t[i].of = None => t[i].stored
  BY <1>1 DEF Fits, Redone
<1>4. \A i \in Places(t) : t[i].version <= version
  BY <1>1 DEF Fits, Redone
<1>5. ~behind => \A i, j \in Places(t) : i <= j => t[i].version <= t[j].version
  BY <1>1 DEF Fits, Redone
<1>6. Tidy(t)
  <2> SUFFICES ASSUME NEW i \in Places(o), t[i].excess # {}
               PROVE  t[i].stored /\ (Keep > 1 => \E j \in Places(o) : i < j /\ t[j].stored)
    BY <1>1 DEF Tidy
  <2>1. CASE t[i].excess \subseteq o[i].excess
    <3>1. o[i].excess # {}
      BY <2>1
    <3>2. o[i].stored /\ (Keep > 1 => \E j \in Places(o) : i < j /\ o[j].stored)
      BY <3>1 DEF Fits, Tidy
    <3> QED BY <3>2 DEF Redone
  <2>2. CASE ~(t[i].excess \subseteq o[i].excess)
    BY <2>2 DEF Redone
  <2> QED BY <2>1, <2>2
<1>7. Fits(t, q)
  BY <1>1, <1>2, <1>3, <1>4, <1>5, <1>6 DEF Fits, Redone
<1>8. Keeps(o, t)
  BY <1>1, Svcs DEF Keeps, Saves, Brings, Redone
<1> QED BY <1>7, <1>8

\* A function on places is a sequence.
LEMMA Sequence ==
  ASSUME NEW n \in Nat, NEW t \in [1..n -> Object]
  PROVE  t \in Seq(Object) /\ Len(t) = n
OBVIOUS

\* The upload of s ends and its object stays.
LEMMA KeptFits ==
  ASSUME NEW s \in Svc, phase \in [Svc -> Phase], Fits(objects, phase), phase[s] # "write"
  PROVE  Fits(Kept(s), [phase EXCEPT ![s] = "idle"]) /\ Keeps(objects, Kept(s))
<1> DEFINE t == Kept(s)
           q == [phase EXCEPT ![s] = "idle"]
<1>0. objects \in Seq(Object) /\ Len(objects) \in Nat /\ DOMAIN objects = Places(objects)
  BY DEF Fits, Places
<1>1. \A i \in Places(objects) :
        /\ t[i] = IF objects[i].of = s THEN [objects[i] EXCEPT !.of = None] ELSE objects[i]
  BY <1>0 DEF Kept
<1>2. \A i \in Places(objects) :
        /\ t[i] \in Object
        /\ t[i].version = objects[i].version /\ t[i].stored = objects[i].stored
        /\ t[i].excess = objects[i].excess
        /\ t[i].of = IF objects[i].of = s THEN None ELSE objects[i].of
  <2> TAKE i \in Places(objects)
  <2>1. objects[i] \in Object
    BY <1>0, ObjectFields
  <2> QED BY <1>1, <2>1 DEF Object
<1>3. t \in Seq(Object) /\ Len(t) = Len(objects)
  <2>1. t = [i \in Places(objects) |-> t[i]]
    BY <1>0 DEF Kept
  <2>2. t \in [1..Len(objects) -> Object]
    BY <1>2, <2>1 DEF Places
  <2> QED BY <1>0, <2>2, Sequence
<1> HIDE DEF t
<1>4. q \in [Svc -> Phase] /\ q[s] = "idle" /\ \A u \in Svc \ {s} : q[u] = phase[u]
  BY DEF Phase
<1> HIDE DEF q
<1>5. \A i \in Places(objects) : objects[i].of = s => objects[i].stored
  BY DEF Fits
<1>6. \A i \in Places(objects) :
        /\ t[i].version = objects[i].version
        /\ objects[i].stored => t[i].stored
        /\ t[i].of = objects[i].of \/ (t[i].of = None /\ t[i].stored)
        /\ t[i].excess \subseteq objects[i].excess
  BY <1>2, <1>5
<1>7. \A i \in Places(objects), u \in Svc : t[i].of = u =>
        q[u] # "idle" /\ (t[i].stored <=> q[u] # "write") /\ u \notin t[i].excess
  <2> SUFFICES ASSUME NEW i \in Places(objects), NEW u \in Svc, t[i].of = u
               PROVE  q[u] # "idle" /\ (t[i].stored <=> q[u] # "write") /\ u \notin t[i].excess
    OBVIOUS
  <2>1. u # s /\ objects[i].of = u
    BY <1>2, Svcs
  <2>2. q[u] = phase[u]
    BY <1>4, <2>1
  <2>3. phase[u] # "idle" /\ (objects[i].stored <=> phase[u] # "write") /\ u \notin objects[i].excess
    BY <2>1 DEF Fits
  <2> QED BY <1>2, <2>2, <2>3
<1>8. \A u \in Svc : q[u] = "write" \/ (Alone /\ q[u] # "idle") => \E i \in Places(objects) : t[i].of = u
  <2> SUFFICES ASSUME NEW u \in Svc, q[u] = "write" \/ (Alone /\ q[u] # "idle")
               PROVE  \E i \in Places(objects) : t[i].of = u
    OBVIOUS
  <2>1. u # s /\ q[u] = phase[u]
    BY <1>4
  <2>2. PICK i \in Places(objects) : objects[i].of = u
    BY <2>1 DEF Fits
  <2> QED BY <1>2, <2>1, <2>2
<1>9. Fits(t, q) /\ Keeps(objects, t)
  <2>1. Redone(objects, t, q)
    BY <1>3, <1>6, <1>7, <1>8 DEF Redone
  <2> QED BY <1>4, <2>1, ChangeFits
<1> QED BY <1>9 DEF t, q

\* s forgets what it was about to delete.
LEMMA NoExcessFits ==
  ASSUME NEW s \in Svc, NEW o, NEW p \in [Svc -> Phase], Fits(o, p)
  PROVE  Fits(NoExcess(s, o), p) /\ Keeps(o, NoExcess(s, o))
<1> DEFINE t == NoExcess(s, o)
<1>0. o \in Seq(Object) /\ Len(o) \in Nat /\ DOMAIN o = Places(o)
  BY DEF Fits, Places
<1>2. \A i \in Places(o) :
        /\ t[i] \in Object
        /\ t[i].version = o[i].version /\ t[i].stored = o[i].stored /\ t[i].of = o[i].of
        /\ t[i].excess \subseteq o[i].excess
  <2> TAKE i \in Places(o)
  <2>1. o[i] \in Object
    BY <1>0, ObjectFields
  <2>2. t[i] = [o[i] EXCEPT !.excess = @ \ {s}]
    BY <1>0 DEF NoExcess
  <2> QED BY <2>1, <2>2 DEF Object
<1>3. t \in Seq(Object) /\ Len(t) = Len(o)
  <2>1. t = [i \in Places(o) |-> t[i]]
    BY <1>0 DEF NoExcess
  <2>2. t \in [1..Len(o) -> Object]
    BY <1>2, <2>1 DEF Places
  <2> QED BY <1>0, <2>2, Sequence
<1> HIDE DEF t
<1>6. \A i \in Places(o) :
        /\ t[i].version = o[i].version
        /\ o[i].stored => t[i].stored
        /\ t[i].of = o[i].of \/ (t[i].of = None /\ t[i].stored)
        /\ t[i].excess \subseteq o[i].excess
  BY <1>2
<1>7. \A i \in Places(o), u \in Svc : t[i].of = u =>
        p[u] # "idle" /\ (t[i].stored <=> p[u] # "write") /\ u \notin t[i].excess
  BY <1>2 DEF Fits
<1>8. \A u \in Svc : p[u] = "write" \/ (Alone /\ p[u] # "idle") => \E i \in Places(o) : t[i].of = u
  BY <1>2 DEF Fits
<1>9. Fits(t, p) /\ Keeps(o, t)
  <2>1. Redone(o, t, p)
    BY <1>3, <1>6, <1>7, <1>8 DEF Redone
  <2> QED BY <2>1, ChangeFits
<1> QED BY <1>9 DEF t

\* The upload of s ends and its object was never there.
LEMMA DroppedFits ==
  ASSUME NEW s \in Svc, phase \in [Svc -> Phase], Fits(objects, phase), phase[s] = "write"
  PROVE  Fits(Dropped(s), [phase EXCEPT ![s] = "idle"]) /\ Keeps(objects, Dropped(s))
<1> DEFINE k == CHOOSE i \in DOMAIN objects : objects[i].of = s
           t == RemoveAt(objects, k)
           q == [phase EXCEPT ![s] = "idle"]
<1>0. objects \in Seq(Object) /\ DOMAIN objects = Places(objects)
  BY DEF Fits, Places
<1>1. k \in Places(objects) /\ objects[k].of = s
  <2>1. \E i \in DOMAIN objects : objects[i].of = s
    BY <1>0 DEF Fits
  <2> QED BY <1>0, <2>1
<1>2. t = Dropped(s)
  BY DEF Dropped
<1>3. t = RemoveAt(objects, k)
  OBVIOUS
<1> HIDE DEF k, t
<1>4. ~objects[k].stored
  BY <1>1 DEF Fits
<1>5. q \in [Svc -> Phase] /\ q[s] = "idle" /\ \A u \in Svc \ {s} : q[u] = phase[u]
  BY DEF Phase
<1> HIDE DEF q
<1>6. \A u \in Svc : q[u] = phase[u] \/ q[u] = "idle"
  BY <1>5
<1>7. \A u \in Svc, i \in Places(objects) : objects[i].of = u /\ q[u] = "idle" => i = k
  <2> SUFFICES ASSUME NEW u \in Svc, NEW i \in Places(objects), objects[i].of = u, q[u] = "idle"
               PROVE  i = k
    OBVIOUS
  <2>1. u = s
    BY <1>5 DEF Fits
  <2> QED BY <1>1, <2>1, Svcs DEF Fits
<1>8. \A u \in Svc : objects[k].of = u => q[u] = "idle" \/ (q[u] # "write" /\ ~Alone)
  BY <1>1, <1>5
<1>9. /\ Fits(t, q)
      /\ \A v \in Nat : Brings(objects, v) => Brings(t, v)
      /\ \A v \in Nat : Saves(objects, v) /\ (objects[k].stored => Keep > 1 /\ (v = 0 \/ ~behind)) => Saves(t, v)
  BY <1>1, <1>3, <1>4, <1>5, <1>6, <1>7, <1>8, RemoveFits
<1>10. Keeps(objects, t)
  BY <1>4, <1>9 DEF Keeps
<1> QED BY <1>2, <1>9, <1>10 DEF q

\* The object of s is stored: its callers now have what they asked for.
LEMMA WriteFits ==
  ASSUME NEW s \in Svc, phase \in [Svc -> Phase], Fits(objects, phase), WriteSucceeds(s)
  PROVE  /\ Fits(objects', phase') /\ Keeps(objects, objects')
         /\ s = "server" => \A v \in Nat : Brings(objects, v) => Saves(objects', v)
<1> DEFINE t == [i \in DOMAIN objects |->
                   IF objects[i].of = s THEN [objects[i] EXCEPT !.stored = TRUE] ELSE objects[i]]
           q == [phase EXCEPT ![s] = "list"]
<1>0. objects \in Seq(Object) /\ Len(objects) \in Nat /\ DOMAIN objects = Places(objects)
  BY DEF Fits, Places
<1>1. objects' = t /\ phase' = q /\ phase[s] = "write"
  BY DEF WriteSucceeds
<1>2. \A i \in Places(objects) :
        /\ t[i] \in Object
        /\ t[i].version = objects[i].version /\ t[i].of = objects[i].of
        /\ t[i].excess = objects[i].excess
        /\ t[i].stored = (objects[i].stored \/ objects[i].of = s)
  <2> TAKE i \in Places(objects)
  <2>1. objects[i] \in Object
    BY <1>0, ObjectFields
  <2>2. t[i] = IF objects[i].of = s THEN [objects[i] EXCEPT !.stored = TRUE] ELSE objects[i]
    BY <1>0
  <2> HIDE DEF t
  <2> QED BY <2>1, <2>2 DEF Object
<1>3. t \in Seq(Object) /\ Len(t) = Len(objects)
  <2>1. t = [i \in Places(objects) |-> t[i]]
    BY <1>0
  <2>2. t \in [1..Len(objects) -> Object]
    BY <1>2, <2>1 DEF Places
  <2> QED BY <1>0, <2>2, Sequence
<1> HIDE DEF t
<1>4. q \in [Svc -> Phase] /\ q[s] = "list" /\ \A u \in Svc \ {s} : q[u] = phase[u]
  BY DEF Phase
<1> HIDE DEF q
<1>6. \A i \in Places(objects) :
        /\ t[i].version = objects[i].version
        /\ objects[i].stored => t[i].stored
        /\ t[i].of = objects[i].of \/ (t[i].of = None /\ t[i].stored)
        /\ t[i].excess \subseteq objects[i].excess
  BY <1>2
<1>7. \A i \in Places(objects), u \in Svc : t[i].of = u =>
        q[u] # "idle" /\ (t[i].stored <=> q[u] # "write") /\ u \notin t[i].excess
  <2> SUFFICES ASSUME NEW i \in Places(objects), NEW u \in Svc, t[i].of = u
               PROVE  q[u] # "idle" /\ (t[i].stored <=> q[u] # "write") /\ u \notin t[i].excess
    OBVIOUS
  <2>1. phase[u] # "idle" /\ (objects[i].stored <=> phase[u] # "write") /\ u \notin objects[i].excess
    BY <1>2 DEF Fits
  <2>2. CASE u = s
    BY <1>2, <1>4, <2>1, <2>2
  <2>3. CASE u # s
    BY <1>2, <1>4, <2>1, <2>3
  <2> QED BY <2>2, <2>3
<1>8. \A u \in Svc : q[u] = "write" \/ (Alone /\ q[u] # "idle") => \E i \in Places(objects) : t[i].of = u
  <2> SUFFICES ASSUME NEW u \in Svc, q[u] = "write" \/ (Alone /\ q[u] # "idle")
               PROVE  \E i \in Places(objects) : t[i].of = u
    OBVIOUS
  <2>1. phase[u] = "write" \/ (Alone /\ phase[u] # "idle")
    BY <1>1, <1>4
  <2>2. PICK i \in Places(objects) : objects[i].of = u
    BY <2>1 DEF Fits
  <2> QED BY <1>2, <2>2
<1>9. Redone(objects, t, q)
  BY <1>3, <1>6, <1>7, <1>8 DEF Redone
<1>10. Fits(t, q) /\ Keeps(objects, t)
  BY <1>4, <1>9, ChangeFits
<1>11. ASSUME s = "server", NEW v \in Nat, Brings(objects, v) PROVE Saves(t, v)
  <2>1. PICK i \in Places(objects) : objects[i].of = "server"
    BY <1>1, <1>11 DEF Fits
  <2>2. t[i].stored /\ t[i].version >= v /\ i \in Places(t)
    BY <1>2, <1>3, <1>11, <2>1 DEF Brings, Places
  <2> QED BY <2>2 DEF Saves
<1> QED BY <1>1, <1>10, <1>11

\* prune() chooses nothing of its own, and with KEEP > 1 never the newest.
LEMMA ListsFits ==
  ASSUME NEW s \in Svc, phase \in [Svc -> Phase], Fits(objects, phase), Lists(s)
  PROVE  Fits(objects', phase') /\ Keeps(objects, objects')
<1> DEFINE doomed == Excess(s)
           t == [i \in DOMAIN objects |->
                   IF i \in doomed THEN [objects[i] EXCEPT !.excess = @ \cup {s}] ELSE objects[i]]
           q == [phase EXCEPT ![s] = "prune"]
<1>0. objects \in Seq(Object) /\ Len(objects) \in Nat /\ DOMAIN objects = Places(objects)
  BY DEF Fits, Places
<1>1. objects' = t /\ phase' = q /\ phase[s] = "list"
  BY DEF Lists
<1>d. \A i \in doomed : i \in Places(objects) /\ objects[i].stored /\ objects[i].of # s
  BY <1>0 DEF Excess
<1>l. ASSUME NEW i \in doomed, Keep > 1 PROVE \E j \in Places(objects) : i < j /\ objects[j].stored
  <2> DEFINE later == {j \in {l \in DOMAIN objects : objects[l].stored /\ objects[l].of # s} : j > i}
  <2>1. Cardinality(later) >= Keep - 1
    BY DEF Excess
  <2>2. later # {}
    <3> SUFFICES ASSUME later = {} PROVE FALSE
      OBVIOUS
    <3>1. Cardinality(later) = 0
      BY FS_EmptySet
    <3> HIDE DEF later
    <3> QED BY <1>l, <2>1, <3>1, Svcs
  <2>3. PICK j \in later : TRUE
    BY <2>2
  <2>4. j \in Places(objects) /\ objects[j].stored /\ j > i
    BY <1>0, <2>3
  <2>5. i \in Nat /\ j \in Nat
    BY <1>d, <2>4 DEF Places
  <2> QED BY <2>4, <2>5
<1> HIDE DEF doomed
<1>2. \A i \in Places(objects) :
        /\ t[i] \in Object
        /\ t[i].version = objects[i].version /\ t[i].of = objects[i].of
        /\ t[i].stored = objects[i].stored
        /\ t[i].excess = IF i \in doomed THEN objects[i].excess \cup {s} ELSE objects[i].excess
  <2> TAKE i \in Places(objects)
  <2>1. objects[i] \in Object
    BY <1>0, ObjectFields
  <2>2. t[i] = IF i \in doomed THEN [objects[i] EXCEPT !.excess = @ \cup {s}] ELSE objects[i]
    BY <1>0
  <2> HIDE DEF t
  <2> QED BY <2>1, <2>2 DEF Object
<1>3. t \in Seq(Object) /\ Len(t) = Len(objects)
  <2>1. t = [i \in Places(objects) |-> t[i]]
    BY <1>0
  <2>2. t \in [1..Len(objects) -> Object]
    BY <1>2, <2>1 DEF Places
  <2> QED BY <1>0, <2>2, Sequence
<1> HIDE DEF t
<1>4. q \in [Svc -> Phase] /\ q[s] = "prune" /\ \A u \in Svc \ {s} : q[u] = phase[u]
  BY DEF Phase
<1> HIDE DEF q
<1>6. ASSUME NEW i \in Places(objects)
      PROVE  /\ t[i].version = objects[i].version
             /\ objects[i].stored => t[i].stored
             /\ t[i].of = objects[i].of \/ (t[i].of = None /\ t[i].stored)
             /\ \/ t[i].excess \subseteq objects[i].excess
                \/ t[i].stored /\ (Keep > 1 => \E j \in Places(objects) : i < j /\ t[j].stored)
  <2>1. CASE i \in doomed
    <3>1. Keep > 1 => \E j \in Places(objects) : i < j /\ t[j].stored
      BY <1>2, <1>l, <2>1
    <3> QED BY <1>2, <1>d, <2>1, <3>1
  <2>2. CASE i \notin doomed
    BY <1>2, <2>2
  <2> QED BY <2>1, <2>2
<1>7. \A i \in Places(objects), u \in Svc : t[i].of = u =>
        q[u] # "idle" /\ (t[i].stored <=> q[u] # "write") /\ u \notin t[i].excess
  <2> SUFFICES ASSUME NEW i \in Places(objects), NEW u \in Svc, t[i].of = u
               PROVE  q[u] # "idle" /\ (t[i].stored <=> q[u] # "write") /\ u \notin t[i].excess
    OBVIOUS
  <2>1. phase[u] # "idle" /\ (objects[i].stored <=> phase[u] # "write") /\ u \notin objects[i].excess
    BY <1>2 DEF Fits
  <2>2. CASE u = s
    <3>1. i \notin doomed
      BY <1>2, <1>d, <2>2
    <3> QED BY <1>1, <1>2, <1>4, <2>1, <2>2, <3>1
  <2>3. CASE u # s
    BY <1>2, <1>4, <2>1, <2>3
  <2> QED BY <2>2, <2>3
<1>8. \A u \in Svc : q[u] = "write" \/ (Alone /\ q[u] # "idle") => \E i \in Places(objects) : t[i].of = u
  <2> SUFFICES ASSUME NEW u \in Svc, q[u] = "write" \/ (Alone /\ q[u] # "idle")
               PROVE  \E i \in Places(objects) : t[i].of = u
    OBVIOUS
  <2>1. phase[u] = "write" \/ (Alone /\ phase[u] # "idle")
    BY <1>1, <1>4
  <2>2. PICK i \in Places(objects) : objects[i].of = u
    BY <2>1 DEF Fits
  <2> QED BY <1>2, <2>2
<1>9. Redone(objects, t, q)
  BY <1>3, <1>6, <1>7, <1>8 DEF Redone
<1> QED BY <1>1, <1>4, <1>9, ChangeFits

\* prune() deletes: with KEEP > 1 a later backup stays, alone its own does.
LEMMA DeletesFits ==
  ASSUME NEW s \in Svc, phase \in [Svc -> Phase], Fits(objects, phase), Deletes(s),
         Alone => phase["cli"] = "idle"
  PROVE  /\ Fits(objects', phase)
         /\ \A v \in Nat : Brings(objects, v) => Brings(objects', v)
         /\ \A v \in Nat : Saves(objects, v) /\ Keep > 1 /\ (v = 0 \/ ~behind) => Saves(objects', v)
         /\ Alone => Saves(objects', 0)
<1>0. objects \in Seq(Object) /\ DOMAIN objects = Places(objects)
  BY DEF Fits, Places
<1>1. PICK k \in Doomed(s) : objects' = RemoveAt(objects, k)
  BY DEF Deletes
<1>2. k \in Places(objects) /\ s \in objects[k].excess /\ phase[s] = "prune"
  BY <1>0 DEF Doomed, Deletes
<1>3. objects[k].stored /\ (Keep > 1 => \E j \in Places(objects) : k < j /\ objects[j].stored)
  BY <1>2 DEF Fits, Tidy
<1>4. \A u \in Svc, i \in Places(objects) : objects[i].of = u /\ phase[u] = "idle" => i = k
  BY DEF Fits
<1>5. ASSUME NEW u \in Svc, objects[k].of = u PROVE phase[u] # "write" /\ ~Alone
  <2>1. phase[u] # "idle" /\ phase[u] # "write" /\ u # s
    BY <1>2, <1>3, <1>5 DEF Fits
  <2> QED BY <1>2, <2>1 DEF Svc
<1> DEFINE t == objects'
<1>t. t = RemoveAt(objects, k)
  BY <1>1
<1> HIDE DEF t
<1>6. /\ Fits(t, phase)
      /\ \A v \in Nat : Brings(objects, v) => Brings(t, v)
      /\ \A v \in Nat : Saves(objects, v) /\ (objects[k].stored => Keep > 1 /\ (v = 0 \/ ~behind)) => Saves(t, v)
  BY <1>2, <1>3, <1>4, <1>5, <1>t, RemoveFits
<1>7. ASSUME Alone PROVE Saves(t, 0)
  <2>1. PICK i \in Places(t) : t[i].of = s
    BY <1>2, <1>6, <1>7 DEF Fits
  <2>2. t[i].stored
    BY <1>2, <1>6, <2>1 DEF Fits
  <2>3. t[i].version \in Nat
    BY <1>6, ObjectFields DEF Fits
  <2> QED BY <2>2, <2>3 DEF Saves
<1> QED BY <1>6, <1>7 DEF t

\* What the callers of the upload under way can count on.
AskedInv ==
  \A c \in Call :
    /\ asked[c] <= version
    /\ call[c] = "upload" => Brings(objects, asked[c])
    /\ call[c] = "upload" /\ phase["server"] \in {"list", "prune"} /\ Keep > 1 /\ ~behind
         => Saves(objects, asked[c])

StoreTypes ==
  /\ version \in Nat
  /\ behind \in BOOLEAN
  /\ asked \in [Call -> Nat]
  /\ budget \in [Events -> Nat]

AloneInv == Alone => budget["run"] = 0 /\ phase["cli"] = "idle"

StoreInv == StoreTypes /\ Fits(objects, phase) /\ AloneInv /\ AskedInv

UploadInv == RunInv /\ StoreInv

\* The store loses its last backup only with KEEP=1 and a second service.
StaysStored == (Keep > 1 \/ Alone) /\ Saves(objects, 0) => Saves(objects', 0)

\* What a step does that leaves the version and the clock alone.
Advances ==
  /\ Fits(objects', phase')
  /\ \A c \in Call :
       /\ asked'[c] <= version
       /\ call'[c] = "upload" => Brings(objects', asked'[c])
       /\ call'[c] = "upload" /\ phase'["server"] \in {"list", "prune"} /\ Keep > 1 /\ ~behind
            => Saves(objects', asked'[c])
  /\ StaysStored

\* What the steps use of the invariant.
LEMMA UploadFacts ==
  ASSUME UploadInv
  PROVE  /\ phase \in [Svc -> Phase] /\ Fits(objects, phase) /\ version \in Nat
         /\ \A c \in Call : asked[c] \in Nat
         /\ phase["server"] = "idle" => \A c \in Call : call[c] # "upload"
BY DEF UploadInv, RunInv, RunTypes, WaitersHaveARun, StoreInv, StoreTypes, Phase

\* Nobody waits for the upload that s starts but those who asked just now.
LEMMA UploadsAdvances ==
  ASSUME UploadInv, NEW s \in Svc, NEW o, NEW p \in [Svc -> Phase], Fits(o, p),
         p[s] = "idle", UploadsTo(s, o), phase' = [p EXCEPT ![s] = "write"],
         Saves(objects, 0) => Saves(o, 0),
         \A c \in Call : /\ asked'[c] \in Nat /\ asked'[c] <= version
                         /\ call'[c] = "upload" => Brings(o, asked'[c]),
         s = "cli" => /\ \A c \in Call : asked'[c] = asked[c] /\ call'[c] = call[c]
                      /\ o = objects /\ p = phase
  PROVE  Advances
<1>1. PICK k \in (IF behind THEN 1 ELSE Len(o) + 1)..Len(o) + 1 : objects' = InsertAt(o, k, NewObject(s))
  BY DEF UploadsTo
<1>2. /\ Fits(objects', phase')
      /\ \A v \in Nat : Saves(o, v) => Saves(objects', v)
      /\ \A v \in Nat : Brings(o, v) /\ (s = "server" => v <= version) => Brings(objects', v)
  BY <1>1, InsertFits, UploadFacts
<1>3. ASSUME NEW c \in Call
      PROVE  /\ asked'[c] <= version
             /\ call'[c] = "upload" => Brings(objects', asked'[c])
  BY <1>2
<1>4. ASSUME NEW c \in Call, call'[c] = "upload", phase'["server"] \in {"list", "prune"}, Keep > 1, ~behind
      PROVE  Saves(objects', asked'[c])
  <2>1. s = "cli"
    BY <1>4 DEF Svc
  <2>2. phase'["server"] = phase["server"]
    BY <2>1, Svcs
  <2>3. Saves(objects, asked[c])
    BY <1>4, <2>1, <2>2 DEF UploadInv, StoreInv, AskedInv
  <2> QED BY <1>2, <2>1, <2>3
<1>5. StaysStored
  BY <1>2 DEF StaysStored
<1> QED BY <1>2, <1>3, <1>4, <1>5 DEF Advances

\* runNow() starts an upload for its caller, or has one follow.
LEMMA RunNowAdvances ==
  ASSUME UploadInv, RunNow,
         \A c \in Call :
           \/ call'[c] = call[c] /\ asked'[c] = asked[c]
           \/ /\ call'[c] = IF phase["server"] = "idle" THEN "upload" ELSE "followUp"
              /\ asked'[c] = version
  PROVE  Advances
<1>1. CASE phase["server"] = "idle"
  <2>1. UploadsTo("server", objects)
    BY <1>1 DEF RunNow, Uploads
  <2>2. phase' = [phase EXCEPT !["server"] = "write"]
    BY <2>1 DEF UploadsTo
  <2>3. \A v : Brings(objects, v)
    BY <1>1, UploadFacts, Svcs DEF Fits, Brings
  <2>4. \A c \in Call : asked'[c] \in Nat /\ asked'[c] <= version
    BY UploadFacts DEF UploadInv, StoreInv, AskedInv
  <2> QED BY <1>1, <2>1, <2>2, <2>3, <2>4, UploadFacts, UploadsAdvances, Svcs
<1>2. CASE phase["server"] # "idle"
  <2>1. phase' = phase /\ objects' = objects
    BY <1>2 DEF RunNow, uploadVars
  <2>2. ASSUME NEW c \in Call
        PROVE  /\ asked'[c] <= version
               /\ call'[c] = "upload" => call[c] = "upload" /\ asked'[c] = asked[c]
    BY <1>2, UploadFacts DEF UploadInv, StoreInv, AskedInv
  <2> QED BY <2>1, <2>2, UploadFacts DEF Advances, StaysStored, UploadInv, StoreInv, AskedInv
<1> QED BY <1>1, <1>2

\* A step that ends no upload and keeps what the objects promise.
LEMMA KeepsAdvances ==
  ASSUME UploadInv, Fits(objects', phase'), call' = call, asked' = asked,
         \A v \in Nat : Brings(objects, v) => Brings(objects', v),
         \A v \in Nat : Saves(objects, v) /\ Keep > 1 /\ (v = 0 \/ ~behind) => Saves(objects', v),
         Alone => (Saves(objects, 0) => Saves(objects', 0)),
         \/ phase'["server"] \in {"list", "prune"} => phase["server"] \in {"list", "prune"}
         \/ \A v \in Nat : Brings(objects, v) => Saves(objects', v)
  PROVE  Advances
<1>1. ASSUME NEW c \in Call
      PROVE  /\ asked'[c] <= version
             /\ call'[c] = "upload" => Brings(objects', asked'[c])
             /\ call'[c] = "upload" /\ phase'["server"] \in {"list", "prune"} /\ Keep > 1 /\ ~behind
                  => Saves(objects', asked'[c])
  <2>1. /\ asked[c] \in Nat /\ asked[c] <= version
        /\ call[c] = "upload" => Brings(objects, asked[c])
        /\ call[c] = "upload" /\ phase["server"] \in {"list", "prune"} /\ Keep > 1 /\ ~behind
             => Saves(objects, asked[c])
    BY UploadFacts DEF UploadInv, StoreInv, AskedInv
  <2> QED BY <2>1
<1>2. StaysStored
  BY DEF StaysStored
<1> QED BY <1>1, <1>2 DEF Advances

\* The end of an upload that leaves objs.
LEMMA SettlesAdvances ==
  ASSUME UploadInv, NEW s \in Svc, NEW result \in {"ok", "failed"}, NEW objs,
         Settles(s, result, objs), asked' = asked,
         Fits(objs, [phase EXCEPT ![s] = "idle"]), Keeps(objects, objs)
  PROVE  Advances
<1> DEFINE q == [phase EXCEPT ![s] = "idle"]
<1>1. q \in [Svc -> Phase] /\ q[s] = "idle" /\ \A u \in Svc \ {s} : q[u] = phase[u]
  BY UploadFacts DEF Phase
<1>2. Fits(objs, q)
  OBVIOUS
<1>3. CASE s = "server" /\ followUp
  <2>1. UploadsTo(s, objs) /\ phase' = [phase EXCEPT ![s] = "write"]
    BY <1>3 DEF Settles, UploadsTo
  <2>2. phase' = [q EXCEPT ![s] = "write"]
    BY <2>1, UploadFacts
  <2> HIDE DEF q
  <2>3. \A v : Brings(objs, v)
    BY <1>1, <1>2, <1>3 DEF Fits, Brings
  <2>4. \A c \in Call : asked'[c] \in Nat /\ asked'[c] <= version
    BY UploadFacts DEF UploadInv, StoreInv, AskedInv
  <2>5. Saves(objects, 0) => Saves(objs, 0)
    BY DEF Keeps
  <2> QED BY <1>1, <1>2, <1>3, <2>1, <2>2, <2>3, <2>4, <2>5, UploadsAdvances, Svcs
<1>4. CASE ~(s = "server" /\ followUp)
  <2>1. /\ objects' = objs /\ phase' = q
        /\ call' = [c \in Call |-> IF s = "server" /\ call[c] = "upload" THEN result ELSE call[c]]
    BY <1>4 DEF Settles
  <2> HIDE DEF q
  <2>2. ASSUME NEW c \in Call
        PROVE  /\ asked[c] \in Nat /\ asked[c] <= version
               /\ call[c] = "upload" => Brings(objects, asked[c])
               /\ call[c] = "upload" /\ phase["server"] \in {"list", "prune"} /\ Keep > 1 /\ ~behind
                    => Saves(objects, asked[c])
    BY UploadFacts DEF UploadInv, StoreInv, AskedInv
  <2>3. \A c \in Call : call'[c] = "upload" => s # "server" /\ call[c] = "upload"
    BY <2>1
  <2>4. s # "server" => phase'["server"] = phase["server"]
    BY <1>1, <2>1, Svcs
  <2>5. ASSUME NEW c \in Call
        PROVE  /\ asked'[c] <= version
               /\ call'[c] = "upload" => Brings(objects', asked'[c])
               /\ call'[c] = "upload" /\ phase'["server"] \in {"list", "prune"} /\ Keep > 1 /\ ~behind
                    => Saves(objects', asked'[c])
    BY <2>1, <2>2, <2>3, <2>4 DEF Keeps
  <2>6. StaysStored
    BY <2>1 DEF StaysStored, Keeps
  <2> QED BY <1>2, <2>1, <2>5, <2>6 DEF Advances
<1> QED BY <1>3, <1>4

\* The steps of an upload.
LEMMA SvcAdvances ==
  ASSUME UploadInv, NEW s \in Svc, SvcStep(s)
  PROVE  Advances
<1>1. CASE WriteSucceeds(s)
  <2>1. /\ Fits(objects', phase') /\ Keeps(objects, objects')
        /\ s = "server" => \A v \in Nat : Brings(objects, v) => Saves(objects', v)
    BY <1>1, WriteFits, UploadFacts
  <2>2. phase' = [phase EXCEPT ![s] = "list"] /\ call' = call /\ asked' = asked
    BY <1>1 DEF WriteSucceeds, callVars
  <2>3. s = "cli" => phase'["server"] = phase["server"]
    BY <2>2, UploadFacts, Svcs
  <2>4. 0 \in Nat
    OBVIOUS
  <2>5. s = "cli" \/ s = "server"
    BY DEF Svc
  <2> QED BY <2>1, <2>2, <2>3, <2>4, <2>5, KeepsAdvances DEF Keeps
<1>2. CASE Lists(s)
  <2>1. Fits(objects', phase') /\ Keeps(objects, objects')
    BY <1>2, ListsFits, UploadFacts
  <2>2. phase' = [phase EXCEPT ![s] = "prune"] /\ phase[s] = "list" /\ call' = call /\ asked' = asked
    BY <1>2 DEF Lists, callVars
  <2>3. phase'["server"] \in {"list", "prune"} => phase["server"] \in {"list", "prune"}
    BY <2>2, UploadFacts, Svcs
  <2>4. 0 \in Nat
    OBVIOUS
  <2> QED BY <2>1, <2>2, <2>3, <2>4, KeepsAdvances DEF Keeps
<1>3. CASE Deletes(s)
  <2>1. /\ Fits(objects', phase)
        /\ \A v \in Nat : Brings(objects, v) => Brings(objects', v)
        /\ \A v \in Nat : Saves(objects, v) /\ Keep > 1 /\ (v = 0 \/ ~behind) => Saves(objects', v)
        /\ Alone => Saves(objects', 0)
    BY <1>3, DeletesFits, UploadFacts DEF UploadInv, StoreInv, AloneInv
  <2>2. phase' = phase /\ call' = call /\ asked' = asked
    BY <1>3 DEF Deletes, callVars
  <2> QED BY <2>1, <2>2, KeepsAdvances
<1>4. CASE WriteFails(s)
  BY <1>4, DroppedFits, UploadFacts, SettlesAdvances DEF WriteFails
<1>5. CASE ListFails(s)
  BY <1>5, KeptFits, UploadFacts, SettlesAdvances DEF ListFails
<1>6. CASE DeleteFails(s)
  <2>1. Fits(Kept(s), [phase EXCEPT ![s] = "idle"]) /\ Keeps(objects, Kept(s))
    BY <1>6, KeptFits, UploadFacts DEF DeleteFails
  <2>2. [phase EXCEPT ![s] = "idle"] \in [Svc -> Phase]
    BY UploadFacts DEF Phase
  <2>3. /\ Fits(NoExcess(s, Kept(s)), [phase EXCEPT ![s] = "idle"])
        /\ Keeps(Kept(s), NoExcess(s, Kept(s)))
    BY <2>1, <2>2, NoExcessFits
  <2>4. Keeps(objects, NoExcess(s, Kept(s)))
    BY <2>1, <2>3 DEF Keeps
  <2> QED BY <1>6, <2>3, <2>4, SettlesAdvances DEF DeleteFails
<1>7. CASE Finishes(s)
  BY <1>7, KeptFits, UploadFacts, SettlesAdvances DEF Finishes
<1> QED BY <1>1, <1>2, <1>3, <1>4, <1>5, <1>6, <1>7 DEF SvcStep

\* A restart fails every caller and leaves what is stored.
LEMMA RestartAdvances == ASSUME UploadInv, Restart PROVE Advances
<1> DEFINE base == IF phase["server"] = "write" THEN Dropped("server") ELSE Kept("server")
           left == NoExcess("server", base)
           q == [phase EXCEPT !["server"] = "idle"]
<1>1. Fits(base, q) /\ Keeps(objects, base)
  BY DroppedFits, KeptFits, UploadFacts, Svcs
<1>2. q \in [Svc -> Phase] /\ q["server"] = "idle"
  BY UploadFacts, Svcs DEF Phase
<1> HIDE DEF base
<1>3. Fits(left, q) /\ Keeps(base, left)
  BY <1>1, <1>2, NoExcessFits, Svcs
<1>4. Keeps(objects, left)
  BY <1>1, <1>3 DEF Keeps
<1>5. \/ UploadsTo("server", left)
      \/ phase' = q /\ objects' = left
  BY DEF Restart, base
<1> HIDE DEF left
<1>6. \A c \in Call : call'[c] # "upload" /\ asked'[c] = asked[c]
  BY DEF Restart
<1>7. \A c \in Call : asked'[c] \in Nat /\ asked'[c] <= version
  BY <1>6, UploadFacts DEF UploadInv, StoreInv, AskedInv
<1>8. Saves(objects, 0) => Saves(left, 0)
  BY <1>4 DEF Keeps
<1>9. CASE UploadsTo("server", left)
  <2>1. phase' = [q EXCEPT !["server"] = "write"]
    BY <1>9, UploadFacts DEF UploadsTo
  <2> HIDE DEF q
  <2> QED BY <1>2, <1>3, <1>6, <1>7, <1>8, <1>9, <2>1, UploadsAdvances, Svcs
<1>10. CASE phase' = q /\ objects' = left
  <2> HIDE DEF q
  <2> QED BY <1>3, <1>6, <1>7, <1>8, <1>10 DEF Advances, StaysStored
<1> QED BY <1>5, <1>9, <1>10

\* The changes of a caller are stored, if the upload that answers it found its
\* own backup still there or had no reason to miss it.
LEMMA FinishesSaves ==
  ASSUME UploadInv, NEW s \in Svc, Finishes(s), NEW c \in Call, call[c] # "ok", call'[c] = "ok"
  PROVE  Saves(objects', asked[c]) \/ (Lost /\ (behind \/ Keep = 1))
<1> DEFINE q == [phase EXCEPT ![s] = "idle"]
<1>1. phase[s] = "prune" /\ Settles(s, "ok", Kept(s))
  BY DEF Finishes
<1>2. s = "server" /\ call[c] = "upload"
  <2>1. CASE s = "server" /\ followUp
    <3>1. call'[c] = CASE call[c] = "upload" -> "ok"
                       [] call[c] = "followUp" -> "upload"
                       [] OTHER -> call[c]
      BY <1>1, <2>1 DEF Settles
    <3> QED BY <2>1, <3>1
  <2>2. CASE ~(s = "server" /\ followUp)
    <3>1. call'[c] = IF s = "server" /\ call[c] = "upload" THEN "ok" ELSE call[c]
      BY <1>1, <2>2 DEF Settles
    <3> QED BY <3>1
  <2> QED BY <2>1, <2>2
<1>3. Fits(Kept(s), q) /\ Keeps(objects, Kept(s))
  BY <1>1, KeptFits, UploadFacts
<1>4. q \in [Svc -> Phase] /\ q[s] = "idle"
  BY UploadFacts DEF Phase
<1>5. \A v \in Nat : Saves(Kept(s), v) => Saves(objects', v)
  <2>1. CASE followUp
    <3>1. PICK k \in (IF behind THEN 1 ELSE Len(Kept(s)) + 1)..Len(Kept(s)) + 1 :
                 objects' = InsertAt(Kept(s), k, NewObject(s))
      BY <1>1, <1>2, <2>1 DEF Settles, UploadsTo
    <3> HIDE DEF q
    <3> QED BY <1>3, <1>4, <3>1, InsertFits, UploadFacts
  <2>2. CASE ~followUp
    BY <1>1, <2>2 DEF Settles
  <2> QED BY <2>1, <2>2
<1>6. asked[c] \in Nat
  BY UploadFacts
<1>7. CASE ~Lost
  <2>0. DOMAIN objects = Places(objects)
    BY UploadFacts DEF Fits, Places
  <2>1. PICK i \in Places(objects) : objects[i].of = "server"
    BY <1>7, <2>0 DEF Lost
  <2>2. objects[i].stored
    BY <1>1, <1>2, <2>1, UploadFacts DEF Fits
  <2>3. objects[i].version >= asked[c]
    BY <1>2, <2>1 DEF UploadInv, StoreInv, AskedInv, Brings
  <2>4. Saves(objects, asked[c])
    BY <2>2, <2>3 DEF Saves
  <2> QED BY <1>3, <1>5, <1>6, <2>4 DEF Keeps
<1>8. CASE ~behind /\ Keep # 1
  <2>1. Keep > 1
    BY <1>8, Svcs
  <2>2. Saves(objects, asked[c])
    BY <1>1, <1>2, <1>8, <2>1 DEF UploadInv, StoreInv, AskedInv
  <2> QED BY <1>3, <1>5, <1>6, <2>2 DEF Keeps
<1> QED BY <1>7, <1>8

\* Each step advances the uploads, or is a change, a clock step or no step.
LEMMA NextAdvances ==
  ASSUME UploadInv, [Next]_vars
  PROVE  \/ UNCHANGED <<version, behind>> /\ Advances
         \/ UNCHANGED <<objects, phase, call, asked>> /\ version' \in Nat /\ version' >= version
            /\ behind' \in BOOLEAN /\ (behind => behind')
<1>v. version \in Nat /\ behind \in BOOLEAN
  BY DEF UploadInv, StoreInv, StoreTypes
<1>1. CASE (\E route \in Routes : ApiChange(route)) \/ CliChange
  BY <1>1, <1>v DEF ApiChange, CliChange, Changed, uploadVars, callVars
<1>2. CASE ClockStepsBack
  <2>1. /\ objects' = objects /\ phase' = phase /\ call' = call /\ asked' = asked
        /\ version' = version /\ behind' = TRUE
    BY <1>2 DEF ClockStepsBack, uploadVars, callVars
  <2>2. version' >= version
    BY <1>v, <2>1
  <2> QED BY <1>v, <2>1, <2>2
<1>3. CASE \E c \in Call : RequestBackup(c)
  <2> PICK c \in Call : RequestBackup(c)
    BY <1>3
  <2>1. /\ call' = [call EXCEPT ![c] = IF phase["server"] = "idle" THEN "upload" ELSE "followUp"]
        /\ asked' = [asked EXCEPT ![c] = version]
        /\ RunNow /\ UNCHANGED <<version, behind>>
    BY DEF RequestBackup
  <2>2. call \in [Call -> CallState] /\ asked \in [Call -> Nat]
    BY DEF UploadInv, RunInv, RunTypes, StoreInv, StoreTypes
  <2>3. \A d \in Call :
           \/ call'[d] = call[d] /\ asked'[d] = asked[d]
           \/ /\ call'[d] = IF phase["server"] = "idle" THEN "upload" ELSE "followUp"
              /\ asked'[d] = version
    BY <2>1, <2>2
  <2> QED BY <2>1, <2>3, RunNowAdvances
<1>4. CASE DebounceFires \/ ScheduledRun
  <2>1. RunNow /\ call' = call /\ asked' = asked /\ UNCHANGED <<version, behind>>
    BY <1>4 DEF DebounceFires, ScheduledRun, callVars
  <2> QED BY <2>1, RunNowAdvances
<1>5. CASE CliBackup
  <2>1. /\ phase["cli"] = "idle" /\ UploadsTo("cli", objects)
        /\ phase' = [phase EXCEPT !["cli"] = "write"]
        /\ call' = call /\ asked' = asked /\ UNCHANGED <<version, behind>>
    BY <1>5 DEF CliBackup, Uploads, UploadsTo, callVars
  <2>2. \A c \in Call : /\ asked[c] \in Nat /\ asked[c] <= version
                        /\ call[c] = "upload" => Brings(objects, asked[c])
    BY UploadFacts DEF UploadInv, StoreInv, AskedInv
  <2> QED BY <2>1, <2>2, UploadFacts, UploadsAdvances, Svcs
<1>6. CASE \E s \in Svc : SvcStep(s)
  <2> PICK s \in Svc : SvcStep(s)
    BY <1>6
  <2>1. UNCHANGED <<version, behind>>
    BY DEF SvcStep, WriteSucceeds, WriteFails, Lists, ListFails, Deletes, DeleteFails, Finishes
  <2> QED BY <2>1, SvcAdvances
<1>7. CASE Restart
  BY <1>7, RestartAdvances DEF Restart
<1>8. CASE UNCHANGED vars
  BY <1>8, <1>v DEF vars, uploadVars, callVars
<1> QED BY <1>1, <1>2, <1>3, <1>4, <1>5, <1>6, <1>7, <1>8 DEF Next

\* Only the server has a service, and no `backup-control` will start one.
LEMMA NextAlone ==
  ASSUME UploadInv, [Next]_vars
  PROVE  budget' \in [Events -> Nat] /\ AloneInv'
<1>1. budget \in [Events -> Nat] /\ phase \in [Svc -> Phase]
  BY UploadFacts DEF UploadInv, StoreInv, StoreTypes
<1>2. budget' = budget \/ \E e \in Events : Happens(e)
  <2>1. CASE \E s \in Svc : SvcStep(s)
    <3> PICK s \in Svc : SvcStep(s)
      BY <2>1
    <3>1. \/ budget' = budget
          \/ Happens("fail")
      BY DEF SvcStep, WriteSucceeds, WriteFails, Lists, ListFails, Deletes, DeleteFails, Finishes
    <3> QED BY <3>1 DEF Events
  <2>2. CASE CliChange \/ CliBackup \/ Restart
    <3>1. Happens("cli") \/ Happens("run") \/ Happens("boot")
      BY <2>2 DEF CliChange, CliBackup, Restart
    <3> QED BY <3>1 DEF Events
  <2>3. CASE \/ \E route \in Routes : ApiChange(route)
             \/ ClockStepsBack
             \/ \E c \in Call : RequestBackup(c)
             \/ DebounceFires \/ ScheduledRun \/ UNCHANGED vars
    BY <2>3 DEF ApiChange, ClockStepsBack, RequestBackup, DebounceFires, ScheduledRun, vars
  <2> QED BY <2>1, <2>2, <2>3 DEF Next
<1>3. budget' \in [Events -> Nat]
  BY <1>1, <1>2 DEF Happens
<1>4. ASSUME Alone PROVE budget'["run"] = 0 /\ phase'["cli"] = "idle"
  <2>1. budget["run"] = 0 /\ phase["cli"] = "idle"
    BY <1>4 DEF UploadInv, StoreInv, AloneInv
  <2>2. budget'["run"] = 0
    <3>1. CASE budget' = budget
      BY <2>1, <3>1
    <3>2. CASE \E e \in Events : Happens(e)
      <4> PICK e \in Events : Happens(e)
        BY <3>2
      <4>1. e # "run"
        BY <1>1, <2>1 DEF Happens
      <4> QED BY <1>1, <2>1, <4>1 DEF Happens, Events
    <3> QED BY <1>2, <3>1, <3>2
  <2>3. ~CliBackup /\ ~SvcStep("cli")
    BY <1>1, <2>1 DEF CliBackup, Happens, SvcStep, WriteSucceeds, WriteFails, Lists, ListFails,
       Deletes, DeleteFails, Finishes
  <2>4. \/ phase' = phase
        \/ \E p : phase' = [phase EXCEPT !["server"] = p]
    <3>1. CASE SvcStep("server")
      BY <3>1 DEF SvcStep, WriteSucceeds, WriteFails, Lists, ListFails, Deletes, DeleteFails,
         Finishes, Settles, UploadsTo
    <3>2. CASE \E c \in Call : RequestBackup(c)
      BY <3>2 DEF RequestBackup, RunNow, Uploads, UploadsTo, uploadVars
    <3>3. CASE DebounceFires \/ ScheduledRun
      BY <3>3 DEF DebounceFires, ScheduledRun, RunNow, Uploads, UploadsTo, uploadVars
    <3>4. CASE Restart
      BY <3>4 DEF Restart, UploadsTo
    <3>5. CASE (\E route \in Routes : ApiChange(route)) \/ CliChange \/ ClockStepsBack \/ UNCHANGED vars
      BY <3>5 DEF ApiChange, CliChange, ClockStepsBack, uploadVars, vars
    <3> QED BY <2>3, <3>1, <3>2, <3>3, <3>4, <3>5 DEF Next, Svc
  <2> QED BY <1>1, <2>1, <2>2, <2>4, Svcs
<1> QED BY <1>3, <1>4 DEF AloneInv

\* The invariant is inductive, and a last backup stays.
LEMMA UploadNext == UploadInv /\ [Next]_vars => UploadInv' /\ StaysStored
<1> SUFFICES ASSUME UploadInv, [Next]_vars PROVE UploadInv' /\ StaysStored
  OBVIOUS
<1>1. RunInv'
  BY NextRun DEF UploadInv
<1>2. budget' \in [Events -> Nat] /\ AloneInv'
  BY NextAlone
<1>3. asked' \in [Call -> Nat]
  <2>1. asked \in [Call -> Nat] /\ version \in Nat
    BY DEF UploadInv, StoreInv, StoreTypes
  <2>2. asked' = asked \/ \E c \in Call : asked' = [asked EXCEPT ![c] = version]
    BY Zenon DEF Next, vars, callVars, ApiChange, CliChange, ClockStepsBack, RequestBackup,
       DebounceFires, ScheduledRun, CliBackup, SvcStep, WriteSucceeds, WriteFails, Lists,
       ListFails, Deletes, DeleteFails, Finishes, Restart
  <2> QED BY <2>1, <2>2
<1>4. CASE UNCHANGED <<version, behind>> /\ Advances
  <2>1. version' = version /\ behind' = behind /\ version \in Nat /\ behind \in BOOLEAN
    BY <1>4 DEF UploadInv, StoreInv, StoreTypes
  <2>2. Fits(objects, phase)'
    BY <1>4, <2>1 DEF Advances, Fits, Tidy
  <2>3. AskedInv'
    BY <1>4, <2>1 DEF Advances, AskedInv, Brings, Saves
  <2>4. StoreTypes'
    BY <1>2, <1>3, <2>1 DEF StoreTypes
  <2> QED BY <1>1, <1>2, <1>4, <2>2, <2>3, <2>4 DEF Advances, UploadInv, StoreInv
<1>5. CASE UNCHANGED <<objects, phase, call, asked>> /\ version' \in Nat /\ version' >= version
            /\ behind' \in BOOLEAN /\ (behind => behind')
  <2>1. objects' = objects /\ phase' = phase /\ call' = call /\ asked' = asked
    BY <1>5
  <2>2. Fits(objects, phase) /\ version \in Nat
    BY UploadFacts
  <2>3. \A i \in Places(objects) : objects[i].version <= version'
    <3> TAKE i \in Places(objects)
    <3>1. objects[i].version \in Nat /\ objects[i].version <= version
      BY <2>2, ObjectFields DEF Fits
    <3> QED BY <1>5, <2>2, <3>1
  <2>4. Fits(objects, phase)'
    BY <1>5, <2>1, <2>2, <2>3 DEF Fits, Tidy
  <2>5. AskedInv'
    <3> SUFFICES ASSUME NEW c \in Call
                 PROVE  /\ asked[c] <= version'
                        /\ call[c] = "upload" => Brings(objects, asked[c])
                        /\ call[c] = "upload" /\ phase["server"] \in {"list", "prune"} /\ Keep > 1 /\ ~behind'
                             => Saves(objects, asked[c])
      BY <2>1 DEF AskedInv, Brings, Saves
    <3>1. /\ asked[c] \in Nat /\ asked[c] <= version
          /\ call[c] = "upload" => Brings(objects, asked[c])
          /\ call[c] = "upload" /\ phase["server"] \in {"list", "prune"} /\ Keep > 1 /\ ~behind
               => Saves(objects, asked[c])
      BY UploadFacts DEF UploadInv, StoreInv, AskedInv
    <3> QED BY <1>5, <2>2, <3>1
  <2>6. StoreTypes'
    BY <1>2, <1>3, <1>5 DEF StoreTypes
  <2>7. StaysStored
    BY <2>1 DEF StaysStored
  <2> QED BY <1>1, <1>2, <2>4, <2>5, <2>6, <2>7 DEF UploadInv, StoreInv
<1> QED BY <1>4, <1>5, NextAdvances

\* The first boot owns the one object there is.
LEMMA UploadStarts == Init => UploadInv
<1> SUFFICES ASSUME Init PROVE UploadInv
  OBVIOUS
<1> DEFINE e == [version |-> 1, stored |-> FALSE, of |-> "server", excess |-> {}]
<1>1. objects = <<e>> /\ e \in Object
  BY DEF Init, Object, Svc
<1>2. objects \in Seq(Object) /\ Len(objects) = 1 /\ objects[1] = e
  BY <1>1
<1>3. Places(objects) = {1}
  BY <1>2 DEF Places
<1>4. phase = [s \in Svc |-> IF s = "server" THEN "write" ELSE "idle"] /\ version = 1
  BY DEF Init
<1>5. phase["server"] = "write" /\ phase["cli"] = "idle" /\ \A s \in Svc : s = "server" \/ s = "cli"
  BY <1>4 DEF Svc
<1>6. \A i \in Places(objects) :
        /\ i = 1 /\ objects[i].version = 1 /\ objects[i].stored = FALSE
        /\ objects[i].of = "server" /\ objects[i].excess = {}
  BY <1>2, <1>3
<1>7. Fits(objects, phase)
  <2>1. \A s \in Svc : phase[s] = "write" \/ (Alone /\ phase[s] # "idle")
                       => \E i \in Places(objects) : objects[i].of = s
    BY <1>3, <1>5, <1>6
  <2>2. Tidy(objects)
    BY <1>6 DEF Tidy
  <2>3. \A i \in Places(objects), s \in Svc : objects[i].of = s =>
          phase[s] # "idle" /\ (objects[i].stored <=> phase[s] # "write") /\ s \notin objects[i].excess
    BY <1>5, <1>6
  <2> QED BY <1>2, <1>4, <1>6, <2>1, <2>2, <2>3, Svcs DEF Fits
<1>8. StoreTypes
  BY ControlAssumption DEF Init, StoreTypes
<1>9. AloneInv
  BY <1>5 DEF Init, AloneInv, Alone
<1>10. AskedInv
  BY <1>4 DEF Init, AskedInv
<1> QED BY <1>7, <1>8, <1>9, <1>10, InitRun DEF UploadInv, StoreInv

\* Who waits for a run, which objects the uploads own and what the callers of
\* the server's upload can count on, as one inductive invariant.
THEOREM UploadInvariant == Spec => []UploadInv
<1>1. UploadInv /\ [Next]_vars => UploadInv'
  BY UploadNext
<1> QED BY UploadStarts, <1>1, PTL DEF Spec

\* What is stored, as a set and by place.
LEMMA StoredSaves ==
  ASSUME UploadInv
  PROVE  \A v \in Nat : Saves(objects, v) <=> \E o \in Stored : o.version >= v
<1>1. DOMAIN objects = Places(objects)
  BY UploadFacts DEF Fits, Places
<1> QED BY <1>1 DEF Stored, Saves

\* There is a backup: as a set and by place.
LEMMA StoredIsSaved ==
  ASSUME UploadInv
  PROVE  Stored # {} <=> Saves(objects, 0)
<1>1. \A o \in Stored : o.version >= 0
  <2> TAKE o \in Stored
  <2>1. PICK i \in Places(objects) : o = objects[i]
    BY UploadFacts DEF Stored, Fits, Places
  <2> QED BY <2>1, UploadFacts, ObjectFields DEF Fits
<1> QED BY <1>1, StoredSaves

\* Only the end of an upload with no error tells anyone "ok".
LEMMA OkIsOfFinishes ==
  ASSUME [Next]_vars, NEW c \in Call, call[c] # "ok", call'[c] = "ok", UploadInv
  PROVE  \E s \in Svc : Finishes(s)
<1>0. call \in [Call -> CallState]
  BY DEF UploadInv, RunInv, RunTypes
<1>1. ASSUME NEW s \in Svc, NEW objs, Settles(s, "failed", objs) PROVE FALSE
  <2>1. CASE s = "server" /\ followUp
    <3>1. call'[c] = CASE call[c] = "upload" -> "failed"
                       [] call[c] = "followUp" -> "upload"
                       [] OTHER -> call[c]
      BY <1>1, <2>1 DEF Settles
    <3> QED BY <3>1
  <2>2. CASE ~(s = "server" /\ followUp)
    <3>1. call'[c] = IF s = "server" /\ call[c] = "upload" THEN "failed" ELSE call[c]
      BY <1>1, <2>2 DEF Settles
    <3> QED BY <3>1
  <2> QED BY <2>1, <2>2
<1>2. CASE \E s \in Svc : SvcStep(s)
  <2> PICK s \in Svc : SvcStep(s)
    BY <1>2
  <2>1. ~WriteFails(s) /\ ~ListFails(s) /\ ~DeleteFails(s)
    BY <1>1 DEF WriteFails, ListFails, DeleteFails
  <2>2. call' # call
    OBVIOUS
  <2>3. ~WriteSucceeds(s) /\ ~Lists(s) /\ ~Deletes(s)
    BY <2>2 DEF WriteSucceeds, Lists, Deletes, callVars
  <2> QED BY <2>1, <2>3 DEF SvcStep
<1>3. ~\E d \in Call : RequestBackup(d)
  <2> SUFFICES ASSUME NEW d \in Call, RequestBackup(d) PROVE FALSE
    OBVIOUS
  <2>1. call' = [call EXCEPT ![d] = IF phase["server"] = "idle" THEN "upload" ELSE "followUp"]
    BY DEF RequestBackup
  <2> QED BY <1>0, <2>1
<1>4. ~Restart
  BY DEF Restart
<1>5. call' # call
  OBVIOUS
<1>6. /\ ~\E route \in Routes : ApiChange(route)
      /\ ~CliChange /\ ~ClockStepsBack /\ ~DebounceFires /\ ~ScheduledRun /\ ~CliBackup
      /\ vars' # vars
  BY <1>5 DEF ApiChange, CliChange, ClockStepsBack, DebounceFires, ScheduledRun, CliBackup, callVars, vars
<1> QED BY <1>2, <1>3, <1>4, <1>6 DEF Next

\* A runNow() that reports success has put the caller's changes in the store,
\* however uploads, failures, restarts and other processes interleave; only
\* another process can have deleted them, with KEEP=1 or after the clock
\* stepped back.
THEOREM ToldAlwaysMeansSaved == Spec => ToldMeansSaved
<1> DEFINE A == \A c \in Call :
                  call[c] # "ok" /\ call'[c] = "ok" =>
                    \/ \E o \in Stored' : o.version >= asked[c]
                    \/ Lost /\ (behind \/ Keep = 1)
<1>1. UploadInv /\ UploadInv' /\ [Next]_vars => A
  <2> SUFFICES ASSUME UploadInv, UploadInv', [Next]_vars, NEW c \in Call, call[c] # "ok", call'[c] = "ok"
               PROVE  \/ \E o \in Stored' : o.version >= asked[c]
                      \/ Lost /\ (behind \/ Keep = 1)
    OBVIOUS
  <2>2. PICK s \in Svc : Finishes(s)
    BY OkIsOfFinishes
  <2>3. Saves(objects', asked[c]) \/ (Lost /\ (behind \/ Keep = 1))
    BY <2>2, FinishesSaves
  <2>4. DOMAIN objects' = Places(objects')
    BY DEF UploadInv, StoreInv, Fits, Places
  <2>5. Saves(objects', asked[c]) => \E o \in Stored' : o.version >= asked[c]
    BY <2>4 DEF Saves, Stored
  <2> QED BY <2>3, <2>5
<1> QED BY <1>1, UploadInvariant, PTL DEF Spec, ToldMeansSaved

\* The store never loses its last backup, if KEEP is above 1 or no
\* `backup-control` runs beside the server.
THEOREM NeverLeftWithoutBackup ==
  ASSUME Keep > 1 \/ Alone
  PROVE  Spec => NeverWithoutBackup
<1>1. UploadInv /\ UploadInv' /\ [Next]_vars => (Stored # {} => Stored' # {})
  <2> SUFFICES ASSUME UploadInv, UploadInv', [Next]_vars, Stored # {} PROVE Stored' # {}
    OBVIOUS
  <2>1. Saves(objects, 0)
    BY StoredIsSaved
  <2>2. Saves(objects', 0)
    BY <2>1, UploadNext DEF StaysStored
  <2>3. DOMAIN objects' = Places(objects')
    BY DEF UploadInv, StoreInv, Fits, Places
  <2> QED BY <2>2, <2>3 DEF Saves, Stored
<1> QED BY <1>1, UploadInvariant, PTL DEF Spec, NeverWithoutBackup

----------------------------------------------------------------------------
(* Verification: the invariant                                             *)

Job == [db : Db \cup {"-"}, after : Jobs \cup {0},
        state : {"none", "waiting", "restoring", "done", "threw"}]
Service ==
  /\ jobs \in [Jobs -> Job]
  /\ tail \in Jobs \cup {0}
  /\ inQueue \in [Db -> Jobs \cup {0}]
  /\ batch \in [on : BOOLEAN, rows : SUBSET Db, at : Jobs \cup {0}]

Active == {j \in Jobs : jobs[j].state \in {"waiting", "restoring"}}

\* The n verifies that have not settled stand in one line: f is their place.
Line(n, f) ==
  /\ \A j \in Active : f[j] \in 1 .. n
  /\ \A i, j \in Active : f[i] = f[j] => i = j
  /\ \A j \in Active : jobs[j].after = 0 => f[j] = 1
  /\ \A j \in Active : jobs[j].after # 0 => jobs[j].after \in Active /\ f[jobs[j].after] = f[j] - 1
  /\ tail = 0 => n = 0
  /\ tail # 0 => tail \in Active /\ f[tail] = n
  /\ \A j \in Jobs : jobs[j].state = "restoring" => jobs[j].after = 0

LineInv == \E n \in Nat : \E f \in [Jobs -> Nat] : Line(n, f)

\* inQueue names the verify of each database that has not settled.
NamedInv ==
  /\ \A j \in Active : jobs[j].db \in Db /\ inQueue[jobs[j].db] = j
  /\ \A d \in Db : inQueue[d] # 0 => inQueue[d] \in Active /\ jobs[inQueue[d]].db = d

\* One that has settled is kept only while the batch awaits it.
EmptyInv == \A j \in Jobs : jobs[j].state = "none" => jobs[j] = NoJob
SettledInv ==
  /\ \A j \in Jobs : jobs[j].state \in {"done", "threw"} => batch.at = j
  /\ ~batch.on => batch.at = 0

QueueInv == Service /\ LineInv /\ NamedInv /\ EmptyInv /\ SettledInv

\* An "ok" record is no newer than the newest proof.
RecordInv ==
  /\ now \in Nat
  /\ okAt \in [Db -> Nat \cup {Never}] /\ proved \in [Db -> Nat \cup {Never}]
  /\ \A d \in Db : okAt[d] <= proved[d] /\ proved[d] <= now

VerifyInv == QueueInv /\ RecordInv

----------------------------------------------------------------------------
(* The queue                                                               *)

LEMMA JobsNumbers ==
  /\ Cardinality(Db) \in Nat /\ Jobs = 1 .. Cardinality(Db) + 1
  /\ Jobs \subseteq Nat \ {0}
<1>1. Cardinality(Db) \in Nat /\ Jobs = 1 .. Cardinality(Db) + 1
  BY DbAssumption, FS_CardinalityType DEF Jobs
<1> QED BY <1>1

\* A database without a verify leaves room for one.
LEMMA FreeJob ==
  ASSUME QueueInv, NEW d \in Db, inQueue[d] = 0
  PROVE  \E j \in Jobs : jobs[j] = NoJob
<1> DEFINE Others == Db \ {d}
           Queued == {inQueue[e] : e \in Others}
<1>1. IsFiniteSet(Others) /\ Cardinality(Others) = Cardinality(Db) - 1
  BY DbAssumption, FS_RemoveElement
<1>2. IsFiniteSet(Queued) /\ Cardinality(Queued) <= Cardinality(Others)
  <2> DEFINE g == [e \in Others |-> inQueue[e]]
  <2>1. g \in Surjection(Others, Queued)
    BY DEF Surjection
  <2> QED BY <1>1, <2>1, FS_Surjection
<1>3. IsFiniteSet(Queued \cup {batch.at})
      /\ Cardinality(Queued \cup {batch.at}) <= Cardinality(Queued) + 1
  <2>1. IsFiniteSet(Queued \cup {batch.at})
        /\ Cardinality(Queued \cup {batch.at})
             = IF batch.at \in Queued THEN Cardinality(Queued) ELSE Cardinality(Queued) + 1
    BY <1>2, FS_AddElement
  <2>2. Cardinality(Queued) \in Nat
    BY <1>2, FS_CardinalityType
  <2> QED BY <2>1, <2>2
<1>4. IsFiniteSet(Jobs) /\ Cardinality(Jobs) = Cardinality(Db) + 1
  <2>1. Cardinality(Db) + 1 \in Nat
    BY JobsNumbers
  <2> DEFINE n == Cardinality(Db) + 1
  <2>2. 1 \in Int /\ n \in Int
    BY <2>1
  <2>3. IsFiniteSet(1 .. n) /\ Cardinality(1 .. n) = IF 1 > n THEN 0 ELSE n - 1 + 1
    BY <2>2, FS_Interval
  <2>4. Jobs = 1 .. n /\ n \in Nat /\ n > 0
    BY JobsNumbers
  <2> HIDE DEF n
  <2>5. Cardinality(Jobs) = n /\ IsFiniteSet(Jobs)
    BY <2>3, <2>4
  <2> QED BY <2>5 DEF n
<1>5. SUFFICES ASSUME \A j \in Jobs : jobs[j] # NoJob
               PROVE  FALSE
  OBVIOUS
<1>6. Jobs \subseteq Queued \cup {batch.at}
  <2> SUFFICES ASSUME NEW j \in Jobs, j # batch.at
               PROVE  j \in Queued
    OBVIOUS
  <2>1. jobs[j].state \in {"waiting", "restoring"}
    BY <1>5 DEF QueueInv, Service, Job, EmptyInv, SettledInv
  <2>2. jobs[j].db \in Db /\ inQueue[jobs[j].db] = j
    BY <2>1 DEF QueueInv, NamedInv, Active
  <2>3. j # 0
    BY JobsNumbers
  <2> QED BY <2>2, <2>3
<1>7. Cardinality(Jobs) <= Cardinality(Queued \cup {batch.at})
  BY <1>3, <1>6, FS_Subset
<1>8. Cardinality(Queued) \in Nat /\ Cardinality(Others) \in Nat /\ Cardinality(Db) \in Nat
      /\ Cardinality(Queued \cup {batch.at}) \in Nat
  BY <1>1, <1>2, <1>3, JobsNumbers, FS_CardinalityType
<1> HIDE DEF Queued, Others
<1> QED BY <1>1, <1>2, <1>3, <1>4, <1>7, <1>8

\* What a new verify changes: it takes the last place of the line.
LEMMA Joining ==
  ASSUME QueueInv, NEW d \in Db, NEW job \in Jobs, Verify(d, job),
         inQueue[d] = 0
  PROVE  /\ jobs[job] = NoJob /\ tail' = job
         /\ inQueue' = [inQueue EXCEPT ![d] = job]
         /\ jobs' = [jobs EXCEPT ![job] = [db |-> d, after |-> tail, state |-> "waiting"]]
         /\ Active' = Active \cup {job} /\ job \notin Active
<1>1. /\ job = CHOOSE j \in Jobs : jobs[j] = NoJob
      /\ jobs' = [jobs EXCEPT ![job] = [db |-> d, after |-> tail, state |-> "waiting"]]
      /\ tail' = job /\ inQueue' = [inQueue EXCEPT ![d] = job]
  BY DEF Verify, NextTail
<1>2. jobs[job] = NoJob
  BY <1>1, FreeJob
<1>3. job \notin Active
  BY <1>2 DEF Active, NoJob
<1>4. Active' = Active \cup {job}
  BY <1>1 DEF Active, QueueInv, Service
<1> QED BY <1>1, <1>2, <1>3, <1>4

LEMMA VerifyType ==
  ASSUME QueueInv, NEW d \in Db, NEW job \in Jobs, Verify(d, job)
  PROVE  /\ jobs' \in [Jobs -> Job]
         /\ tail' \in Jobs \cup {0} /\ inQueue' \in [Db -> Jobs \cup {0}]
<1>1. CASE inQueue[d] # 0
  BY <1>1 DEF Verify, QueueInv, Service
<1>2. CASE inQueue[d] = 0
  <2> DEFINE new == [db |-> d, after |-> tail, state |-> "waiting"]
  <2>1. new \in Job
    BY DEF Job, QueueInv, Service
  <2>2. jobs' = [jobs EXCEPT ![job] = new] /\ tail' = job
        /\ inQueue' = [inQueue EXCEPT ![d] = job]
    BY <1>2, Joining
  <2> HIDE DEF new
  <2>3. jobs' \in [Jobs -> Job]
    BY <2>1, <2>2 DEF QueueInv, Service
  <2> QED BY <2>2, <2>3 DEF QueueInv, Service
<1> QED BY <1>1, <1>2

LEMMA VerifyLine ==
  ASSUME QueueInv, NEW d \in Db, NEW job \in Jobs, Verify(d, job)
  PROVE  LineInv'
<1>1. CASE inQueue[d] # 0
  BY <1>1 DEF Verify, QueueInv, LineInv, Line, Active
<1>2. CASE inQueue[d] = 0
  <2>1. PICK n \in Nat, f \in [Jobs -> Nat] : Line(n, f)
    BY DEF QueueInv, LineInv
  <2> DEFINE g == [f EXCEPT ![job] = n + 1]
  <2>2. /\ jobs[job] = NoJob /\ tail' = job /\ Active' = Active \cup {job} /\ job \notin Active
        /\ Active \subseteq Jobs
        /\ jobs'[job] = [db |-> d, after |-> tail, state |-> "waiting"]
        /\ \A j \in Jobs \ {job} : jobs'[j] = jobs[j]
    BY <1>2, Joining DEF QueueInv, Service, Active
  <2>3. job # 0 /\ tail \in Jobs \cup {0}
    BY JobsNumbers DEF QueueInv, Service
  <2>4. g[job] = n + 1 /\ \A j \in Jobs \ {job} : g[j] = f[j] /\ f[j] \in Nat
    OBVIOUS
  <2>5. /\ \A j \in Active : g[j] = f[j] /\ jobs'[j] = jobs[j] /\ f[j] \in 1 .. n
        /\ \A i, j \in Active : f[i] = f[j] => i = j
        /\ \A j \in Active : jobs[j].after = 0 => f[j] = 1
        /\ \A j \in Active : jobs[j].after # 0
              => jobs[j].after \in Active /\ f[jobs[j].after] = f[j] - 1
    BY <2>1, <2>2, <2>4 DEF Line
  <2>6. tail = 0 => n = 0
    BY <2>1 DEF Line
  <2>7. tail # 0 => tail \in Active /\ g[tail] = n
    BY <2>1, <2>5 DEF Line
  <2>8. \A j \in Jobs : jobs[j].state = "restoring" => jobs[j].after = 0
    BY <2>1 DEF Line
  <2>9. g \in [Jobs -> Nat] /\ n + 1 \in Nat
    OBVIOUS
  <2> HIDE DEF g
  <2>10. \A j \in Active' : g[j] \in 1 .. n + 1
    BY <2>2, <2>4, <2>5
  <2>11. \A i, j \in Active' : g[i] = g[j] => i = j
    BY <2>2, <2>4, <2>5
  <2>12. \A j \in Active' : jobs'[j].after = 0 => g[j] = 1
    BY <2>2, <2>4, <2>5, <2>6
  <2>13. \A j \in Active' : jobs'[j].after # 0
           => jobs'[j].after \in Active' /\ g[jobs'[j].after] = g[j] - 1
    BY <2>2, <2>4, <2>5, <2>7
  <2>14. \A j \in Jobs : jobs'[j].state = "restoring" => jobs'[j].after = 0
    BY <2>2, <2>8
  <2>15. Line(n + 1, g)'
    BY <2>2, <2>3, <2>4, <2>10, <2>11, <2>12, <2>13, <2>14 DEF Line
  <2> QED BY <2>9, <2>15 DEF LineInv
<1> QED BY <1>1, <1>2

LEMMA VerifyNames ==
  ASSUME QueueInv, NEW d \in Db, NEW job \in Jobs, Verify(d, job)
  PROVE  /\ NamedInv' /\ EmptyInv'
         /\ \A j \in Jobs : jobs'[j].state \in {"done", "threw"} => jobs[j].state = jobs'[j].state
         /\ job \in Active'
<1>1. CASE inQueue[d] # 0
  <2>1. UNCHANGED <<jobs, inQueue>> /\ job = inQueue[d]
    BY <1>1 DEF Verify
  <2> QED BY <1>1, <2>1 DEF QueueInv, NamedInv, EmptyInv, Active
<1>2. CASE inQueue[d] = 0
  <2>1. /\ jobs[job] = NoJob /\ Active' = Active \cup {job} /\ job \notin Active
        /\ Active \subseteq Jobs
        /\ jobs'[job] = [db |-> d, after |-> tail, state |-> "waiting"]
        /\ \A j \in Jobs \ {job} : jobs'[j] = jobs[j]
        /\ inQueue'[d] = job
        /\ \A e \in Db \ {d} : inQueue'[e] = inQueue[e]
    BY <1>2, Joining DEF QueueInv, Service, Active
  <2>2. \A j \in Active : jobs[j].db # d /\ jobs'[j] = jobs[j]
    <3>1. job # 0 /\ \A j \in Active : j # 0
      BY JobsNumbers, <2>1
    <3> QED BY <1>2, <2>1, <3>1 DEF QueueInv, NamedInv
  <2>3. NamedInv'
    <3>1. \A j \in Active' : jobs'[j].db \in Db /\ inQueue'[jobs'[j].db] = j
      BY <2>1, <2>2 DEF QueueInv, NamedInv
    <3>2. \A e \in Db : inQueue'[e] # 0 => inQueue'[e] \in Active' /\ jobs'[inQueue'[e]].db = e
      BY <2>1, <2>2 DEF QueueInv, NamedInv
    <3> QED BY <3>1, <3>2 DEF NamedInv
  <2>4. EmptyInv'
    BY <2>1 DEF QueueInv, EmptyInv
  <2> QED BY <2>1, <2>3, <2>4
<1> QED BY <1>1, <1>2

----------------------------------------------------------------------------
(* A verify settles                                                        *)

\* What settling the head of the line changes.
Settling(j) ==
  /\ \E s \in {"done", "threw"} :
       jobs' = [i \in Jobs |->
                  IF i = j THEN IF batch.at = j THEN [NoJob EXCEPT !.state = s] ELSE NoJob
                  ELSE [jobs[i] EXCEPT !.after = IF @ = j THEN 0 ELSE @]]
  /\ tail' = (IF tail = j THEN 0 ELSE tail)
  /\ inQueue' = [inQueue EXCEPT ![jobs[j].db] = 0]
  /\ UNCHANGED batch

LEMMA DoneSettles ==
  ASSUME NEW j \in Jobs, NEW outcome, NEW wasGood, Done(j, outcome, wasGood)
  PROVE  Settling(j)
BY DEF Done, Settling

LEMMA SettlingParts ==
  ASSUME QueueInv, NEW j \in Active, Settling(j)
  PROVE  /\ Active' = Active \ {j}
         /\ \A i \in Jobs \ {j} :
              /\ jobs'[i].db = jobs[i].db /\ jobs'[i].state = jobs[i].state
              /\ jobs'[i].after = (IF jobs[i].after = j THEN 0 ELSE jobs[i].after)
         /\ jobs'[j].state \in {"none", "done", "threw"}
         /\ jobs'[j].state # "none" => batch.at = j
         /\ jobs'[j].state = "none" => jobs'[j] = NoJob
         /\ jobs' \in [Jobs -> Job]
<1>1. PICK s \in {"done", "threw"} :
       jobs' = [i \in Jobs |->
                  IF i = j THEN IF batch.at = j THEN [NoJob EXCEPT !.state = s] ELSE NoJob
                  ELSE [jobs[i] EXCEPT !.after = IF @ = j THEN 0 ELSE @]]
  BY DEF Settling
<1> DEFINE own == IF batch.at = j THEN [NoJob EXCEPT !.state = s] ELSE NoJob
<1>2. own \in Job /\ own.state \in {"none", "done", "threw"}
      /\ (own.state # "none" => batch.at = j) /\ (own.state = "none" => own = NoJob)
  BY <1>1 DEF Job, NoJob
<1>3. j \in Jobs /\ jobs'[j] = own
  BY <1>1 DEF Active
<1> HIDE DEF own
<1>4. \A i \in Jobs \ {j} :
        /\ jobs'[i] \in Job
        /\ jobs'[i].db = jobs[i].db /\ jobs'[i].state = jobs[i].state
        /\ jobs'[i].after = (IF jobs[i].after = j THEN 0 ELSE jobs[i].after)
  <2> SUFFICES ASSUME NEW i \in Jobs \ {j}
               PROVE  /\ jobs'[i] \in Job
                      /\ jobs'[i].db = jobs[i].db /\ jobs'[i].state = jobs[i].state
                      /\ jobs'[i].after = (IF jobs[i].after = j THEN 0 ELSE jobs[i].after)
    OBVIOUS
  <2>1. jobs[i] \in Job
    BY DEF QueueInv, Service
  <2>2. jobs'[i] = [jobs[i] EXCEPT !.after = IF @ = j THEN 0 ELSE @]
    BY <1>1
  <2> QED BY <2>1, <2>2 DEF Job
<1>5. Active' = Active \ {j}
  BY <1>2, <1>3, <1>4 DEF Active
<1>6. jobs' \in [Jobs -> Job]
  <2>1. jobs' = [i \in Jobs |-> jobs'[i]]
    BY <1>1
  <2>2. \A i \in Jobs : jobs'[i] \in Job
    BY <1>2, <1>3, <1>4
  <2> QED BY <2>1, <2>2
<1> QED BY <1>2, <1>3, <1>4, <1>5, <1>6

LEMMA SettlingLine ==
  ASSUME QueueInv, NEW j \in Active, jobs[j].after = 0, Settling(j)
  PROVE  LineInv'
<1>1. PICK n \in Nat, f \in [Jobs -> Nat] : Line(n, f)
  BY DEF QueueInv, LineInv
<1>2. f[j] = 1 /\ n \in Nat /\ n >= 1
  BY <1>1 DEF Line
<1>3. \A i \in Active : f[i] \in 1 .. n /\ f[i] \in Nat
  BY <1>1 DEF Line
<1>4. \A i \in Active : i \in Jobs
  BY DEF Active
<1>5. PICK g \in [Jobs -> Nat] : \A i \in Active : g[i] = f[i] - 1
  <2> DEFINE less == [i \in Jobs |-> IF i \in Active THEN f[i] - 1 ELSE 0]
  <2>1. \A i \in Active : less[i] = f[i] - 1
    BY <1>4
  <2>2. less \in [Jobs -> Nat]
    BY <1>3
  <2> HIDE DEF less
  <2> QED BY <2>1, <2>2
<1>6. n - 1 \in Nat
  BY <1>2
<1>7. /\ Active' = Active \ {j}
      /\ \A i \in Jobs \ {j} :
              /\ jobs'[i].db = jobs[i].db /\ jobs'[i].state = jobs[i].state
              /\ jobs'[i].after = (IF jobs[i].after = j THEN 0 ELSE jobs[i].after)
      /\ jobs'[j].state \in {"none", "done", "threw"}
  BY SettlingParts
<1>8. \A i \in Active' : f[i] # 1 /\ f[i] \in Nat /\ f[i] \in 1 .. n
  BY <1>1, <1>2, <1>3, <1>7 DEF Line
<1>9. \A i \in Active' : g[i] \in 1 .. n - 1
  BY <1>2, <1>5, <1>7, <1>8
<1>10. \A i, k \in Active' : g[i] = g[k] => i = k
  <2>1. \A i, k \in Active' : f[i] = f[k] => i = k
    BY <1>1, <1>7 DEF Line
  <2>2. \A i \in Active' : g[i] = f[i] - 1 /\ f[i] \in Nat
    BY <1>3, <1>5, <1>7
  <2>3. \A i, k \in Active' : g[i] = g[k] => f[i] = f[k]
    BY <2>2
  <2> QED BY <2>1, <2>3
<1>11. \A i \in Active' : jobs[i].after # 0 /\ jobs[i].after \in Active
                          /\ f[jobs[i].after] = f[i] - 1
  BY <1>1, <1>7, <1>8 DEF Line
<1>12. \A i \in Active' : jobs'[i].after = 0 => g[i] = 1
  <2> SUFFICES ASSUME NEW i \in Active', jobs'[i].after = 0
               PROVE  g[i] = 1
    OBVIOUS
  <2>1. jobs[i].after = j
    BY <1>4, <1>7, <1>11
  <2>2. f[i] - 1 = 1
    BY <1>2, <1>11, <2>1
  <2> QED BY <1>5, <1>7, <2>2
<1>13. \A i \in Active' : jobs'[i].after # 0 => jobs'[i].after \in Active'
                                                /\ g[jobs'[i].after] = g[i] - 1
  <2> SUFFICES ASSUME NEW i \in Active', jobs'[i].after # 0
               PROVE  jobs'[i].after \in Active' /\ g[jobs'[i].after] = g[i] - 1
    OBVIOUS
  <2>1. jobs'[i].after = jobs[i].after /\ jobs[i].after # j
    BY <1>4, <1>7
  <2>2. jobs[i].after \in Active' /\ f[jobs[i].after] = f[i] - 1
    BY <1>7, <1>11, <2>1
  <2> QED BY <1>5, <1>7, <2>1, <2>2
<1>14. tail' = 0 => n - 1 = 0
  BY <1>1, <1>2 DEF Settling, Line
<1>15. tail' # 0 => tail' \in Active' /\ g[tail'] = n - 1
  BY <1>1, <1>5, <1>7 DEF Settling, Line
<1>16. \A i \in Jobs : jobs'[i].state = "restoring" => jobs'[i].after = 0
  BY <1>1, <1>4, <1>7 DEF Line
<1>17. Line(n - 1, g)'
  BY <1>5, <1>9, <1>10, <1>12, <1>13, <1>14, <1>15, <1>16 DEF Line
<1> QED BY <1>5, <1>6, <1>17 DEF LineInv

LEMMA SettlingQueue ==
  ASSUME QueueInv, NEW j \in Active, jobs[j].after = 0, Settling(j)
  PROVE  QueueInv'
<1>1. /\ Active' = Active \ {j} /\ j \in Jobs /\ Active \subseteq Jobs
      /\ \A i \in Jobs \ {j} :
              /\ jobs'[i].db = jobs[i].db /\ jobs'[i].state = jobs[i].state
              /\ jobs'[i].after = (IF jobs[i].after = j THEN 0 ELSE jobs[i].after)
      /\ jobs'[j].state \in {"none", "done", "threw"}
      /\ jobs'[j].state # "none" => batch.at = j
      /\ jobs'[j].state = "none" => jobs'[j] = NoJob
      /\ jobs' \in [Jobs -> Job]
  BY SettlingParts DEF Active
<1>2. jobs[j].db \in Db /\ inQueue[jobs[j].db] = j
  BY DEF QueueInv, NamedInv
<1>3. /\ UNCHANGED batch
      /\ inQueue'[jobs[j].db] = 0
      /\ \A d \in Db \ {jobs[j].db} : inQueue'[d] = inQueue[d]
  BY <1>2 DEF Settling, QueueInv, Service
<1>4. Service'
  <2>1. tail' \in Jobs \cup {0}
    BY DEF Settling, QueueInv, Service
  <2>2. inQueue' \in [Db -> Jobs \cup {0}]
    BY <1>2 DEF Settling, QueueInv, Service
  <2> QED BY <1>1, <1>3, <2>1, <2>2 DEF QueueInv, Service
<1>5. LineInv'
  BY SettlingLine
<1>6. NamedInv'
  <2>1. \A i \in Active' : jobs'[i].db \in Db /\ inQueue'[jobs'[i].db] = i
    BY <1>1, <1>2, <1>3 DEF QueueInv, NamedInv
  <2>2. \A d \in Db : inQueue'[d] # 0 => inQueue'[d] \in Active' /\ jobs'[inQueue'[d]].db = d
    BY <1>1, <1>2, <1>3 DEF QueueInv, NamedInv
  <2> QED BY <2>1, <2>2 DEF NamedInv
<1>7. EmptyInv'
  <2> SUFFICES ASSUME NEW i \in Jobs, jobs'[i].state = "none"
               PROVE  jobs'[i] = NoJob
    BY DEF EmptyInv
  <2>1. CASE i = j
    BY <1>1, <2>1
  <2>2. CASE i # j
    <3>1. jobs[i] = NoJob
      BY <1>1, <2>2 DEF QueueInv, EmptyInv
    <3>2. PICK s \in {"done", "threw"} :
            jobs'[i] = [jobs[i] EXCEPT !.after = IF @ = j THEN 0 ELSE @]
      BY <2>2 DEF Settling
    <3>3. j # 0
      BY JobsNumbers, <1>1
    <3> QED BY <3>1, <3>2, <3>3 DEF NoJob
  <2> QED BY <2>1, <2>2
<1>8. SettledInv'
  BY <1>1, <1>3 DEF QueueInv, SettledInv
<1> QED BY <1>4, <1>5, <1>6, <1>7, <1>8 DEF QueueInv
----------------------------------------------------------------------------
(* The other steps                                                         *)

\* A step that leaves the line alone, but for a settled verify that is forgotten.
LEMMA KeepsLine ==
  ASSUME QueueInv, UNCHANGED <<tail, inQueue>>, jobs' \in [Jobs -> Job],
         \A i \in Jobs :
           \/ jobs'[i] = jobs[i]
           \/ jobs[i].state \in {"done", "threw"} /\ jobs'[i] = NoJob
           \/ /\ jobs[i].state = "waiting" /\ jobs[i].after = 0
              /\ jobs'[i] = [jobs[i] EXCEPT !.state = "restoring"]
  PROVE  LineInv' /\ NamedInv' /\ EmptyInv'
<1>1. \A i \in Jobs : jobs[i] \in Job
  BY DEF QueueInv, Service
<1>2. \A i \in Jobs :
        /\ i \in Active <=> jobs'[i].state \in {"waiting", "restoring"}
        /\ i \in Active => jobs'[i].db = jobs[i].db /\ jobs'[i].after = jobs[i].after
        /\ jobs'[i].state = "restoring"
             => \/ jobs'[i].after = 0
                \/ jobs[i].state = "restoring" /\ jobs'[i].after = jobs[i].after
        /\ jobs'[i].state = "none" => jobs[i].state = "none" \/ jobs'[i] = NoJob
        /\ jobs[i].state = "none" => jobs'[i] = jobs[i]
  <2> SUFFICES ASSUME NEW i \in Jobs
               PROVE
        /\ i \in Active <=> jobs'[i].state \in {"waiting", "restoring"}
        /\ i \in Active => jobs'[i].db = jobs[i].db /\ jobs'[i].after = jobs[i].after
        /\ jobs'[i].state = "restoring"
             => \/ jobs'[i].after = 0
                \/ jobs[i].state = "restoring" /\ jobs'[i].after = jobs[i].after
        /\ jobs'[i].state = "none" => jobs[i].state = "none" \/ jobs'[i] = NoJob
        /\ jobs[i].state = "none" => jobs'[i] = jobs[i]
    OBVIOUS
  <2> QED BY <1>1 DEF Active, Job, NoJob
<1>3. Active' = Active /\ Active \subseteq Jobs
  BY <1>2 DEF Active
<1>4. LineInv'
  <2>1. PICK n \in Nat, f \in [Jobs -> Nat] : Line(n, f)
    BY DEF QueueInv, LineInv
  <2>2. Line(n, f)'
    BY <1>2, <1>3, <2>1 DEF Line
  <2> QED BY <2>2 DEF LineInv
<1>5. NamedInv'
  BY <1>2, <1>3 DEF QueueInv, NamedInv
<1>6. EmptyInv'
  BY <1>2 DEF QueueInv, EmptyInv
<1> QED BY <1>4, <1>5, <1>6

LEMMA AwaitedEnds ==
  ASSUME QueueInv, NEW s \in {"done", "threw"}, AwaitedIs(s),
         jobs' = [jobs EXCEPT ![batch.at] = NoJob], UNCHANGED <<tail, inQueue>>,
         batch' \in [on : BOOLEAN, rows : SUBSET Db, at : {0}]
  PROVE  QueueInv'
<1>1. batch.at \in Jobs /\ jobs[batch.at].state = s
  BY DEF AwaitedIs
<1>2. NoJob \in Job
  BY DEF NoJob, Job
<1>3. jobs' \in [Jobs -> Job] /\ jobs'[batch.at] = NoJob
      /\ \A i \in Jobs \ {batch.at} : jobs'[i] = jobs[i]
  BY <1>1, <1>2 DEF QueueInv, Service
<1>4. LineInv' /\ NamedInv' /\ EmptyInv'
  BY <1>1, <1>3, KeepsLine
<1>5. Service'
  BY <1>3 DEF QueueInv, Service
<1>6. SettledInv'
  BY <1>3 DEF QueueInv, SettledInv, NoJob
<1> QED BY <1>4, <1>5, <1>6 DEF QueueInv

LEMMA RunAllQueue ==
  ASSUME QueueInv, RunAll, UNCHANGED <<jobs, tail, inQueue>>
  PROVE  QueueInv'
<1>1. /\ batch' \in [on : BOOLEAN, rows : SUBSET Db, at : Jobs \cup {0}]
      /\ batch'.at = batch.at /\ (~batch'.on => batch'.at = 0)
  <2>1. CASE batch.on
    BY <2>1 DEF RunAll, QueueInv, Service
  <2>2. CASE ~batch.on
    BY <2>2 DEF RunAll, QueueInv, Service, SettledInv
  <2> QED BY <2>1, <2>2
<1>2. LineInv' /\ NamedInv' /\ EmptyInv'
  BY KeepsLine DEF QueueInv, Service
<1> QED BY <1>1, <1>2 DEF QueueInv, Service, SettledInv

LEMMA SameQueue ==
  ASSUME QueueInv, UNCHANGED <<jobs, tail, inQueue, batch>>
  PROVE  QueueInv'
<1>1. LineInv' /\ NamedInv' /\ EmptyInv'
  BY KeepsLine DEF QueueInv, Service
<1> QED BY <1>1 DEF QueueInv, Service, SettledInv

LEMMA DoneSteps ==
  ASSUME RecordInv, NEW j, NEW outcome, NEW wasGood, Done(j, outcome, wasGood),
         outcome = "ok" => wasGood, UNCHANGED now
  PROVE  RecordInv'
<1> DEFINE d == jobs[j].db
<1>1. /\ now \in Nat /\ now' = now
      /\ proved' = IF wasGood THEN [proved EXCEPT ![d] = now] ELSE proved
      /\ okAt' = okAt \/ (wasGood /\ okAt' = [okAt EXCEPT ![d] = now])
  BY DEF Done, RecordInv
<1> HIDE DEF d
<1>2. /\ okAt' \in [Db -> Nat \cup {Never}] /\ proved' \in [Db -> Nat \cup {Never}]
  BY <1>1 DEF RecordInv
<1>3. \A e \in Db : okAt'[e] <= proved'[e] /\ proved'[e] <= now'
  <2> SUFFICES ASSUME NEW e \in Db
               PROVE  okAt'[e] <= proved'[e] /\ proved'[e] <= now'
    OBVIOUS
  <2>0. okAt[e] \in Nat \cup {-1} /\ proved[e] \in Nat \cup {-1} /\ okAt[e] <= proved[e]
        /\ proved[e] <= now
    BY DEF RecordInv, Never
  <2>1. CASE okAt'[e] = okAt[e]
    <3>1. proved'[e] \in {proved[e], now}
      BY <1>1 DEF RecordInv
    <3> QED BY <1>1, <2>0, <2>1, <3>1
  <2>2. CASE okAt'[e] # okAt[e]
    <3>1. wasGood /\ e = d /\ okAt'[e] = now
      BY <1>1, <2>2 DEF RecordInv
    <3>2. proved'[e] = now
      BY <1>1, <3>1 DEF RecordInv
    <3> QED BY <1>1, <3>1, <3>2
  <2> QED BY <2>1, <2>2
<1> QED BY <1>1, <1>2, <1>3 DEF RecordInv

LEMMA StartsQueue ==
  ASSUME QueueInv, NEW j \in Jobs, jobs[j].state = "waiting", jobs[j].after = 0,
         jobs' = [jobs EXCEPT ![j].state = "restoring"], UNCHANGED <<tail, inQueue, batch>>
  PROVE  QueueInv'
<1>1. jobs[j] \in Job
  BY DEF QueueInv, Service
<1>2. [jobs[j] EXCEPT !.state = "restoring"] \in Job
  BY <1>1 DEF Job
<1>3. jobs'[j] = [jobs[j] EXCEPT !.state = "restoring"]
      /\ \A i \in Jobs \ {j} : jobs'[i] = jobs[i]
  BY DEF QueueInv, Service
<1>4. jobs' \in [Jobs -> Job]
  BY <1>2 DEF QueueInv, Service
<1>5. LineInv' /\ NamedInv' /\ EmptyInv'
  BY <1>3, <1>4, KeepsLine
<1>6. jobs'[j].state = "restoring"
  BY <1>1, <1>3 DEF Job
<1> QED BY <1>3, <1>4, <1>5, <1>6 DEF QueueInv, Service, SettledInv

LEMMA EmptyQueue ==
  /\ jobs = [j \in Jobs |-> NoJob] /\ tail = 0
  /\ inQueue = [d \in Db |-> 0] /\ batch = NoBatch
  => QueueInv
<1> SUFFICES ASSUME jobs = [j \in Jobs |-> NoJob], tail = 0,
                    inQueue = [d \in Db |-> 0], batch = NoBatch
             PROVE  QueueInv
  OBVIOUS
<1>1. NoJob \in Job /\ NoJob.state = "none"
  BY DEF NoJob, Job
<1>2. Active = {} /\ \A j \in Jobs : jobs[j] = NoJob
  BY <1>1 DEF Active
<1>3. Service
  BY <1>1 DEF Service, NoBatch
<1>4. LineInv
  <2> DEFINE f == [j \in Jobs |-> 0]
  <2>1. Line(0, f)
    BY <1>1, <1>2 DEF Line
  <2>2. f \in [Jobs -> Nat]
    OBVIOUS
  <2> QED BY <2>1, <2>2 DEF LineInv
<1>5. NamedInv /\ EmptyInv /\ SettledInv
  BY <1>1, <1>2 DEF NamedInv, EmptyInv, SettledInv, NoBatch
<1> QED BY <1>3, <1>4, <1>5 DEF QueueInv

LEMMA VerifyQueueInit == ASSUME VerifyInit PROVE VerifyInv
<1>1. QueueInv
  BY EmptyQueue DEF VerifyInit
<1>2. RecordInv
  BY DEF VerifyInit, RecordInv, Never
<1> QED BY <1>1, <1>2 DEF VerifyInv

LEMMA VerifyQueueNext ==
  ASSUME VerifyInv, [VerifyNext]_verifyVars
  PROVE  VerifyInv'
<1> USE DEF VerifyInv
<1>0. ASSUME UNCHANGED <<now, okAt, proved>>
      PROVE  RecordInv'
  BY <1>0 DEF RecordInv
<1>1. ASSUME NEW d \in Db, VerifyOne(d)
      PROVE  VerifyInv'
  <2>1. PICK job \in Jobs : Verify(d, job)
    BY <1>1 DEF VerifyOne
  <2>2. UNCHANGED <<batch, now, okAt, proved>>
    BY <1>1 DEF VerifyOne, records
  <2>3. Service' /\ SettledInv'
    BY <2>1, <2>2, VerifyType, VerifyNames DEF QueueInv, Service, SettledInv
  <2> QED BY <1>0, <2>1, <2>2, <2>3, VerifyLine, VerifyNames DEF QueueInv
<1>2. CASE VerifyAll \/ Fire
  <2>1. RunAll /\ UNCHANGED <<jobs, tail, inQueue, now, okAt, proved>>
    BY <1>2 DEF VerifyAll, Fire, records
  <2> QED BY <1>0, <2>1, RunAllQueue
<1>3. ASSUME NEW d \in Db, BatchNext(d)
      PROVE  VerifyInv'
  <2>1. PICK job \in Jobs :
          /\ Verify(d, job)
          /\ batch' = [batch EXCEPT !.rows = @ \ {d}, !.at = job]
    BY <1>3 DEF BatchNext
  <2>2. batch.on /\ batch.at = 0 /\ UNCHANGED <<now, okAt, proved>>
    BY <1>3 DEF BatchNext, records
  <2>3. /\ batch' \in [on : BOOLEAN, rows : SUBSET Db, at : Jobs \cup {0}]
        /\ batch'.on
    BY <2>1, <2>2 DEF QueueInv, Service
  <2>4. \A j \in Jobs : jobs'[j].state \notin {"done", "threw"}
    <3>1. \A j \in Jobs : jobs[j].state \notin {"done", "threw"}
      BY <2>2, JobsNumbers DEF QueueInv, SettledInv
    <3> QED BY <2>1, <3>1, VerifyNames
  <2>5. Service' /\ SettledInv'
    BY <2>1, <2>3, <2>4, VerifyType DEF QueueInv, Service, SettledInv
  <2> QED BY <1>0, <2>1, <2>2, <2>5, VerifyLine, VerifyNames DEF QueueInv
<1>4. CASE BatchAnswer
  <2>1. batch' \in [on : BOOLEAN, rows : SUBSET Db, at : {0}]
    BY <1>4 DEF BatchAnswer, QueueInv, Service
  <2> QED BY <1>0, <1>4, <2>1, AwaitedEnds DEF BatchAnswer, records
<1>5. CASE BatchEnds
  <2>1. batch' = NoBatch /\ UNCHANGED <<tail, inQueue, now, okAt, proved>>
    BY <1>5 DEF BatchEnds, records
  <2>2. batch' \in [on : BOOLEAN, rows : SUBSET Db, at : {0}] /\ ~batch'.on /\ batch'.at = 0
    BY <2>1 DEF NoBatch
  <2>3. CASE batch.at = 0 /\ UNCHANGED jobs
    <3>1. LineInv' /\ NamedInv' /\ EmptyInv'
      BY <2>1, <2>3, KeepsLine DEF QueueInv, Service
    <3>2. \A j \in Jobs : jobs[j].state \notin {"done", "threw"}
      BY <2>3, JobsNumbers DEF QueueInv, SettledInv
    <3>3. Service' /\ SettledInv'
      BY <2>1, <2>2, <2>3, <3>2 DEF QueueInv, Service, SettledInv
    <3> QED BY <1>0, <2>1, <3>1, <3>3 DEF QueueInv
  <2>4. CASE AwaitedIs("threw") /\ jobs' = [jobs EXCEPT ![batch.at] = NoJob]
    BY <1>0, <2>1, <2>2, <2>4, AwaitedEnds
  <2> QED BY <1>5, <2>3, <2>4 DEF BatchEnds
<1>6. ASSUME NEW j \in Jobs, JobStarts(j) \/ JobEnds(j)
      PROVE  VerifyInv'
  <2>1. j \in Active /\ jobs[j].after = 0 /\ UNCHANGED now
    BY <1>6 DEF JobStarts, JobEnds, Active, QueueInv, LineInv, Line
  <2>2. CASE jobs[j].state = "waiting" /\ jobs' = [jobs EXCEPT ![j].state = "restoring"]
             /\ UNCHANGED <<tail, inQueue, batch, okAt, proved>>
    BY <1>0, <2>1, <2>2, StartsQueue
  <2>3. ASSUME NEW o, NEW g, Done(j, o, g), o = "ok" => g
        PROVE  VerifyInv'
    BY <2>1, <2>3, DoneSettles, SettlingQueue, DoneSteps
  <2>4. CASE JobStarts(j)
    <3>1. CASE Done(j, "failed", FALSE)
      BY <2>3, <3>1
    <3> QED BY <2>2, <2>4, <3>1 DEF JobStarts
  <2>5. CASE JobEnds(j)
    <3> DEFINE good == replica[jobs[j].db] = "good" /\ status[jobs[j].db] # "deleted"
               o == IF good THEN "ok" ELSE "failed"
    <3>1. Done(j, o, good)
      BY <2>5 DEF JobEnds
    <3>2. o = "ok" => good
      OBVIOUS
    <3> HIDE DEF good, o
    <3> QED BY <2>3, <3>1, <3>2
  <2> QED BY <1>6, <2>4, <2>5
<1>7. CASE Stop \/ Day
  <2>1. /\ UNCHANGED <<jobs, tail, inQueue, batch, okAt, proved>>
        /\ now' \in {now, now + 1}
    BY <1>7 DEF Stop, Day, service, records
  <2>2. RecordInv'
    <3>1. now' \in Nat /\ now' >= now /\ now \in Nat
      BY <2>1 DEF RecordInv
    <3>2. \A d \in Db : proved[d] \in Int
      BY DEF RecordInv, Never
    <3> QED BY <2>1, <3>1, <3>2 DEF RecordInv
  <2> QED BY <2>1, <2>2, SameQueue
<1>8. CASE ServerRestarts
  <2>1. (/\ jobs = [j \in Jobs |-> NoJob] /\ tail = 0
         /\ inQueue = [d \in Db |-> 0] /\ batch = NoBatch)'
    BY <1>8 DEF ServerRestarts, NoService
  <2>2. QueueInv'
    BY <2>1, EmptyQueue, PTL
  <2> QED BY <1>0, <1>8, <2>2 DEF ServerRestarts, records
<1>9. ASSUME NEW d \in Db, Change(d)
      PROVE  VerifyInv'
  BY <1>0, <1>9, SameQueue DEF Change, service, records
<1>10. CASE UNCHANGED verifyVars
  BY <1>0, <1>10, SameQueue DEF verifyVars, service, records
<1> QED BY <1>1, <1>2, <1>3, <1>4, <1>5, <1>6, <1>7, <1>8, <1>9, <1>10 DEF VerifyNext, Progress

\* The inductive invariant of the verification service: the verifies that have not
\* settled stand in one line, whoever asked for them, and each database is named by
\* at most one of them (verify.ts: verifyQueued); a record of an "ok" is never newer
\* than the newest proof.
THEOREM VerifyQueueInvariant == VerifySpec => []VerifyInv
BY VerifyQueueInit, VerifyQueueNext, PTL DEF VerifySpec

\* Never two restores at once, whatever mix of schedule and requests: two that
\* restored would both be first in the line (verify.ts: verifyQueued).
THEOREM OneRestoreAtATime == VerifySpec => []OneAtATime
<1>1. VerifyInv => OneAtATime
  <2> DEFINE R == {j \in Jobs : jobs[j].state = "restoring"}
  <2> SUFFICES ASSUME VerifyInv
               PROVE  Cardinality(R) <= 1
    BY DEF OneAtATime
  <2>1. PICK n \in Nat, f \in [Jobs -> Nat] : Line(n, f)
    BY DEF VerifyInv, QueueInv, LineInv
  <2>2. \A i, j \in R : i = j
    BY <2>1 DEF Line, Active
  <2>3. CASE R = {}
    BY <2>3, FS_EmptySet
  <2>4. ASSUME NEW j \in R
        PROVE  Cardinality(R) <= 1
    <3>1. R = {j}
      BY <2>2
    <3>2. Cardinality({j}) = 1
      BY FS_Singleton
    <3> QED BY <3>1, <3>2
  <2> QED BY <2>3, <2>4
<1> QED BY <1>1, VerifyQueueInvariant, PTL

\* /healthz calls a backup good only if a restore of it was good at most MaxAge
\* days ago, whatever is stopped, broken, requested or restarted meanwhile
\* (verify.ts: done; http/health.ts: verifyHealth).
THEOREM HealthyAlwaysProved == VerifySpec => []HealthyIsProved
<1>1. VerifyInv => HealthyIsProved
  <2> SUFFICES ASSUME VerifyInv, NEW d \in Db, Health(d) = "ok"
               PROVE  proved[d] # Never /\ now - proved[d] <= MaxAge
    BY DEF HealthyIsProved
  <2>1. Recent(okAt[d])
    BY DEF Health
  <2>2. /\ now \in Nat /\ okAt[d] \in Nat \cup {-1} /\ proved[d] \in Nat \cup {-1}
        /\ okAt[d] <= proved[d] /\ okAt[d] # -1 /\ now - okAt[d] <= MaxAge
    BY <2>1 DEF VerifyInv, RecordInv, Recent, Never
  <2> QED BY <2>2, VerifyAssumption DEF Never
<1> QED BY <1>1, VerifyQueueInvariant, PTL

----------------------------------------------------------------------------
(* Rebuilding: the invariant                                               *)

\* Metadata files are numbered in the order they are made, and those not made yet
\* have no rows.
GenInv ==
  /\ place <= gens /\ handle <= gens /\ \A g \in parked : g <= gens
  /\ \A c \in Cmd : cmd[c].opened <= gens
  /\ \A g \in Gens : g > gens => meta[g] = NoRows

ServerInv ==
  /\ server = "off" => handle = NoFile /\ todo = {}
  /\ server # "off" => handle # NoFile

\* A pending row is stopped, and its key is the backup's.
PendingInv ==
  /\ \A d \in Db : ~bundle[d].pending
  /\ \A g \in Gens, d \in Db :
       meta[g][d].pending
         => /\ meta[g][d].status = "stopped"
            /\ d \in BundleKeys => key[d] = "backup"

\* A restore-control parks once all its keys are the backup's; restore-data works
\* on a file it has opened and, past its look, on one database.
CmdOk(c) ==
  /\ cmd[c].step = "keys" => \A d \in BundleKeys \ cmd[c].left : key[d] = "backup"
  /\ cmd[c].step = "park" => \A d \in BundleKeys : key[d] = "backup"
  /\ cmd[c].step \in {"park", "row", "restore", "check", "move", "record"} => cmd[c].opened \in Gens
  /\ cmd[c].step \in {"restore", "check", "move", "record"} => cmd[c].cur \in Db
CmdInv == \A c \in Cmd : CmdOk(c)

\* What may be launched has its file: the rows in place (once parked), the rows the
\* server has open, those it listed at its boot.
RowsHaveFiles(rows) == \A d \in Db : rows[d].status # "absent" /\ ~rows[d].pending => file[d] # "none"
RowFiles ==
  /\ \A d \in Db : file[d] # "empty" /\ store[d] # "empty" /\ staging[d] # "empty"
  /\ place \in parked \cup {0} => RowsHaveFiles(meta[place])
  /\ handle # NoFile => RowsHaveFiles(meta[handle])
  /\ \A r \in todo : file[r[1]] # "none"

\* A command past its look finds no file, unless one appeared since; what it
\* records is there.
CmdFile(c) ==
  /\ cmd[c].step \in {"restore", "check", "move"} => c \in late \/ file[cmd[c].cur] = "none"
  /\ cmd[c].step = "record" => file[cmd[c].cur] # "none"
CmdFiles == \A c \in Cmd : CmdFile(c)

DiskInv == RebuildTypeOK /\ GenInv /\ ServerInv /\ PendingInv /\ CmdInv
RebuildInv == DiskInv /\ (early \/ (RowFiles /\ CmdFiles))

----------------------------------------------------------------------------
(* Operators                                                               *)

LEMMA GenNumbers ==
  /\ MaxBoots \in Nat /\ MaxCmds \in Nat /\ MaxDeaths \in Nat /\ MaxCopies \in Nat /\ MaxFiles \in Nat
  /\ Gens \subseteq Nat /\ 0 \in Gens /\ NoFile \notin Gens /\ NoFile = -1
  /\ \A n \in Nat : n < MaxFiles => n + 1 \in Gens
BY RebuildAssumption DEF Gens, NoFile

LEMMA NoRowsAre ==
  NoRows \in [Db -> Row] /\ \A d \in Db : NoRows[d].status = "absent" /\ ~NoRows[d].pending
BY DEF NoRows, Row

\* The command of c becomes r, and the others stay as they are.
Becomes(c, r) == /\ cmd' \in [Cmd -> Commands] /\ cmd'[c] = r
                 /\ \A b \in Cmd \ {c} : cmd'[b] = cmd[b]

LEMMA Becoming ==
  ASSUME cmd \in [Cmd -> Commands], NEW c \in Cmd, NEW r \in Commands, cmd' = [cmd EXCEPT ![c] = r]
  PROVE  Becomes(c, r)
BY DEF Becomes

LEMMA Stepping ==
  ASSUME cmd \in [Cmd -> Commands], NEW c \in Cmd,
         NEW s \in {"done", "fetch", "write", "place", "keys", "park",
                    "list", "row", "restore", "check", "move", "record"},
         Step(c, s)
  PROVE  Becomes(c, [cmd[c] EXCEPT !.step = s]) /\ [cmd[c] EXCEPT !.step = s] \in Commands
<1>1. cmd[c] \in Commands
  OBVIOUS
<1>2. [cmd[c] EXCEPT !.step = s] \in Commands
  BY <1>1 DEF Commands
<1>3. cmd' = [cmd EXCEPT ![c] = [cmd[c] EXCEPT !.step = s]]
  BY DEF Step
<1> QED BY <1>2, <1>3, Becoming

LEMMA IdleIs == Idle \in Commands /\ Idle.step = "done" /\ Idle.opened = NoFile
BY DEF Idle, Commands

LEMMA Ending ==
  ASSUME cmd \in [Cmd -> Commands], NEW c \in Cmd, Ends(c)
  PROVE  Becomes(c, Idle)
BY IdleIs, Becoming DEF Ends

LEMMA NextRowing ==
  ASSUME cmd \in [Cmd -> Commands], NEW c \in Cmd, NextRow(c)
  PROVE  /\ Becomes(c, [cmd[c] EXCEPT !.step = "row", !.cur = NoDb])
         /\ [cmd[c] EXCEPT !.step = "row", !.cur = NoDb] \in Commands
<1>1. cmd[c] \in Commands
  OBVIOUS
<1>2. [cmd[c] EXCEPT !.step = "row", !.cur = NoDb] \in Commands
  BY <1>1 DEF Commands
<1>3. cmd' = [cmd EXCEPT ![c] = [cmd[c] EXCEPT !.step = "row", !.cur = NoDb]]
  BY DEF NextRow
<1> QED BY <1>2, <1>3, Becoming

\* Opening the metadata uses a new number if there is none.
LEMMA Opening ==
  ASSUME RebuildTypeOK, GenInv, OpenMetadata
  PROVE  /\ place' \in Gens /\ gens' \in Gens /\ place' <= gens' /\ gens' >= gens
         /\ gens' \in {gens, gens + 1} /\ gens \in Nat
         /\ \/ place' = place /\ gens' = gens /\ place # NoFile
            \/ /\ place = NoFile /\ place' = gens + 1 /\ gens' = gens + 1
               /\ meta[place'] = NoRows /\ place' \notin parked \cup {0}
<1>1. gens \in Nat /\ place \in Gens \cup {NoFile} /\ parked \subseteq Nat
  BY GenNumbers DEF RebuildTypeOK
<1>2. CASE place = NoFile
  <2>1. place' = gens + 1 /\ gens' = gens + 1 /\ gens + 1 \in Gens
    BY <1>1, <1>2, GenNumbers DEF OpenMetadata
  <2>2. meta[gens + 1] = NoRows /\ gens + 1 \notin parked \cup {0}
    BY <1>1, <2>1 DEF GenInv
  <2> QED BY <1>1, <1>2, <2>1, <2>2
<1>3. CASE place # NoFile
  BY <1>1, <1>3 DEF OpenMetadata, GenInv, RebuildTypeOK
<1> QED BY <1>2, <1>3

\* A number that is used leaves those not made yet without rows.
LEMMA OpeningKeepsNumbers ==
  ASSUME RebuildTypeOK, GenInv, OpenMetadata, UNCHANGED <<meta, parked>>,
         handle' \in {handle, place'},
         \A c \in Cmd : cmd'[c].opened \in {cmd[c].opened, place', NoFile}
  PROVE  GenInv'
<1>1. /\ place' <= gens' /\ gens' >= gens /\ gens' \in Nat /\ gens \in Nat /\ place' \in Nat
  BY Opening, GenNumbers
<1>2. \A g \in parked : g \in Nat /\ g <= gens'
  BY <1>1, GenNumbers DEF RebuildTypeOK, GenInv
<1>3. \A g \in Gens : g > gens' => meta'[g] = NoRows
  <2>1. \A g \in Gens : g > gens' => g > gens
    BY <1>1, GenNumbers
  <2> QED BY <2>1 DEF GenInv
<1>4. handle' <= gens'
  BY <1>1, GenNumbers DEF RebuildTypeOK, GenInv
<1>5. ASSUME NEW c \in Cmd PROVE cmd'[c].opened <= gens'
  <2>1. cmd[c] \in Commands
    BY DEF RebuildTypeOK
  <2>2. cmd[c].opened <= gens /\ cmd[c].opened \in Int
    BY <2>1, GenNumbers DEF GenInv, Commands
  <2>3. CASE cmd'[c].opened = cmd[c].opened
    BY <1>1, <2>2, <2>3
  <2>4. CASE cmd'[c].opened = place'
    BY <1>1, <2>4
  <2>5. CASE cmd'[c].opened = NoFile
    BY <1>1, <2>5, GenNumbers
  <2> QED BY <2>3, <2>4, <2>5
<1> QED BY <1>1, <1>2, <1>3, <1>4, <1>5 DEF GenInv

\* One row of one file is written.
LEMMA RowWritten ==
  ASSUME meta \in [Gens -> [Db -> Row]], NEW g \in Gens, NEW d \in Db, NEW row \in Row,
         meta' = [meta EXCEPT ![g][d] = row]
  PROVE  /\ meta' \in [Gens -> [Db -> Row]]
         /\ \A h \in Gens \ {g} : meta'[h] = meta[h]
         /\ meta'[g][d] = row
         /\ \A e \in Db \ {d} : meta'[g][e] = meta[g][e]
<1>1. meta[g] \in [Db -> Row]
  OBVIOUS
<1>2. [meta[g] EXCEPT ![d] = row] \in [Db -> Row]
  BY <1>1
<1>3. meta' = [meta EXCEPT ![g] = [meta[g] EXCEPT ![d] = row]]
  OBVIOUS
<1> QED BY <1>1, <1>2, <1>3

\* What a write leaves of the rows: none becomes pending, and none that could not
\* be launched before can be without its file.
RowsStay ==
  /\ meta' \in [Gens -> [Db -> Row]]
  /\ \A g \in Gens : g > gens => meta'[g] = meta[g]
  /\ \A g \in Gens, d \in Db :
       meta'[g][d].pending => meta[g][d].pending /\ meta'[g][d].status = "stopped"
RowsFilled ==
  \A g \in Gens, d \in Db :
    meta'[g][d].status # "absent" /\ ~meta'[g][d].pending
      => file'[d] # "none" \/ (meta[g][d].status # "absent" /\ ~meta[g][d].pending)

LEMMA OneRowStays ==
  ASSUME RebuildTypeOK, GenInv, PendingInv, NEW g \in Gens, g <= gens, NEW d \in Db, NEW row \in Row,
         meta' = [meta EXCEPT ![g][d] = row],
         row.pending => meta[g][d].pending /\ row.status = "stopped"
  PROVE  RowsStay /\ (file'[d] # "none" => RowsFilled)
<1>1. /\ meta' \in [Gens -> [Db -> Row]]
      /\ \A h \in Gens \ {g} : meta'[h] = meta[h]
      /\ meta'[g][d] = row
      /\ \A e \in Db \ {d} : meta'[g][e] = meta[g][e]
  BY RowWritten DEF RebuildTypeOK
<1>2. \A h \in Gens : h > gens => h # g
  BY GenNumbers DEF RebuildTypeOK
<1>3. \A h \in Gens, e \in Db : meta'[h][e] = meta[h][e] \/ (h = g /\ e = d)
  BY <1>1
<1>4. RowsStay
  BY <1>1, <1>2, <1>3 DEF RowsStay, PendingInv
<1>5. ASSUME file'[d] # "none" PROVE RowsFilled
  BY <1>3, <1>5 DEF RowsFilled
<1> QED BY <1>4, <1>5

\* No file is made or removed, and none becomes empty.
FilesStay ==
  \A e \in Db : /\ file'[e] = "empty" => file[e] = "empty"
                /\ (file'[e] = "none" <=> file[e] = "none")

\* A launch loses no key of the backup, makes no file disappear, and makes an
\* empty one only where there is none.
LEMMA Launching ==
  ASSUME RebuildTypeOK, GenInv, PendingInv, handle \in Gens, NEW d \in Db, Launch(d)
  PROVE  /\ RowsStay /\ RowsFilled
         /\ key' \in [Db -> Keys] /\ file' \in [Db -> Content]
         /\ wal' \in [Db -> {"none", "own", "other"}] /\ served' \subseteq Db
         /\ \A e \in Db : key[e] = "backup" => key'[e] = "backup"
         /\ file[d] # "none" => FilesStay
<1>1. /\ meta \in [Gens -> [Db -> Row]] /\ key \in [Db -> Keys] /\ file \in [Db -> Content]
      /\ wal \in [Db -> {"none", "own", "other"}] /\ served \subseteq Db
  BY DEF RebuildTypeOK
<1>2. /\ key' \in [Db -> Keys]
      /\ \A e \in Db : key[e] = "backup" => key'[e] = "backup"
  <2>1. key' = key \/ (key[d] = "none" /\ key' = [key EXCEPT ![d] = "fresh"])
    BY DEF Launch
  <2> QED BY <1>1, <2>1 DEF Keys
<1>3. RowsStay /\ (file'[d] # "none" => RowsFilled)
  <2>1. PICK s \in {"failed", "running"} :
          SetRow(d, [meta[handle][d] EXCEPT !.status = s, !.pending = FALSE])
    BY DEF Launch
  <2> DEFINE row == [meta[handle][d] EXCEPT !.status = s, !.pending = FALSE]
  <2>2. meta[handle][d] \in Row
    BY <1>1
  <2>3. row \in Row /\ ~row.pending
    BY <2>2 DEF Row
  <2>4. meta' = [meta EXCEPT ![handle][d] = row]
    BY <2>1 DEF SetRow
  <2>5. handle <= gens
    BY DEF GenInv
  <2> HIDE DEF row
  <2> QED BY <2>3, <2>4, <2>5, OneRowStays
<1>4. CASE file[d] = "junk"
  BY <1>1, <1>2, <1>3, <1>4 DEF Launch, FilesStay
<1>5. CASE file[d] # "junk"
  <2> DEFINE new == IF file[d] = "none" THEN "empty" ELSE IF wal[d] = "other" THEN "mixed" ELSE file[d]
  <2>1. /\ file' = [file EXCEPT ![d] = new]
        /\ wal' = [wal EXCEPT ![d] = "own"] /\ served' = served \cup {d}
    BY <1>5 DEF Launch
  <2>2. new \in Content /\ new # "none" /\ (file[d] # "none" => (new = "empty" => file[d] = "empty"))
    BY <1>1 DEF Content
  <2> HIDE DEF new
  <2>3. file' \in [Db -> Content] /\ wal' \in [Db -> {"none", "own", "other"}] /\ served' \subseteq Db
    BY <1>1, <2>1, <2>2
  <2>4. file'[d] = new /\ \A e \in Db \ {d} : file'[e] = file[e]
    BY <1>1, <2>1
  <2> QED BY <1>2, <1>3, <2>2, <2>3, <2>4 DEF FilesStay
<1> QED BY <1>4, <1>5

\* Commands that do not move keep what they rely on while no key of the backup goes.
LEMMA CommandsKeep ==
  ASSUME CmdInv, bundle' = bundle,
         \A d \in Db : key[d] = "backup" => key'[d] = "backup",
         \A b \in Cmd : cmd'[b] = cmd[b] \/ CmdOk(b)'
  PROVE  CmdInv'
<1>1. BundleKeys' = BundleKeys /\ BundleKeys \subseteq Db
  BY DEF BundleKeys
<1>2. ASSUME NEW b \in Cmd, cmd'[b] = cmd[b] PROVE CmdOk(b)'
  BY <1>1, <1>2 DEF CmdInv, CmdOk
<1> QED BY <1>2 DEF CmdInv

\* The same of the files: none goes, and what appears makes them late.
LEMMA CommandsKeepFiles ==
  ASSUME CmdInv, CmdFiles,
         \A e \in Db : file'[e] = "none" => file[e] = "none",
         \A b \in Cmd : \/ CmdFile(b)'
                        \/ /\ cmd'[b] = cmd[b] /\ (b \in late => b \in late')
                           /\ \A e \in Db : Looked(b, e) /\ file'[e] # "none"
                                              => b \in late' \/ file[e] # "none"
  PROVE  CmdFiles'
<1> SUFFICES ASSUME NEW b \in Cmd, cmd'[b] = cmd[b], b \in late => b \in late',
                    \A e \in Db : Looked(b, e) /\ file'[e] # "none" => b \in late' \/ file[e] # "none"
             PROVE  CmdFile(b)'
  BY DEF CmdFiles
<1>1. CmdOk(b) /\ CmdFile(b)
  BY DEF CmdInv, CmdFiles
<1>2. CASE cmd[b].step \in {"restore", "check", "move"}
  <2>1. cmd[b].cur \in Db /\ Looked(b, cmd[b].cur)
    BY <1>1, <1>2 DEF CmdOk, Looked
  <2> QED BY <1>1, <1>2, <2>1 DEF CmdFile
<1>3. CASE cmd[b].step = "record"
  BY <1>1, <1>3 DEF CmdFile, CmdOk
<1> QED BY <1>2, <1>3 DEF CmdFile
----------------------------------------------------------------------------
(* The server                                                              *)

\* A write of rows, and perhaps a first key, that leaves the metadata files alone.
LEMMA RowsWritten ==
  ASSUME RebuildTypeOK, GenInv, PendingInv, CmdInv, RowsStay,
         \A d \in Db : key[d] = "backup" => key'[d] = "backup",
         \A c \in Cmd : cmd'[c].opened \in {cmd[c].opened, NoFile},
         handle' \in {handle, NoFile},
         UNCHANGED <<place, parked, gens, bundle>>
  PROVE  GenInv' /\ PendingInv'
<1>1. BundleKeys' = BundleKeys
  BY DEF BundleKeys
<1>2. gens \in Nat
  BY GenNumbers DEF RebuildTypeOK
<1>3. GenInv'
  BY <1>2, GenNumbers DEF RowsStay, GenInv
<1>4. PendingInv'
  BY <1>1 DEF RowsStay, PendingInv, BundleKeys
<1> QED BY <1>3, <1>4

\* The rows keep their files when rows are written and no file goes away.
LEMMA RowsKeepFiles ==
  ASSUME RebuildTypeOK, RowFiles, meta' \in [Gens -> [Db -> Row]], RowsFilled,
         UNCHANGED <<place, parked>>, handle' \in {handle, NoFile}, todo' \subseteq todo,
         \A e \in Db : /\ file'[e] = "none" => file[e] = "none"
                       /\ file'[e] # "empty" /\ store'[e] # "empty" /\ staging'[e] # "empty"
  PROVE  RowFiles'
<1>1. \A g \in Gens : RowsHaveFiles(meta[g]) => RowsHaveFiles(meta[g])'
  BY DEF RowsHaveFiles, RowsFilled
<1>2. handle \in Gens \cup {NoFile} /\ parked \cup {0} \subseteq Gens
  BY GenNumbers DEF RebuildTypeOK
<1>3. place \in parked \cup {0} => RowsHaveFiles(meta[place])'
  BY <1>1, <1>2 DEF RowFiles
<1>4. handle' # NoFile => RowsHaveFiles(meta[handle])'
  BY <1>1, <1>2 DEF RowFiles
<1>5. ASSUME NEW r \in todo' PROVE file'[r[1]] # "none"
  <2>1. r \in todo /\ r[1] \in Db
    BY <1>5 DEF RebuildTypeOK
  <2> QED BY <2>1 DEF RowFiles
<1> QED BY <1>3, <1>4, <1>5 DEF RowFiles

\* A step of the server on rows it has open.
LEMMA ServerWrites ==
  ASSUME RebuildInv, RowsStay, handle \in Gens, server' \in {"booting", "up"}, server # "off",
         \A d \in Db : key[d] = "backup" => key'[d] = "backup",
         todo' \subseteq todo, RebuildTypeOK',
         early \/ (RowsFilled /\ FilesStay),
         UNCHANGED <<place, parked, gens, store, staging, bundle, handle, early, cmd, late>>
  PROVE  RebuildInv'
<1>1. DiskInv
  BY DEF RebuildInv
<1>2. GenInv' /\ PendingInv'
  BY <1>1, RowsWritten DEF DiskInv
<1>3. ServerInv'
  BY GenNumbers DEF ServerInv
<1>4. CmdInv'
  BY <1>1, CommandsKeep DEF DiskInv
<1>5. ASSUME ~early
      PROVE  RowFiles' /\ CmdFiles'
  <2>1. RowFiles /\ CmdFiles /\ RowsFilled /\ FilesStay /\ RebuildTypeOK
    BY <1>1, <1>5 DEF RebuildInv, DiskInv
  <2>2. \A e \in Db : /\ file'[e] = "none" => file[e] = "none"
                      /\ file'[e] # "empty" /\ store'[e] # "empty" /\ staging'[e] # "empty"
    BY <2>1 DEF RowFiles, FilesStay
  <2>3. RowFiles'
    BY <2>1, <2>2, RowsKeepFiles DEF RowsStay
  <2>4. CmdFiles'
    BY <1>1, <2>1, CommandsKeepFiles DEF DiskInv, FilesStay
  <2> QED BY <2>3, <2>4
<1> QED BY <1>2, <1>3, <1>4, <1>5 DEF RebuildInv, DiskInv

\* The server on a file where reconcile() relaunches only what has one.
LEMMA LaunchKeeps ==
  ASSUME RebuildInv, handle \in Gens, server # "off", NEW d \in Db, Launch(d),
         early \/ file[d] # "none",
         UNCHANGED <<place, parked, staging, gens, store, bundle, server, handle, early, counts, cmd, late>>,
         todo' \subseteq todo
  PROVE  RebuildInv'
<1>1. /\ RowsStay /\ RowsFilled
      /\ key' \in [Db -> Keys] /\ file' \in [Db -> Content]
      /\ wal' \in [Db -> {"none", "own", "other"}] /\ served' \subseteq Db
      /\ \A e \in Db : key[e] = "backup" => key'[e] = "backup"
      /\ file[d] # "none" => FilesStay
  BY Launching DEF RebuildInv, DiskInv
<1>2. RebuildTypeOK'
  BY <1>1 DEF RebuildInv, DiskInv, RebuildTypeOK, RowsStay, counts
<1>3. server' \in {"booting", "up"}
  BY DEF RebuildInv, DiskInv, RebuildTypeOK
<1>4. early \/ (RowsFilled /\ FilesStay)
  BY <1>1
<1> QED BY <1>1, <1>2, <1>3, <1>4, ServerWrites

LEMMA BootKeeps == ASSUME RebuildInv, Boot PROVE RebuildInv'
<1>0. /\ RebuildTypeOK /\ GenInv /\ PendingInv /\ CmdInv /\ OpenMetadata
      /\ boots \in Nat /\ boots < MaxBoots
  BY GenNumbers DEF RebuildInv, DiskInv, RebuildTypeOK, Boot
<1>1. /\ server' = "booting" /\ handle' = place' /\ todo' = Tracked(meta[place'])
      /\ boots' = boots + 1
      /\ UNCHANGED <<meta, parked, key, file, wal, staging, store, bundle, served, cmd, late,
                     cmds, deaths, copies>>
      /\ early' = (early \/ (place' \notin parked \cup {0} /\ meta[place'] # NoRows))
  BY DEF Boot, world
<1>2. /\ place' \in Gens /\ gens' \in Gens
      /\ \/ place' = place /\ gens' = gens /\ place # NoFile
         \/ meta[place'] = NoRows /\ place' \notin parked \cup {0}
  BY <1>0, Opening
<1>3. meta[place'] \in [Db -> Row]
  BY <1>0, <1>2 DEF RebuildTypeOK
<1>4. RebuildTypeOK'
  <2>1. todo' \subseteq Db \X BOOLEAN
    BY <1>1, <1>3 DEF Tracked, Row
  <2>2. early' \in BOOLEAN
    BY <1>1
  <2>3. boots' \in 0 .. MaxBoots
    BY <1>0, <1>1, GenNumbers
  <2> QED BY <1>0, <1>1, <1>2, <2>1, <2>2, <2>3 DEF RebuildTypeOK
<1>5. GenInv'
  BY <1>0, <1>1, OpeningKeepsNumbers
<1>6. ServerInv'
  BY <1>1, <1>2, GenNumbers DEF ServerInv
<1>7. PendingInv' /\ CmdInv'
  <2>1. BundleKeys' = BundleKeys
    BY <1>1 DEF BundleKeys
  <2>2. PendingInv'
    BY <1>0, <1>1, <2>1 DEF PendingInv
  <2>3. CmdInv'
    BY <1>0, <1>1, CommandsKeep
  <2> QED BY <2>2, <2>3
<1>8. ASSUME ~early'
      PROVE  RowFiles' /\ CmdFiles'
  <2>1. RowFiles /\ CmdFiles /\ (place' \notin parked \cup {0} => meta[place'] = NoRows)
    BY <1>1, <1>8 DEF RebuildInv
  <2>2. RowsHaveFiles(meta[place'])
    <3>1. CASE place' \in parked \cup {0}
      BY <1>2, <2>1, <3>1 DEF RowFiles
    <3>2. CASE place' \notin parked \cup {0}
      BY <2>1, <3>2, NoRowsAre DEF RowsHaveFiles
    <3> QED BY <3>1, <3>2
  <2>3. ASSUME NEW r \in todo'
        PROVE  file[r[1]] # "none"
    <3>1. PICK d \in Db : r[1] = d /\ meta[place'][d].status \in {"running", "starting", "failed", "interrupted"}
      BY <1>1, <2>3 DEF Tracked
    <3>2. ~meta[place'][d].pending
      BY <1>0, <1>2, <3>1 DEF PendingInv
    <3> QED BY <2>2, <3>1, <3>2 DEF RowsHaveFiles
  <2>4. RowFiles'
    <3>1. RowsHaveFiles(meta[place])' /\ RowsHaveFiles(meta[handle])'
      BY <1>1, <2>2 DEF RowsHaveFiles
    <3> QED BY <1>1, <2>1, <2>3, <3>1 DEF RowFiles
  <2>5. CmdFiles'
    BY <1>1, <2>1 DEF CmdFiles, CmdFile
  <2> QED BY <2>4, <2>5
<1> QED BY <1>4, <1>5, <1>6, <1>7, <1>8 DEF RebuildInv, DiskInv

LEMMA ReconcileKeeps == ASSUME RebuildInv, Reconcile PROVE RebuildInv'
<1>0. /\ RebuildTypeOK /\ GenInv /\ PendingInv /\ handle \in Gens /\ handle <= gens /\ server = "booting"
      /\ UNCHANGED <<place, parked, staging, gens, store, bundle, server, handle, early,
                     boots, cmds, deaths, copies, cmd, late>>
  BY DEF RebuildInv, DiskInv, RebuildTypeOK, ServerInv, GenInv, Reconcile, world, counts
<1>1. PICK r \in todo :
        /\ todo' = todo \ {r}
        /\ \/ r[2] /\ Launch(r[1])
           \/ /\ ~r[2]
              /\ SetRow(r[1], [meta[handle][r[1]] EXCEPT !.status = "stopped"])
              /\ UNCHANGED <<key, file, wal, served>>
  BY DEF Reconcile
<1>2. r[1] \in Db /\ (early \/ file[r[1]] # "none") /\ todo' \subseteq todo
  BY <1>0, <1>1 DEF RebuildTypeOK, RebuildInv, RowFiles
<1>3. CASE r[2] /\ Launch(r[1])
  BY <1>0, <1>2, <1>3, LaunchKeeps DEF counts
<1>4. CASE /\ ~r[2]
           /\ SetRow(r[1], [meta[handle][r[1]] EXCEPT !.status = "stopped"])
           /\ UNCHANGED <<key, file, wal, served>>
  <2> DEFINE row == [meta[handle][r[1]] EXCEPT !.status = "stopped"]
  <2>1. meta[handle][r[1]] \in Row
    BY <1>0, <1>2 DEF RebuildTypeOK
  <2>2. row \in Row /\ (row.pending => meta[handle][r[1]].pending /\ row.status = "stopped")
    BY <2>1 DEF Row
  <2>3. meta' = [meta EXCEPT ![handle][r[1]] = row]
    BY <1>4 DEF SetRow
  <2> HIDE DEF row
  <2>4. RowsStay /\ (file'[r[1]] # "none" => RowsFilled)
    BY <1>0, <1>2, <2>2, <2>3, OneRowStays
  <2>5. FilesStay
    BY <1>4 DEF FilesStay
  <2>6. RebuildTypeOK'
    BY <1>0, <1>2, <1>4, <2>4 DEF RebuildTypeOK, RowsStay
  <2> QED BY <1>0, <1>2, <1>4, <2>4, <2>5, <2>6, ServerWrites
<1> QED BY <1>1, <1>3, <1>4

LEMMA ListenKeeps == ASSUME RebuildInv, Listen PROVE RebuildInv'
<1>0. /\ RebuildTypeOK /\ GenInv /\ PendingInv /\ handle \in Gens /\ handle <= gens
      /\ server = "booting" /\ server' = "up"
      /\ UNCHANGED <<place, parked, key, file, wal, staging, gens, store, bundle, handle, todo, served,
                     early, boots, cmds, deaths, copies, cmd, late>>
  BY DEF RebuildInv, DiskInv, RebuildTypeOK, ServerInv, GenInv, Listen, world, counts
<1> DEFINE rows == [d \in Db |-> IF meta[handle][d].status = "restoring"
                                 THEN [meta[handle][d] EXCEPT !.status = "interrupted"]
                                 ELSE meta[handle][d]]
<1>1. meta' = [meta EXCEPT ![handle] = rows]
  BY DEF Listen
<1>2. meta \in [Gens -> [Db -> Row]]
  BY <1>0 DEF RebuildTypeOK
<1>3. \A d \in Db : /\ rows[d] \in Row
                    /\ rows[d].pending => meta[handle][d].pending /\ rows[d].status = "stopped"
                    /\ rows[d].status # "absent" /\ ~rows[d].pending
                         => meta[handle][d].status # "absent" /\ ~meta[handle][d].pending
  <2> SUFFICES ASSUME NEW d \in Db
               PROVE  /\ rows[d] \in Row
                      /\ rows[d].pending => meta[handle][d].pending /\ rows[d].status = "stopped"
                      /\ rows[d].status # "absent" /\ ~rows[d].pending
                           => meta[handle][d].status # "absent" /\ ~meta[handle][d].pending
    OBVIOUS
  <2>1. meta[handle][d] \in Row /\ (meta[handle][d].pending => meta[handle][d].status = "stopped")
    BY <1>0, <1>2 DEF PendingInv
  <2> QED BY <2>1 DEF Row
<1>4. rows \in [Db -> Row]
  BY <1>3
<1> HIDE DEF rows
<1>5. RowsStay /\ RowsFilled
  <2>1. /\ meta' \in [Gens -> [Db -> Row]] /\ meta'[handle] = rows
        /\ \A g \in Gens \ {handle} : meta'[g] = meta[g]
    BY <1>0, <1>1, <1>2, <1>4
  <2>2. \A g \in Gens : g > gens => g # handle
    BY <1>0, GenNumbers DEF RebuildTypeOK
  <2> QED BY <1>0, <1>3, <2>1, <2>2 DEF RowsStay, RowsFilled, PendingInv
<1>6. FilesStay
  BY <1>0 DEF FilesStay
<1>7. RebuildTypeOK'
  BY <1>0, <1>5 DEF RebuildTypeOK, RowsStay
<1> QED BY <1>0, <1>5, <1>6, <1>7, ServerWrites

LEMMA StartKeeps == ASSUME RebuildInv, NEW d \in Db, Start(d) PROVE RebuildInv'
<1>1. /\ handle \in Gens /\ server # "off" /\ Launch(d) /\ MayStart(meta[handle][d])
      /\ UNCHANGED <<place, parked, staging, gens, store, bundle, server, handle, todo, early, counts,
                     cmd, late>>
  BY DEF Start, RebuildInv, DiskInv, ServerInv, RebuildTypeOK, world
<1>2. early \/ file[d] # "none"
  BY <1>1, GenNumbers DEF RebuildInv, RowFiles, RowsHaveFiles, MayStart
<1> QED BY <1>1, <1>2, LaunchKeeps

LEMMA ReplicateKeeps == ASSUME RebuildInv, NEW d \in Db, Replicate(d) PROVE RebuildInv'
<1>1. /\ store' = [store EXCEPT ![d] = file[d]]
      /\ UNCHANGED <<place, meta, parked, key, file, wal, staging, gens, bundle, server, handle, todo,
                     served, early, boots, cmds, deaths, copies, cmd, late>>
  BY DEF Replicate, disk, daemon, counts
<1>2. RebuildTypeOK'
  <2>1. store' \in [Db -> Content]
    BY <1>1 DEF RebuildInv, DiskInv, RebuildTypeOK
  <2> QED BY <1>1, <2>1 DEF RebuildInv, DiskInv, RebuildTypeOK
<1>3. GenInv' /\ ServerInv' /\ PendingInv' /\ CmdInv'
  <2>1. BundleKeys' = BundleKeys
    BY <1>1 DEF BundleKeys
  <2> QED BY <1>1, <2>1 DEF RebuildInv, DiskInv, GenInv, ServerInv, PendingInv, CmdInv, CmdOk
<1>4. ASSUME ~early
      PROVE  RowFiles' /\ CmdFiles'
  <2>1. \A e \in Db : store'[e] # "empty"
    BY <1>1, <1>4 DEF RebuildInv, DiskInv, RebuildTypeOK, RowFiles
  <2>2. RowFiles'
    BY <1>1, <1>4, <2>1 DEF RebuildInv, RowFiles, RowsHaveFiles
  <2> QED BY <1>1, <1>4, <2>2 DEF RebuildInv, CmdFiles, CmdFile
<1> QED BY <1>1, <1>2, <1>3, <1>4 DEF RebuildInv, DiskInv

LEMMA ServerEndsKeeps == ASSUME RebuildInv, ServerEnds PROVE RebuildInv'
<1>1. /\ server' = "off" /\ handle' = NoFile /\ todo' = {} /\ served' = {}
      /\ UNCHANGED <<place, meta, parked, key, file, wal, staging, gens, store, bundle, early,
                     boots, cmds, deaths, copies, cmd, late>>
  BY DEF ServerEnds, disk, world, counts
<1>2. RebuildTypeOK'
  BY <1>1 DEF RebuildInv, DiskInv, RebuildTypeOK
<1>3. GenInv' /\ ServerInv' /\ PendingInv' /\ CmdInv'
  <2>1. BundleKeys' = BundleKeys
    BY <1>1 DEF BundleKeys
  <2>2. NoFile <= gens
    BY GenNumbers DEF RebuildInv, DiskInv, RebuildTypeOK
  <2> QED BY <1>1, <2>1, <2>2 DEF RebuildInv, DiskInv, GenInv, ServerInv, PendingInv, CmdInv, CmdOk
<1>4. ASSUME ~early
      PROVE  RowFiles' /\ CmdFiles'
  BY <1>1, <1>4 DEF RebuildInv, RowFiles, CmdFiles, CmdFile, RowsHaveFiles
<1> QED BY <1>1, <1>2, <1>3, <1>4 DEF RebuildInv, DiskInv
----------------------------------------------------------------------------
(* The commands                                                            *)

\* A step of the command c that writes at most rows and staged files.
LEMMA CommandWrites ==
  ASSUME RebuildInv, NEW c \in Cmd, NEW r \in Commands, Becomes(c, r),
         r.opened \in {cmd[c].opened, NoFile},
         RowsStay, RebuildTypeOK', CmdOk(c)',
         \A d \in Db : key[d] = "backup" => key'[d] = "backup",
         UNCHANGED <<place, parked, gens, bundle, server, handle, todo, early>>,
         early \/ /\ RowsFilled /\ CmdFile(c)'
                  /\ \A d \in Db : /\ file'[d] = "none" => file[d] = "none"
                                   /\ file'[d] # "empty" /\ store'[d] # "empty" /\ staging'[d] # "empty"
                  /\ \A b \in Cmd \ {c} :
                       /\ b \in late => b \in late'
                       /\ \A e \in Db : Looked(b, e) /\ file'[e] # "none" => b \in late' \/ file[e] # "none"
  PROVE  RebuildInv'
<1>1. DiskInv
  BY DEF RebuildInv
<1>2. \A b \in Cmd : cmd'[b].opened \in {cmd[b].opened, NoFile}
  BY DEF Becomes
<1>3. GenInv' /\ PendingInv'
  BY <1>1, <1>2, RowsWritten DEF DiskInv
<1>4. ServerInv'
  BY <1>1 DEF DiskInv, ServerInv
<1>5. CmdInv'
  <2>1. \A b \in Cmd : cmd'[b] = cmd[b] \/ CmdOk(b)'
    BY DEF Becomes
  <2> QED BY <1>1, <2>1, CommandsKeep DEF DiskInv
<1>6. ASSUME ~early
      PROVE  RowFiles' /\ CmdFiles'
  <2>1. RowFiles /\ CmdFiles /\ RowsFilled /\ RebuildTypeOK /\ CmdInv
    BY <1>1, <1>6 DEF RebuildInv, DiskInv
  <2>2. RowFiles'
    BY <1>6, <2>1, RowsKeepFiles DEF RowsStay
  <2>3. \A b \in Cmd : \/ CmdFile(b)'
                       \/ /\ cmd'[b] = cmd[b] /\ (b \in late => b \in late')
                          /\ \A e \in Db : Looked(b, e) /\ file'[e] # "none"
                                             => b \in late' \/ file[e] # "none"
    BY <1>6 DEF Becomes
  <2>4. CmdFiles'
    BY <1>6, <2>1, <2>3, CommandsKeepFiles
  <2> QED BY <2>2, <2>4
<1> QED BY <1>3, <1>4, <1>5, <1>6 DEF RebuildInv, DiskInv

\* A step of the command c that writes neither rows nor data files.
LEMMA CommandMoves ==
  ASSUME RebuildInv, NEW c \in Cmd, NEW r \in Commands, Becomes(c, r),
         r.opened \in {cmd[c].opened, NoFile},
         UNCHANGED <<place, meta, parked, file, wal, gens, store, bundle, server, handle, todo,
                     served, early, boots>>,
         cmds' \in 0 .. MaxCmds, deaths' \in 0 .. MaxDeaths, copies' \in 0 .. MaxCopies,
         key' \in [Db -> Keys], \A d \in Db : key[d] = "backup" => key'[d] = "backup",
         staging' \in [Db -> Content],
         early \/ \A d \in Db : staging'[d] # "empty",
         late' \subseteq Cmd, \A b \in Cmd \ {c} : b \in late => b \in late',
         CmdOk(c)', early \/ CmdFile(c)'
  PROVE  RebuildInv'
<1>1. RebuildTypeOK'
  BY DEF RebuildInv, DiskInv, RebuildTypeOK, Becomes
<1>2. RowsStay
  BY DEF RowsStay, RebuildInv, DiskInv, RebuildTypeOK, PendingInv
<1>3. RowsFilled
  BY DEF RowsFilled
<1>4. early \/ \A d \in Db : file[d] # "empty" /\ store[d] # "empty"
  BY DEF RebuildInv, RowFiles
<1> QED BY <1>1, <1>2, <1>3, <1>4, CommandWrites

\* The command of c as it stands.
LEMMA CommandIs ==
  ASSUME RebuildInv, NEW c \in Cmd
  PROVE  /\ cmd \in [Cmd -> Commands] /\ cmd[c] \in Commands /\ CmdOk(c)
         /\ early \/ CmdFile(c)
         /\ cmds \in 0 .. MaxCmds /\ deaths \in 0 .. MaxDeaths /\ copies \in 0 .. MaxCopies
         /\ key \in [Db -> Keys] /\ staging \in [Db -> Content] /\ late \subseteq Cmd
         /\ early \/ \A d \in Db : staging[d] # "empty"
BY DEF RebuildInv, DiskInv, RebuildTypeOK, CmdInv, CmdFiles, RowFiles

\* A command that ends, in whatever way.
LEMMA EndsKeeps ==
  ASSUME RebuildInv, NEW c \in Cmd, Ends(c),
         UNCHANGED <<place, meta, parked, key, file, wal, staging, gens, store, bundle, server, handle,
                     todo, served, early, late, boots, cmds, copies>>,
         deaths' \in 0 .. MaxDeaths
  PROVE  RebuildInv'
<1>1. Becomes(c, Idle)
  BY CommandIs, Ending
<1>2. CmdOk(c)' /\ CmdFile(c)'
  BY <1>1, IdleIs DEF CmdOk, CmdFile, Becomes
<1> QED BY <1>1, <1>2, IdleIs, CommandIs, CommandMoves

LEMMA CommandDiesKeeps ==
  ASSUME RebuildInv, NEW c \in Cmd, EndData(c) \/ CommandDies(c)
  PROVE  RebuildInv'
<1>1. deaths' \in 0 .. MaxDeaths
  BY GenNumbers, CommandIs DEF EndData, CommandDies, counts
<1> QED BY <1>1, EndsKeeps DEF EndData, CommandDies, disk, world, daemon, counts

\* A command that goes on to a step that relies on nothing.
LEMMA StepKeeps ==
  ASSUME RebuildInv, NEW c \in Cmd, NEW s \in {"fetch", "write", "place"}, Step(c, s),
         UNCHANGED <<place, meta, parked, key, file, wal, staging, gens, store, bundle, server, handle,
                     todo, served, early, late, counts>>
  PROVE  RebuildInv'
<1> DEFINE r == [cmd[c] EXCEPT !.step = s]
<1>1. Becomes(c, r) /\ r \in Commands
  BY CommandIs, Stepping
<1>2. r.step = s /\ r.opened = cmd[c].opened
  BY CommandIs DEF Commands
<1> HIDE DEF r
<1>3. CmdOk(c)' /\ CmdFile(c)'
  BY <1>1, <1>2 DEF CmdOk, CmdFile, Becomes
<1> QED BY <1>1, <1>2, <1>3, CommandIs, CommandMoves DEF counts

LEMMA FetchKeeps == ASSUME RebuildInv, NEW c \in Cmd, Fetch(c) PROVE RebuildInv'
<1>1. /\ UNCHANGED <<place, meta, parked, key, file, wal, staging, gens, store, bundle, server, handle,
                     todo, served, early, late, boots, cmds, deaths, copies>>
      /\ Step(c, "write") \/ Ends(c)
  BY DEF Fetch, disk, world, daemon, counts
<1> QED BY <1>1, EndsKeeps, StepKeeps, CommandIs DEF counts

LEMMA CommandKeeps ==
  ASSUME RebuildInv, NEW c \in Cmd, NEW name \in {"control", "data"}, Command(c, name)
  PROVE  RebuildInv'
<1> DEFINE r == [Idle EXCEPT !.name = name, !.step = IF name = "control" THEN "fetch" ELSE "list"]
<1>1. /\ UNCHANGED <<place, meta, parked, key, file, wal, staging, gens, store, bundle, server, handle,
                     todo, served, early, late, boots, deaths, copies>>
      /\ cmds < MaxCmds /\ cmds' = cmds + 1 /\ cmd' = [cmd EXCEPT ![c] = r]
  BY DEF Command, disk, world, daemon
<1>2. r \in Commands /\ r.step \in {"fetch", "list"} /\ r.opened = NoFile
  BY DEF Idle, Commands
<1> HIDE DEF r
<1>3. Becomes(c, r)
  BY <1>1, <1>2, CommandIs, Becoming
<1>4. CmdOk(c)' /\ CmdFile(c)'
  BY <1>2, <1>3 DEF CmdOk, CmdFile, Becomes
<1>5. cmds' \in 0 .. MaxCmds
  BY <1>1, CommandIs, GenNumbers
<1> QED BY <1>1, <1>2, <1>3, <1>4, <1>5, CommandIs, CommandMoves

\* A step that only takes the metadata file away.
LEMMA MoveAsideKeeps == ASSUME RebuildInv, NEW c \in Cmd, MoveAside(c) PROVE RebuildInv'
<1>1. /\ UNCHANGED <<meta, parked, key, file, wal, staging, gens, store, bundle, server, handle, todo,
                     served, early, late, boots, cmds, deaths, copies>>
      /\ Step(c, "place") \/ Ends(c)
      /\ place' \in {place, NoFile}
  BY DEF MoveAside, world, daemon, counts
<1>2. PICK r \in Commands : Becomes(c, r) /\ r.step \in {"place", "done"}
                            /\ r.opened \in {cmd[c].opened, NoFile}
  <2>1. CASE Ends(c)
    BY <2>1, CommandIs, Ending, IdleIs
  <2>2. CASE Step(c, "place")
    <3>1. [cmd[c] EXCEPT !.step = "place"].step = "place"
          /\ [cmd[c] EXCEPT !.step = "place"].opened = cmd[c].opened
      BY CommandIs DEF Commands
    <3> QED BY <2>2, <3>1, CommandIs, Stepping
  <2> QED BY <1>1, <2>1, <2>2
<1>3. CmdOk(c)' /\ CmdFile(c)'
  BY <1>2 DEF CmdOk, CmdFile, Becomes
<1>4. RebuildTypeOK'
  BY <1>1, <1>2 DEF RebuildInv, DiskInv, RebuildTypeOK, Becomes
<1>5. GenInv' /\ ServerInv' /\ PendingInv'
  <2>1. BundleKeys' = BundleKeys
    BY <1>1 DEF BundleKeys
  <2>2. NoFile <= gens
    BY GenNumbers DEF RebuildInv, DiskInv, RebuildTypeOK
  <2> QED BY <1>1, <1>2, <2>1, <2>2 DEF RebuildInv, DiskInv, GenInv, ServerInv, PendingInv, Becomes
<1>6. CmdInv'
  <2>1. \A b \in Cmd : cmd'[b] = cmd[b] \/ CmdOk(b)'
    BY <1>2, <1>3 DEF Becomes
  <2> QED BY <1>1, <2>1, CommandsKeep DEF RebuildInv, DiskInv
<1>7. ASSUME ~early
      PROVE  RowFiles' /\ CmdFiles'
  <2>1. NoFile \notin parked \cup {0}
    BY GenNumbers DEF RebuildInv, DiskInv, RebuildTypeOK
  <2>2. RowFiles'
    BY <1>1, <1>7, <2>1 DEF RebuildInv, RowFiles, RowsHaveFiles
  <2>3. CmdFiles'
    BY <1>1, <1>2, <1>3, <1>7 DEF RebuildInv, CmdFiles, CmdFile, Becomes
  <2> QED BY <2>2, <2>3
<1> QED BY <1>1, <1>4, <1>5, <1>6, <1>7 DEF RebuildInv, DiskInv

LEMMA PlaceMetadataKeeps == ASSUME RebuildInv, NEW c \in Cmd, PlaceMetadata(c) PROVE RebuildInv'
<1> DEFINE r == [cmd[c] EXCEPT !.step = "keys", !.left = BundleKeys]
<1>1. /\ UNCHANGED <<parked, key, file, wal, staging, store, bundle, server, handle, todo,
                     served, early, late, boots, cmds, deaths, copies>>
      /\ place' = gens + 1 /\ gens' = gens + 1 /\ gens < MaxFiles
      /\ meta' = [meta EXCEPT ![gens + 1] = bundle]
      /\ cmd' = [cmd EXCEPT ![c] = r]
  BY DEF PlaceMetadata, world, daemon, counts
<1>2. BundleKeys \subseteq Db /\ BundleKeys' = BundleKeys
  BY <1>1 DEF BundleKeys
<1>3. r \in Commands /\ r.step = "keys" /\ r.left = BundleKeys /\ r.opened = cmd[c].opened
  BY <1>2, CommandIs DEF Commands
<1> HIDE DEF r
<1>4. Becomes(c, r)
  BY <1>1, <1>3, CommandIs, Becoming
<1>5. /\ gens \in Nat /\ parked \subseteq Nat /\ gens + 1 \in Gens
      /\ gens + 1 \notin parked \cup {0} /\ gens + 1 # NoFile /\ gens + 1 # handle
      /\ handle \in Int /\ \A b \in Cmd : cmd[b].opened \in Int
  <2>1. gens \in Nat /\ parked \subseteq Nat /\ gens + 1 \in Gens /\ handle \in Int
    BY <1>1, GenNumbers DEF RebuildInv, DiskInv, RebuildTypeOK
  <2>2. \A b \in Cmd : cmd[b].opened \in Int
    <3> SUFFICES ASSUME NEW b \in Cmd PROVE cmd[b].opened \in Int
      OBVIOUS
    <3>1. cmd[b] \in Commands
      BY CommandIs
    <3>2. cmd[b].opened \in Gens \cup {NoFile}
      BY <3>1 DEF Commands
    <3>3. \A g \in Gens \cup {NoFile} : g \in Int
      BY GenNumbers
    <3> QED BY <3>2, <3>3
  <2> QED BY <2>1, <2>2, GenNumbers DEF RebuildInv, DiskInv, GenInv, RebuildTypeOK
<1>6. /\ meta' \in [Gens -> [Db -> Row]] /\ meta'[gens + 1] = bundle
      /\ \A g \in Gens \ {gens + 1} : meta'[g] = meta[g]
  BY <1>1, <1>5 DEF RebuildInv, DiskInv, RebuildTypeOK
<1>7. RebuildTypeOK'
  BY <1>1, <1>4, <1>5, <1>6 DEF RebuildInv, DiskInv, RebuildTypeOK, Becomes
<1>8. GenInv'
  <2>1. ASSUME NEW g \in Gens, g > gens + 1 PROVE g > gens /\ g # gens + 1
    <3>1. g \in Nat
      BY GenNumbers
    <3> QED BY <1>5, <2>1, <3>1
  <2>2. /\ handle <= gens /\ \A g \in parked : g <= gens
        /\ \A b \in Cmd : cmd[b].opened <= gens
        /\ \A g \in Gens : g > gens => meta[g] = NoRows
    BY DEF RebuildInv, DiskInv, GenInv
  <2>3. handle <= gens + 1
    BY <1>5, <2>2
  <2>4. \A g \in parked : g <= gens + 1
    <3> SUFFICES ASSUME NEW g \in parked PROVE g <= gens + 1
      OBVIOUS
    <3>1. g \in Nat /\ g <= gens
      BY <1>5, <2>2
    <3> QED BY <1>5, <3>1
  <2>5. ASSUME NEW b \in Cmd PROVE cmd'[b].opened <= gens + 1
    <3>1. cmd'[b].opened = cmd[b].opened
      BY <1>3, <1>4 DEF Becomes
    <3>2. cmd[b].opened \in Int /\ cmd[b].opened <= gens
      BY <1>5, <2>2
    <3> QED BY <1>5, <3>1, <3>2
  <2>6. \A g \in Gens : g > gens + 1 => meta'[g] = NoRows
    BY <1>6, <2>1, <2>2
  <2> QED BY <1>1, <1>5, <2>3, <2>4, <2>5, <2>6 DEF GenInv
<1>9. ServerInv' /\ PendingInv'
  <2>1. ServerInv'
    BY <1>1 DEF RebuildInv, DiskInv, ServerInv
  <2>2. PendingInv'
    BY <1>1, <1>2, <1>6 DEF RebuildInv, DiskInv, PendingInv
  <2> QED BY <2>1, <2>2
<1>10. CmdOk(c)' /\ CmdFile(c)'
  BY <1>2, <1>3, <1>4 DEF CmdOk, CmdFile, Becomes
<1>11. CmdInv'
  <2>1. \A b \in Cmd : cmd'[b] = cmd[b] \/ CmdOk(b)'
    BY <1>4, <1>10 DEF Becomes
  <2> QED BY <1>1, <2>1, CommandsKeep DEF RebuildInv, DiskInv
<1>12. ASSUME ~early
       PROVE  RowFiles' /\ CmdFiles'
  <2>1. handle \in Gens \cup {NoFile}
    BY DEF RebuildInv, DiskInv, RebuildTypeOK
  <2>2. handle # NoFile => meta'[handle] = meta[handle]
    BY <1>5, <1>6, <2>1
  <2>3. RowFiles'
    BY <1>1, <1>5, <1>12, <2>2 DEF RebuildInv, RowFiles, RowsHaveFiles
  <2>4. CmdFiles'
    BY <1>1, <1>4, <1>10, <1>12 DEF RebuildInv, CmdFiles, CmdFile, Becomes
  <2> QED BY <2>3, <2>4
<1> QED BY <1>1, <1>7, <1>8, <1>9, <1>11, <1>12 DEF RebuildInv, DiskInv

LEMMA PlaceKeyKeeps ==
  ASSUME RebuildInv, NEW c \in Cmd, NEW d \in Db, PlaceKey(c, d)
  PROVE  RebuildInv'
<1> DEFINE r == [cmd[c] EXCEPT !.left = cmd[c].left \ {d}]
<1>1. /\ UNCHANGED <<place, meta, parked, file, wal, staging, gens, store, bundle, server, handle, todo,
                     served, early, late, boots, cmds, deaths, copies>>
      /\ key' = [key EXCEPT ![d] = "backup"]
      /\ cmd' = [cmd EXCEPT ![c] = r] /\ cmd[c].step = "keys"
  BY DEF PlaceKey, PlacedKey, At, world, daemon, counts
<1>2. /\ r \in Commands /\ r.step = "keys" /\ r.left = cmd[c].left \ {d} /\ r.opened = cmd[c].opened
  BY <1>1, CommandIs DEF Commands
<1> HIDE DEF r
<1>3. Becomes(c, r)
  BY <1>1, <1>2, CommandIs, Becoming
<1>4. /\ key' \in [Db -> Keys] /\ key'[d] = "backup"
      /\ \A e \in Db \ {d} : key'[e] = key[e]
  BY <1>1, CommandIs DEF Keys
<1>5. BundleKeys' = BundleKeys /\ BundleKeys \subseteq Db
  BY <1>1 DEF BundleKeys
<1>6. CmdOk(c)' /\ CmdFile(c)'
  BY <1>1, <1>2, <1>3, <1>4, <1>5, CommandIs DEF CmdOk, CmdFile, Becomes
<1> QED BY <1>1, <1>2, <1>3, <1>4, <1>6, CommandIs, CommandMoves

\* A command opens the metadata and goes on.
LEMMA OpensKeeps ==
  ASSUME RebuildInv, NEW c \in Cmd, OpenMetadata, NEW r \in Commands, Becomes(c, r),
         r.opened \in {place', NoFile}, CmdOk(c)', CmdFile(c)',
         UNCHANGED <<meta, parked, key, file, wal, staging, store, bundle, server, handle, todo,
                     served, early, late, counts>>
  PROVE  RebuildInv'
<1>0. RebuildTypeOK /\ GenInv /\ PendingInv /\ CmdInv /\ ServerInv
  BY DEF RebuildInv, DiskInv
<1>1. /\ place' \in Gens /\ gens' \in Gens
      /\ \/ place' = place
         \/ meta[place'] = NoRows /\ place' \notin parked \cup {0}
  BY <1>0, Opening
<1>2. RebuildTypeOK'
  BY <1>0, <1>1 DEF RebuildTypeOK, Becomes, counts
<1>3. GenInv'
  <2>1. \A b \in Cmd : cmd'[b].opened \in {cmd[b].opened, place', NoFile}
    BY DEF Becomes
  <2> QED BY <1>0, <2>1, OpeningKeepsNumbers
<1>4. ServerInv' /\ PendingInv'
  <2>1. BundleKeys' = BundleKeys
    BY DEF BundleKeys
  <2> QED BY <1>0, <2>1 DEF ServerInv, PendingInv
<1>5. CmdInv'
  <2>1. \A b \in Cmd : cmd'[b] = cmd[b] \/ CmdOk(b)'
    BY DEF Becomes
  <2> QED BY <1>0, <2>1, CommandsKeep
<1>6. ASSUME ~early
      PROVE  RowFiles' /\ CmdFiles'
  <2>1. RowFiles'
    BY <1>1, <1>6 DEF RebuildInv, RowFiles, RowsHaveFiles
  <2>2. CmdFiles'
    BY <1>6 DEF RebuildInv, CmdFiles, CmdFile, Becomes
  <2> QED BY <2>1, <2>2
<1> QED BY <1>2, <1>3, <1>4, <1>5, <1>6 DEF RebuildInv, DiskInv

LEMMA OpenPlacedKeeps == ASSUME RebuildInv, NEW c \in Cmd, OpenPlaced(c) PROVE RebuildInv'
<1> DEFINE r == [cmd[c] EXCEPT !.step = "park", !.opened = place']
<1>1. /\ UNCHANGED <<meta, parked, key, file, wal, staging, store, bundle, server, handle, todo,
                     served, early, late, counts>>
      /\ OpenMetadata /\ cmd' = [cmd EXCEPT ![c] = r] /\ cmd[c].step = "keys" /\ cmd[c].left = {}
  BY DEF OpenPlaced, At, world, daemon, counts
<1>2. place' \in Gens
  BY <1>1, Opening DEF RebuildInv, DiskInv
<1>3. r \in Commands /\ r.step = "park" /\ r.opened = place'
  BY <1>2, CommandIs DEF Commands
<1> HIDE DEF r
<1>4. Becomes(c, r)
  BY <1>1, <1>3, CommandIs, Becoming
<1>5. BundleKeys' = BundleKeys /\ BundleKeys \subseteq Db
  BY <1>1 DEF BundleKeys
<1>6. CmdOk(c)' /\ CmdFile(c)'
  BY <1>1, <1>2, <1>3, <1>4, <1>5, CommandIs DEF CmdOk, CmdFile, Becomes
<1> QED BY <1>1, <1>3, <1>4, <1>6, OpensKeeps

LEMMA ListPendingKeeps == ASSUME RebuildInv, NEW c \in Cmd, ListPending(c) PROVE RebuildInv'
<1> DEFINE listed == {d \in Db : meta[place'][d].pending}
<1> DEFINE r == [cmd[c] EXCEPT !.step = "row", !.left = listed, !.opened = place']
<1>1. /\ UNCHANGED <<meta, parked, key, file, wal, staging, store, bundle, server, handle, todo,
                     served, early, late, counts>>
      /\ OpenMetadata
  BY DEF ListPending, world, daemon, counts
<1>2. place' \in Gens
  BY <1>1, Opening DEF RebuildInv, DiskInv
<1>3. Ends(c) \/ cmd' = [cmd EXCEPT ![c] = r]
  BY DEF ListPending
<1>4. r \in Commands /\ r.step = "row" /\ r.opened = place'
  BY <1>2, CommandIs DEF Commands
<1> HIDE DEF r
<1>5. CASE Ends(c)
  <2>1. Becomes(c, Idle)
    BY <1>5, CommandIs, Ending
  <2>2. CmdOk(c)' /\ CmdFile(c)'
    BY <2>1, IdleIs DEF CmdOk, CmdFile, Becomes
  <2> QED BY <1>1, <2>1, <2>2, IdleIs, OpensKeeps
<1>6. CASE cmd' = [cmd EXCEPT ![c] = r]
  <2>1. Becomes(c, r)
    BY <1>4, <1>6, CommandIs, Becoming
  <2>2. CmdOk(c)' /\ CmdFile(c)'
    BY <1>2, <1>4, <2>1 DEF CmdOk, CmdFile, Becomes
  <2> QED BY <1>1, <1>4, <2>1, <2>2, OpensKeeps
<1> QED BY <1>3, <1>5, <1>6

LEMMA ParkKeeps == ASSUME RebuildInv, NEW c \in Cmd, Park(c) PROVE RebuildInv'
<1> DEFINE g0 == cmd[c].opened
<1> DEFINE rows == [d \in Db |-> Parked(meta[g0][d])]
<1>1. /\ UNCHANGED <<place, key, file, wal, staging, gens, store, bundle, server, handle, todo,
                     served, early, late, boots, cmds, deaths, copies>>
      /\ meta' = [meta EXCEPT ![g0] = rows]
      /\ parked' = parked \cup {g0} /\ Ends(c) /\ cmd[c].step = "park"
  BY DEF Park, At, world, daemon, counts
<1>2. g0 \in Gens /\ g0 <= gens /\ \A d \in BundleKeys : key[d] = "backup"
  BY <1>1, CommandIs DEF RebuildInv, DiskInv, GenInv, CmdOk
<1> HIDE DEF g0
<1>3. /\ meta \in [Gens -> [Db -> Row]]
      /\ \A d \in Db : meta[g0][d] \in Row
  BY <1>2 DEF RebuildInv, DiskInv, RebuildTypeOK
<1>4. \A d \in Db : /\ rows[d] \in Row
                    /\ rows[d].pending => rows[d].status = "stopped"
                    /\ rows[d].status # "absent" => rows[d].pending
  <2> SUFFICES ASSUME NEW d \in Db
               PROVE  /\ rows[d] \in Row
                      /\ rows[d].pending => rows[d].status = "stopped"
                      /\ rows[d].status # "absent" => rows[d].pending
    OBVIOUS
  <2>1. meta[g0][d] \in Row /\ (meta[g0][d].pending => meta[g0][d].status = "stopped")
    BY <1>2, <1>3 DEF RebuildInv, DiskInv, PendingInv
  <2> QED BY <2>1 DEF Parked, Row
<1>5. rows \in [Db -> Row]
  BY <1>4
<1> HIDE DEF rows
<1>6. /\ meta' \in [Gens -> [Db -> Row]] /\ meta'[g0] = rows
      /\ \A g \in Gens \ {g0} : meta'[g] = meta[g]
  BY <1>1, <1>2, <1>3, <1>5
<1>7. Becomes(c, Idle)
  BY <1>1, CommandIs, Ending
<1>8. CmdOk(c)' /\ CmdFile(c)'
  BY <1>7, IdleIs DEF CmdOk, CmdFile, Becomes
<1>9. RebuildTypeOK'
  BY <1>1, <1>2, <1>6, <1>7 DEF RebuildInv, DiskInv, RebuildTypeOK, Becomes
<1>10. GenInv'
  <2>1. gens \in Nat /\ \A g \in Gens : g > gens => g # g0
    BY <1>2, GenNumbers DEF RebuildInv, DiskInv, RebuildTypeOK
  <2>2. \A b \in Cmd : cmd'[b].opened <= gens
    <3>1. \A b \in Cmd : cmd'[b].opened \in {cmd[b].opened, NoFile} /\ cmd[b].opened <= gens
      BY <1>7, IdleIs DEF Becomes, RebuildInv, DiskInv, GenInv
    <3>2. NoFile <= gens
      BY <2>1, GenNumbers
    <3> QED BY <3>1, <3>2
  <2> QED BY <1>1, <1>2, <1>6, <2>1, <2>2 DEF RebuildInv, DiskInv, GenInv
<1>11. ServerInv' /\ PendingInv'
  <2>1. BundleKeys' = BundleKeys
    BY <1>1 DEF BundleKeys
  <2>2. ServerInv'
    BY <1>1 DEF RebuildInv, DiskInv, ServerInv
  <2>3. PendingInv'
    BY <1>1, <1>2, <1>4, <1>6, <2>1 DEF RebuildInv, DiskInv, PendingInv
  <2> QED BY <2>2, <2>3
<1>12. CmdInv'
  <2>1. \A b \in Cmd : cmd'[b] = cmd[b] \/ CmdOk(b)'
    BY <1>7, <1>8 DEF Becomes
  <2> QED BY <1>1, <2>1, CommandsKeep DEF RebuildInv, DiskInv
<1>13. ASSUME ~early
       PROVE  RowFiles' /\ CmdFiles'
  <2>1. RowsHaveFiles(meta'[g0])
    BY <1>4, <1>6 DEF RowsHaveFiles
  <2>2. \A g \in Gens : RowsHaveFiles(meta[g]) => RowsHaveFiles(meta'[g])
    BY <1>6, <2>1
  <2>3. handle \in Gens \cup {NoFile} /\ parked \cup {0} \subseteq Gens
    BY GenNumbers DEF RebuildInv, DiskInv, RebuildTypeOK
  <2>4. place' \in parked' \cup {0} => RowsHaveFiles(meta'[place'])
    BY <1>1, <1>13, <2>1, <2>2, <2>3 DEF RebuildInv, RowFiles
  <2>5. handle' # NoFile => RowsHaveFiles(meta'[handle'])
    BY <1>1, <1>13, <2>2, <2>3 DEF RebuildInv, RowFiles
  <2>6. RowFiles'
    BY <1>1, <1>13, <2>4, <2>5 DEF RebuildInv, RowFiles, RowsHaveFiles
  <2>7. CmdFiles'
    BY <1>1, <1>7, <1>8, <1>13 DEF RebuildInv, CmdFiles, CmdFile, Becomes
  <2> QED BY <2>6, <2>7
<1> QED BY <1>1, <1>9, <1>10, <1>11, <1>12, <1>13 DEF RebuildInv, DiskInv

LEMMA AdoptKeeps == ASSUME RebuildInv, NEW c \in Cmd, NEW d \in Db, Adopt(c, d) PROVE RebuildInv'
<1> DEFINE on  == [cmd[c] EXCEPT !.left = cmd[c].left \ {d}]
           rec == [cmd[c] EXCEPT !.left = cmd[c].left \ {d}, !.cur = d, !.step = "record"]
<1>1. /\ UNCHANGED <<place, meta, parked, key, file, wal, staging, gens, store, bundle, server, handle,
                     todo, served, early, late, boots, cmds, deaths, copies>>
      /\ cmd[c].step = "row" /\ file[d] # "none"
      /\ cmd' = [cmd EXCEPT ![c] = on] \/ cmd' = [cmd EXCEPT ![c] = rec]
  BY DEF Adopt, InPlace, At, disk, world, daemon, counts
<1>2. /\ on \in Commands /\ on.step = "row" /\ on.opened = cmd[c].opened
      /\ rec \in Commands /\ rec.step = "record" /\ rec.cur = d /\ rec.opened = cmd[c].opened
  BY <1>1, CommandIs DEF Commands
<1> HIDE DEF on, rec
<1>3. PICK r \in {on, rec} : Becomes(c, r)
  BY <1>1, <1>2, CommandIs, Becoming
<1>4. CmdOk(c)' /\ CmdFile(c)'
  BY <1>1, <1>2, <1>3, CommandIs DEF CmdOk, CmdFile, Becomes
<1> QED BY <1>1, <1>2, <1>3, <1>4, CommandIs, CommandMoves

LEMMA StageKeeps == ASSUME RebuildInv, NEW c \in Cmd, NEW d \in Db, Stage(c, d) PROVE RebuildInv'
<1> DEFINE on  == [cmd[c] EXCEPT !.left = cmd[c].left \ {d}]
           rst == [cmd[c] EXCEPT !.left = cmd[c].left \ {d}, !.cur = d, !.step = "restore"]
<1>1. /\ UNCHANGED <<place, meta, parked, key, file, wal, gens, store, bundle, server, handle,
                     todo, served, early, boots, cmds, deaths, copies>>
      /\ cmd[c].step = "row" /\ file[d] = "none"
      /\ cmd' = [cmd EXCEPT ![c] = on] \/ cmd' = [cmd EXCEPT ![c] = rst]
      /\ staging' = staging \/ staging' = [staging EXCEPT ![d] = "none"]
      /\ late' \in {late, late \ {c}}
  BY DEF Stage, InPlace, At, world, daemon, counts
<1>2. /\ on \in Commands /\ on.step = "row" /\ on.opened = cmd[c].opened
      /\ rst \in Commands /\ rst.step = "restore" /\ rst.cur = d /\ rst.opened = cmd[c].opened
  <2>1. cmd[c] \in Commands
    BY CommandIs
  <2> QED BY <1>1, <2>1 DEF Commands
<1> HIDE DEF on, rst
<1>3. PICK r \in {on, rst} : Becomes(c, r)
  BY <1>1, <1>2, CommandIs, Becoming
<1>4. CmdOk(c)' /\ CmdFile(c)'
  BY <1>1, <1>2, <1>3, CommandIs DEF CmdOk, CmdFile, Becomes
<1>5. staging' \in [Db -> Content] /\ (early \/ \A e \in Db : staging'[e] # "empty")
  BY <1>1, CommandIs DEF Content
<1>6. late' \subseteq Cmd /\ \A b \in Cmd \ {c} : b \in late => b \in late'
  BY <1>1, CommandIs
<1> QED BY <1>1, <1>2, <1>3, <1>4, <1>5, <1>6, CommandIs, CommandMoves

\* A restore-data that stays at its database or goes to the next, and writes the
\* staged file of this one.
LEMMA StagingKeeps ==
  ASSUME RebuildInv, NEW c \in Cmd, cmd[c].step \in {"restore", "check"}, NEW s \in {"check", "move"},
         NextRow(c) \/ Step(c, s),
         NEW x \in {"none", store[cmd[c].cur], staging[cmd[c].cur]},
         staging' = [staging EXCEPT ![cmd[c].cur] = x],
         UNCHANGED <<place, meta, parked, key, file, wal, gens, store, bundle, server, handle,
                     todo, served, early, late, boots, cmds, deaths, copies>>
  PROVE  RebuildInv'
<1> DEFINE next == [cmd[c] EXCEPT !.step = "row", !.cur = NoDb]
           on   == [cmd[c] EXCEPT !.step = s]
<1>1. /\ next \in Commands /\ next.step = "row" /\ next.opened = cmd[c].opened
      /\ on \in Commands /\ on.step = s /\ on.cur = cmd[c].cur /\ on.opened = cmd[c].opened
  <2>1. cmd[c] \in Commands
    BY CommandIs
  <2> QED BY <2>1 DEF Commands
<1>2. PICK r \in {next, on} : Becomes(c, r)
  <2>1. CASE NextRow(c)
    BY <2>1, CommandIs, NextRowing
  <2>2. CASE Step(c, s)
    BY <2>2, CommandIs, Stepping
  <2> QED BY <2>1, <2>2
<1> HIDE DEF next, on
<1>3. CmdOk(c)' /\ (early \/ CmdFile(c)')
  BY <1>1, <1>2, CommandIs DEF CmdOk, CmdFile, Becomes
<1>4. staging' \in [Db -> Content] /\ (early \/ \A e \in Db : staging'[e] # "empty")
  <2>1. cmd[c].cur \in Db /\ store \in [Db -> Content] /\ staging \in [Db -> Content]
    BY CommandIs DEF CmdOk, RebuildInv, DiskInv, RebuildTypeOK
  <2>2. early \/ \A e \in Db : store[e] # "empty" /\ staging[e] # "empty"
    BY DEF RebuildInv, RowFiles
  <2>3. x \in Content /\ (early \/ x # "empty")
    BY <2>1, <2>2 DEF Content
  <2> QED BY <2>1, <2>2, <2>3
<1> QED BY <1>1, <1>2, <1>3, <1>4, CommandIs, CommandMoves

LEMMA RestoredKeeps == ASSUME RebuildInv, NEW c \in Cmd, Restored(c) PROVE RebuildInv'
<1>1. /\ UNCHANGED <<place, meta, parked, key, file, wal, gens, store, bundle, server, handle,
                     todo, served, early, late, boots, cmds, deaths, copies>>
      /\ cmd[c].step = "restore"
      /\ \/ NextRow(c) /\ staging' = [staging EXCEPT ![cmd[c].cur] = "none"]
         \/ Step(c, "check") /\ staging' = [staging EXCEPT ![cmd[c].cur] = store[cmd[c].cur]]
  BY DEF Restored, At, world, daemon, counts
<1> QED BY <1>1, StagingKeeps

LEMMA CheckIntegrityKeeps == ASSUME RebuildInv, NEW c \in Cmd, CheckIntegrity(c) PROVE RebuildInv'
<1>1. /\ UNCHANGED <<place, meta, parked, key, file, wal, gens, store, bundle, server, handle,
                     todo, served, early, late, boots, cmds, deaths, copies>>
      /\ cmd[c].step = "check"
      /\ \/ NextRow(c) /\ staging' = [staging EXCEPT ![cmd[c].cur] = "none"]
         \/ Step(c, "move") /\ staging' = staging
  BY DEF CheckIntegrity, At, world, daemon, counts
<1>2. staging = [staging EXCEPT ![cmd[c].cur] = staging[cmd[c].cur]]
  BY CommandIs
<1> QED BY <1>1, <1>2, StagingKeeps

\* The rename of the staged file of d: another restore-data that has looked for it is
\* late from now on.
LEMMA MovingIn ==
  ASSUME RebuildInv, NEW c \in Cmd, NEW d \in Db, cmd[c].cur = d, cmd[c].opened \in Gens,
         Step(c, "record"), staging[d] # "none",
         file' = [file EXCEPT ![d] = staging[d]],
         staging' = [staging EXCEPT ![d] = "none"],
         late' = (late \ {c}) \cup {b \in Cmd \ {c} : Looked(b, d)},
         UNCHANGED <<place, meta, parked, key, wal, gens, store, bundle, server, handle, todo,
                     served, early, boots, cmds, deaths, copies>>
  PROVE  RebuildInv'
<1>1. PICK r \in Commands : r.step = "record" /\ r.cur = d /\ r.opened = cmd[c].opened /\ Becomes(c, r)
  <2>1. cmd[c] \in Commands
    BY CommandIs
  <2>2. LET r == [cmd[c] EXCEPT !.step = "record"]
        IN r \in Commands /\ r.step = "record" /\ r.cur = d /\ r.opened = cmd[c].opened
    BY <2>1 DEF Commands
  <2> QED BY <2>2, CommandIs, Stepping
<1>2. /\ file' \in [Db -> Content] /\ file'[d] = staging[d] /\ file'[d] # "none"
      /\ \A e \in Db \ {d} : file'[e] = file[e]
      /\ staging' \in [Db -> Content] /\ \A e \in Db : staging'[e] \in {"none", staging[e]}
  BY DEF RebuildInv, DiskInv, RebuildTypeOK, Content
<1>3. late' \subseteq Cmd /\ \A b \in Cmd \ {c} : b \in late => b \in late'
  BY CommandIs
<1>4. RebuildTypeOK'
  BY <1>1, <1>2, <1>3 DEF RebuildInv, DiskInv, RebuildTypeOK, Becomes
<1>5. RowsStay /\ RowsFilled
  BY DEF RowsStay, RowsFilled, RebuildInv, DiskInv, RebuildTypeOK, PendingInv
<1>6. CmdOk(c)' /\ CmdFile(c)'
  BY <1>1, <1>2 DEF CmdOk, CmdFile, Becomes
<1>7. ASSUME ~early, NEW e \in Db
      PROVE  /\ file'[e] = "none" => file[e] = "none"
             /\ file'[e] # "empty" /\ store'[e] # "empty" /\ staging'[e] # "empty"
  <2>1. file[e] # "empty" /\ store[e] # "empty" /\ staging[e] # "empty" /\ staging[d] # "empty"
    BY <1>7 DEF RebuildInv, RowFiles
  <2> QED BY <1>2, <2>1
<1>8. \A b \in Cmd \ {c}, e \in Db :
        Looked(b, e) /\ file'[e] # "none" => b \in late' \/ file[e] # "none"
  BY <1>2
<1>9. early \/ /\ RowsFilled /\ CmdFile(c)'
               /\ \A e \in Db : /\ file'[e] = "none" => file[e] = "none"
                                /\ file'[e] # "empty" /\ store'[e] # "empty" /\ staging'[e] # "empty"
               /\ \A b \in Cmd \ {c} :
                    /\ b \in late => b \in late'
                    /\ \A e \in Db : Looked(b, e) /\ file'[e] # "none" => b \in late' \/ file[e] # "none"
  BY <1>3, <1>5, <1>6, <1>7, <1>8
<1> QED BY <1>1, <1>4, <1>5, <1>6, <1>9, CommandWrites

LEMMA MoveIntoPlaceKeeps == ASSUME RebuildInv, NEW c \in Cmd, MoveIntoPlace(c) PROVE RebuildInv'
<1>1. /\ UNCHANGED <<place, meta, parked, key, wal, gens, store, bundle, server, handle, todo,
                     served, early, boots, cmds, deaths, copies>>
      /\ cmd[c].step = "move"
  BY DEF MoveIntoPlace, At, world, daemon, counts
<1>2. cmd[c].cur \in Db /\ cmd[c].opened \in Gens
  BY <1>1, CommandIs DEF CmdOk
<1>3. CASE staging[cmd[c].cur] = "none"
  <2>1. Ends(c) /\ UNCHANGED <<file, staging, late>>
    BY <1>3 DEF MoveIntoPlace
  <2> QED BY <1>1, <2>1, EndsKeeps, CommandIs
<1>4. CASE staging[cmd[c].cur] # "none"
  BY <1>1, <1>2, <1>4, MovingIn DEF MoveIntoPlace
<1> QED BY <1>3, <1>4

LEMMA RecordKeeps == ASSUME RebuildInv, NEW c \in Cmd, Record(c) PROVE RebuildInv'
<1> DEFINE r == [cmd[c] EXCEPT !.step = "row", !.cur = NoDb]
<1>1. /\ UNCHANGED <<place, parked, key, file, wal, staging, gens, store, bundle, server, handle, todo,
                     served, early, late, boots, cmds, deaths, copies>>
      /\ meta' = [meta EXCEPT ![cmd[c].opened][cmd[c].cur] = Saved("starting")]
      /\ NextRow(c) /\ cmd[c].step = "record"
  BY DEF Record, At, world, daemon, counts
<1>2. cmd[c].cur \in Db /\ cmd[c].opened \in Gens /\ cmd[c].opened <= gens
  BY <1>1, CommandIs DEF CmdOk, RebuildInv, DiskInv, GenInv
<1>3. /\ r \in Commands /\ r.step = "row" /\ r.opened = cmd[c].opened /\ Becomes(c, r)
  <2>1. cmd[c] \in Commands
    BY CommandIs
  <2> QED BY <1>1, <2>1, CommandIs, NextRowing DEF Commands
<1> HIDE DEF r
<1>4. Saved("starting") \in Row /\ ~Saved("starting").pending
  BY DEF Saved, Row
<1>5. RowsStay /\ (file'[cmd[c].cur] # "none" => RowsFilled)
  BY <1>1, <1>2, <1>4, OneRowStays DEF RebuildInv, DiskInv
<1>6. RebuildTypeOK'
  BY <1>1, <1>3, <1>5 DEF RebuildInv, DiskInv, RebuildTypeOK, RowsStay, Becomes
<1>7. CmdOk(c)' /\ CmdFile(c)'
  BY <1>2, <1>3 DEF CmdOk, CmdFile, Becomes
<1>8. ASSUME ~early
      PROVE  /\ RowsFilled
             /\ \A e \in Db : file[e] # "empty" /\ store[e] # "empty" /\ staging[e] # "empty"
  BY <1>1, <1>5, <1>8, CommandIs DEF CmdFile, RebuildInv, RowFiles
<1> QED BY <1>1, <1>3, <1>5, <1>6, <1>7, <1>8, CommandWrites

----------------------------------------------------------------------------
(* The operator                                                            *)

LEMMA MoveAwayKeeps == ASSUME RebuildInv, NEW d \in Db, MoveAway(d) PROVE RebuildInv'
<1>1. /\ UNCHANGED <<place, meta, parked, key, staging, gens, store, bundle, server, handle, todo,
                     served, early, late, boots, cmds, deaths, copies, cmd>>
      /\ server = "off" /\ \A c \in Cmd : cmd[c] = Idle
      /\ place # NoFile /\ meta[place][d].pending /\ file' = [file EXCEPT ![d] = "none"]
      /\ \E w \in {"none", "other"} : wal' = [wal EXCEPT ![d] = w]
  BY DEF MoveAway, world, daemon, counts
<1>2. place \in Gens /\ handle = NoFile /\ todo = {}
  BY <1>1 DEF RebuildInv, DiskInv, RebuildTypeOK, ServerInv
<1>3. /\ file' \in [Db -> Content] /\ wal' \in [Db -> {"none", "own", "other"}]
      /\ file'[d] = "none" /\ \A e \in Db \ {d} : file'[e] = file[e]
  BY <1>1 DEF RebuildInv, DiskInv, RebuildTypeOK, Content
<1>4. RebuildTypeOK'
  BY <1>1, <1>3 DEF RebuildInv, DiskInv, RebuildTypeOK
<1>5. GenInv' /\ ServerInv' /\ PendingInv' /\ CmdInv'
  <2>1. BundleKeys' = BundleKeys
    BY <1>1 DEF BundleKeys
  <2> QED BY <1>1, <2>1 DEF RebuildInv, DiskInv, GenInv, ServerInv, PendingInv, CmdInv, CmdOk
<1>6. ASSUME ~early
      PROVE  RowFiles' /\ CmdFiles'
  <2>1. CmdFiles'
    BY <1>1, IdleIs DEF CmdFiles, CmdFile
  <2>2. RowFiles
    BY <1>6 DEF RebuildInv
  <2>3. RowsHaveFiles(meta[place]) => RowsHaveFiles(meta[place])'
    BY <1>1, <1>2, <1>3 DEF RowsHaveFiles
  <2>4. \A e \in Db : file'[e] # "empty"
    BY <1>3, <2>2 DEF RowFiles
  <2>5. RowFiles'
    BY <1>1, <1>2, <2>2, <2>3, <2>4 DEF RowFiles
  <2> QED BY <2>1, <2>5
<1> QED BY <1>1, <1>4, <1>5, <1>6 DEF RebuildInv, DiskInv

LEMMA CopyInKeeps == ASSUME RebuildInv, NEW d \in Db, CopyIn(d) PROVE RebuildInv'
<1>1. /\ UNCHANGED <<place, meta, parked, key, wal, staging, gens, store, bundle, server, handle, todo,
                     served, early, boots, cmds, deaths, cmd>>
      /\ copies < MaxCopies /\ copies' = copies + 1
      /\ file' = [file EXCEPT ![d] = "copied"]
      /\ late' = late \cup {c \in Cmd : Looked(c, d)}
  BY DEF CopyIn, world, daemon
<1>2. /\ file' \in [Db -> Content] /\ file'[d] = "copied" /\ \A e \in Db \ {d} : file'[e] = file[e]
  BY <1>1 DEF RebuildInv, DiskInv, RebuildTypeOK, Content
<1>3. RebuildTypeOK'
  <2>1. copies' \in 0 .. MaxCopies
    BY <1>1, GenNumbers DEF RebuildInv, DiskInv, RebuildTypeOK
  <2> QED BY <1>1, <1>2, <2>1 DEF RebuildInv, DiskInv, RebuildTypeOK
<1>4. GenInv' /\ ServerInv' /\ PendingInv' /\ CmdInv'
  <2>1. BundleKeys' = BundleKeys
    BY <1>1 DEF BundleKeys
  <2> QED BY <1>1, <2>1 DEF RebuildInv, DiskInv, GenInv, ServerInv, PendingInv, CmdInv, CmdOk
<1>5. ASSUME ~early
      PROVE  RowFiles' /\ CmdFiles'
  <2>1. RowFiles /\ CmdFiles /\ CmdInv /\ RebuildTypeOK
    BY <1>5 DEF RebuildInv, DiskInv
  <2>2. \A e \in Db : file'[e] = "none" => file[e] = "none"
    BY <1>2
  <2>3. RowFiles'
    <3>1. \A e \in Db : file'[e] # "empty" /\ store'[e] # "empty" /\ staging'[e] # "empty"
      BY <1>1, <1>2, <2>1 DEF RowFiles
    <3>2. RowsFilled
      BY <1>1 DEF RowsFilled
    <3> QED BY <1>1, <2>1, <2>2, <3>1, <3>2, RowsKeepFiles DEF RebuildTypeOK
  <2>4. \A b \in Cmd, e \in Db : Looked(b, e) /\ file'[e] # "none" => b \in late' \/ file[e] # "none"
    BY <1>1, <1>2
  <2>5. CmdFiles'
    BY <1>1, <2>1, <2>2, <2>4, CommandsKeepFiles
  <2> QED BY <2>3, <2>5
<1> QED BY <1>3, <1>4, <1>5, <1>1 DEF RebuildInv, DiskInv

----------------------------------------------------------------------------
(* Theorems                                                                *)

LEMMA RebuildStarts == RebuildInit => RebuildInv
<1> SUFFICES ASSUME RebuildInit PROVE RebuildInv
  OBVIOUS
<1>1. /\ bundle \in [Db -> {Saved(s) : s \in {"running", "restoring"}}]
      /\ store \in [Db -> {"full", "junk", "none"}]
      /\ wal = [d \in Db |-> IF file[d] = "none" THEN "none" ELSE "own"]
      /\ staging = [d \in Db |-> "none"]
      /\ meta = [g \in Gens |-> IF g = 0 /\ place = 0 THEN [d \in Db |-> Saved("running")] ELSE NoRows]
      /\ parked = {} /\ gens = 0
      /\ server = "off" /\ handle = NoFile /\ todo = {} /\ served = {}
      /\ early = FALSE /\ cmd = [c \in Cmd |-> Idle] /\ late = {}
      /\ boots = 0 /\ cmds = 0 /\ deaths = 0 /\ copies = 0
  BY DEF RebuildInit
<1>2. \/ place = NoFile /\ key = [d \in Db |-> "none"] /\ file = [d \in Db |-> "none"]
      \/ place = 0 /\ key = [d \in Db |-> "backup"] /\ file \in [Db -> {"full", "junk"}]
  BY DEF RebuildInit
<1>3. \A s \in {"running", "restoring"} :
        Saved(s) \in Row /\ ~Saved(s).pending /\ Saved(s).status # "absent"
  BY DEF Saved, Row
<1>4. bundle \in [Db -> Row] /\ \A d \in Db : ~bundle[d].pending
  BY <1>1, <1>3
<1>5. /\ meta \in [Gens -> [Db -> Row]]
      /\ \A g \in Gens, d \in Db : ~meta[g][d].pending
      /\ \A g \in Gens : g > 0 => meta[g] = NoRows
  <2>1. [d \in Db |-> Saved("running")] \in [Db -> Row]
    BY <1>3
  <2>2. \A d \in Db : ~[e \in Db |-> Saved("running")][d].pending
    BY <1>3
  <2> QED BY <1>1, <2>1, <2>2, NoRowsAre, GenNumbers
<1>6. cmd \in [Cmd -> Commands] /\ \A c \in Cmd : cmd[c].step = "done" /\ cmd[c].opened = NoFile
  BY <1>1, IdleIs
<1>7. RebuildTypeOK
  <2>1. key \in [Db -> Keys] /\ file \in [Db -> Content] /\ store \in [Db -> Content]
    BY <1>1, <1>2 DEF Keys, Content
  <2>2. wal \in [Db -> {"none", "own", "other"}] /\ staging \in [Db -> Content]
    BY <1>1 DEF Content
  <2>3. place \in Gens \cup {NoFile} /\ gens \in Gens /\ handle \in Gens \cup {NoFile}
    BY <1>1, <1>2, GenNumbers
  <2>4. boots \in 0 .. MaxBoots /\ cmds \in 0 .. MaxCmds /\ deaths \in 0 .. MaxDeaths
        /\ copies \in 0 .. MaxCopies
    BY <1>1, GenNumbers
  <2>5. parked \subseteq Gens /\ todo \subseteq Db \X BOOLEAN /\ served \subseteq Db /\ late \subseteq Cmd
    BY <1>1
  <2>6. server \in {"off", "booting", "up"} /\ early \in BOOLEAN
    BY <1>1
  <2> QED BY <1>4, <1>5, <1>6, <2>1, <2>2, <2>3, <2>4, <2>5, <2>6 DEF RebuildTypeOK
<1>8. GenInv
  <2>1. place <= gens /\ handle <= gens /\ \A c \in Cmd : cmd[c].opened <= gens
    BY <1>1, <1>2, <1>6, GenNumbers
  <2> QED BY <1>1, <1>5, <2>1 DEF GenInv
<1>9. ServerInv /\ PendingInv /\ CmdInv /\ CmdFiles
  BY <1>1, <1>4, <1>5, <1>6 DEF ServerInv, PendingInv, CmdInv, CmdOk, CmdFiles, CmdFile
<1>10. RowFiles
  <2>1. \A d \in Db : file[d] # "empty" /\ store[d] # "empty" /\ staging[d] # "empty"
    BY <1>1, <1>2
  <2>2. place \in {0} => \A d \in Db : file[d] # "none"
    BY <1>2, GenNumbers
  <2> QED BY <1>1, <2>1, <2>2 DEF RowFiles, RowsHaveFiles
<1> QED BY <1>7, <1>8, <1>9, <1>10 DEF RebuildInv, DiskInv

LEMMA RebuildSteps == RebuildInv /\ [RebuildNext]_rebuildVars => RebuildInv'
<1> SUFFICES ASSUME RebuildInv, [RebuildNext]_rebuildVars PROVE RebuildInv'
  OBVIOUS
<1>1. CASE Boot \/ Reconcile \/ Listen \/ ServerEnds
  BY <1>1, BootKeeps, ReconcileKeeps, ListenKeeps, ServerEndsKeeps
<1>2. CASE \E d \in Db : Start(d) \/ Replicate(d) \/ MoveAway(d) \/ CopyIn(d)
  BY <1>2, StartKeeps, ReplicateKeeps, MoveAwayKeeps, CopyInKeeps
<1>3. CASE \E c \in Cmd, name \in {"control", "data"} : Command(c, name)
  BY <1>3, CommandKeeps
<1>4. CASE \E c \in Cmd : Fetch(c) \/ MoveAside(c) \/ PlaceMetadata(c) \/ OpenPlaced(c) \/ Park(c)
  BY <1>4, FetchKeeps, MoveAsideKeeps, PlaceMetadataKeeps, OpenPlacedKeeps, ParkKeeps
<1>5. CASE \E c \in Cmd : ListPending(c) \/ Restored(c) \/ CheckIntegrity(c) \/ MoveIntoPlace(c) \/ Record(c)
  BY <1>5, ListPendingKeeps, RestoredKeeps, CheckIntegrityKeeps, MoveIntoPlaceKeeps, RecordKeeps
<1>6. CASE \E c \in Cmd : EndData(c) \/ CommandDies(c)
  BY <1>6, CommandDiesKeeps
<1>7. CASE \E c \in Cmd, d \in Db : PlaceKey(c, d) \/ Adopt(c, d) \/ Stage(c, d)
  BY <1>7, PlaceKeyKeeps, AdoptKeeps, StageKeeps
<1>8. CASE UNCHANGED rebuildVars
  <2>1. UNCHANGED <<place, meta, parked, key, file, wal, staging, gens, store, bundle, server, handle,
                    todo, served, early, boots, cmds, deaths, copies, cmd, late>>
    BY <1>8 DEF rebuildVars, disk, world, daemon, counts
  <2>2. BundleKeys' = BundleKeys
    BY <2>1 DEF BundleKeys
  <2>3. DiskInv'
    BY <2>1, <2>2 DEF RebuildInv, DiskInv, RebuildTypeOK, GenInv, ServerInv, PendingInv, CmdInv, CmdOk
  <2>4. ~early => RowFiles' /\ CmdFiles'
    BY <2>1 DEF RebuildInv, RowFiles, RowsHaveFiles, CmdFiles, CmdFile
  <2> QED BY <2>1, <2>3, <2>4 DEF RebuildInv
<1> QED BY <1>1, <1>2, <1>3, <1>4, <1>5, <1>6, <1>7, <1>8 DEF RebuildNext

\* The inductive invariant of a rebuild: which metadata file is which, what the
\* rows, the keys and the files of a parked database are at every step of the
\* commands, of those that run beside them and of the boots that overlap them
\* (cli.ts:49, control.ts:167).
THEOREM RebuildInvariant == RebuildSpec => []RebuildInv
BY RebuildStarts, RebuildSteps, PTL DEF RebuildSpec

\* No database comes up without its data, however the commands are killed, re-run
\* and overlapped by boots and by each other, unless a server boots between placing
\* the rows and parking them (cli.ts:77).
THEOREM NothingEverComesUpEmpty == RebuildSpec => []NothingComesUpEmpty
<1>1. RebuildInv => NothingComesUpEmpty
  BY DEF RebuildInv, RowFiles, NothingComesUpEmpty
<1> QED BY <1>1, RebuildInvariant, PTL

\* A parked database has the signing key of the backup (control.ts:167).
THEOREM ParkedAlwaysHasItsKey == RebuildSpec => []ParkedHasItsKey
<1>1. RebuildInv => ParkedHasItsKey
  BY DEF RebuildInv, DiskInv, RebuildTypeOK, PendingInv, BundleKeys, ParkedHasItsKey
<1> QED BY <1>1, RebuildInvariant, PTL

\* The steps of a rebuild that leave the data files, or every command, alone.
LEMMA OnlyRenamesReplace ==
  ASSUME RebuildNext
  PROVE  (\E c \in Cmd : MoveIntoPlace(c)) \/ file' = file \/ cmd' = cmd
<1>1. CASE Boot \/ Reconcile \/ Listen \/ ServerEnds
  BY <1>1 DEF Boot, Reconcile, Listen, ServerEnds, disk, counts
<1>2. CASE \E d \in Db : Start(d) \/ Replicate(d) \/ MoveAway(d) \/ CopyIn(d)
  BY <1>2 DEF Start, Replicate, MoveAway, CopyIn, disk
<1>3. CASE \E c \in Cmd : \/ \E name \in {"control", "data"} : Command(c, name)
                        \/ Fetch(c) \/ MoveAside(c) \/ PlaceMetadata(c) \/ OpenPlaced(c) \/ Park(c)
  BY <1>3 DEF Command, Fetch, MoveAside, PlaceMetadata, OpenPlaced, Park, disk
<1>4. CASE \E c \in Cmd : \/ ListPending(c) \/ Restored(c) \/ CheckIntegrity(c) \/ Record(c)
                        \/ EndData(c) \/ CommandDies(c)
  BY <1>4 DEF ListPending, Restored, CheckIntegrity, Record, EndData, CommandDies, disk
<1>5. CASE \E c \in Cmd, d \in Db : PlaceKey(c, d) \/ Adopt(c, d) \/ Stage(c, d)
  BY <1>5 DEF PlaceKey, Adopt, Stage, disk
<1> QED BY <1>1, <1>2, <1>3, <1>4, <1>5 DEF RebuildNext

\* A restore-data that finds a data file in place leaves it: a step of a command
\* replaces a file that is there only if that file came after the command had looked
\* for it, by hand or from another restore-data (late: between cli.ts:105 and the
\* rename at cli.ts:135), or if a server had booted on rows not parked yet (early).
THEOREM PlacedAlwaysStays == RebuildSpec => PlacedStays
<1>1. RebuildInv /\ [RebuildNext]_rebuildVars
        => [\A c \in Cmd, d \in Db : file'[d] = file[d] \/ file[d] = "none" \/ cmd'[c] = cmd[c]
                                       \/ early \/ c \in late]_rebuildVars
  <2> SUFFICES ASSUME RebuildInv, RebuildNext, ~early, NEW c \in Cmd, NEW d \in Db
               PROVE  file'[d] = file[d] \/ file[d] = "none" \/ cmd'[c] = cmd[c] \/ c \in late
    OBVIOUS
  <2>1. ASSUME NEW b \in Cmd, MoveIntoPlace(b)
        PROVE  file'[d] = file[d] \/ file[d] = "none" \/ cmd'[c] = cmd[c] \/ c \in late
    <3>1. /\ cmd[b].step = "move" /\ \A e \in Cmd \ {b} : cmd'[e] = cmd[e]
          /\ file' = file \/ file' = [file EXCEPT ![cmd[b].cur] = staging[cmd[b].cur]]
      BY <2>1, CommandIs DEF MoveIntoPlace, At, Ends, Step
    <3>2. b \in late \/ file[cmd[b].cur] = "none"
      BY <3>1, CommandIs DEF CmdFile
    <3>3. file'[d] = file[d] \/ d = cmd[b].cur
      BY <3>1 DEF RebuildInv, DiskInv, RebuildTypeOK
    <3> QED BY <3>1, <3>2, <3>3
  <2> QED BY <2>1, OnlyRenamesReplace
<1> QED BY <1>1, RebuildInvariant, PTL DEF RebuildSpec, PlacedStays
=============================================================================
