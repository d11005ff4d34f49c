-------------------------- MODULE ReplicatorProofs --------------------------
(***************************************************************************)
(* The theorems about Replicator, for any number of databases and objects: *)
(* the map, the objects, the processes and the waiting stop() calls agree, *)
(* and hence one litestream per replica, quiet directories at removal and  *)
(* none left at exit.                                                      *)
(***************************************************************************)
EXTENDS Replicator, FiniteSetTheorems, TLAPS

\* The inductive invariant.
IInv == TypeOK /\ EntriesAgree

\* What stop() on a set of databases does to the map, the objects and the calls.
LEMMA StopFacts ==
  ASSUME IInv, NEW D \in SUBSET Db, NEW c \in Caller
  PROVE  /\ Dropped(D) \in SUBSET Db
         /\ Marked(D) \in SUBSET Proc
         /\ Waiting(D, c) \in SUBSET (Proc \X Caller \X {1, 2})
         /\ \A d \in D : procs[d] # None => procs[d] \in Marked(D)
         /\ \A p \in Marked(D) : DbOf[p] \in D /\ procs[DbOf[p]] = p
         /\ \A d \in Dropped(D) : procs[d] \in Proc /\ procs[d] \notin child
         /\ \A d \in D : procs[d] = None \/ procs[d] \in child \/ d \in Dropped(D)
         /\ \A s \in Waiting(D, c) : s[1] \in Marked(D) /\ s[1] \in child /\ s[2] = c
         /\ \A d \in D : procs[d] \in child => <<procs[d], c, 1>> \in Waiting(D, c)
<1> USE DEF IInv, TypeOK, EntriesAgree, EntryInv, Dropped, Marked, Waiting, Entries
<1>1. None \notin Proc
  BY ReplicatorAssumption
<1>2. \A d \in Db : procs[d] \in Proc \cup {None} /\ (procs[d] # None => DbOf[procs[d]] = d)
  OBVIOUS
<1>3. \A p \in Marked(D) : DbOf[p] \in D /\ procs[DbOf[p]] = p /\ p \in Proc
  BY <1>2
<1>4. Waiting(D, c) \in SUBSET (Proc \X Caller \X {1, 2})
  BY <1>3
<1>5. \A d \in D : procs[d] \in child => <<procs[d], c, 1>> \in Waiting(D, c)
  BY <1>1, <1>2
<1>6. \A s \in Waiting(D, c) : s[1] \in Marked(D) /\ s[1] \in child /\ s[2] = c
  OBVIOUS
<1> QED BY <1>1, <1>2, <1>3, <1>4, <1>5, <1>6

\* After stop() every entry of D is gone or waited for, and the calls that
\* already waited still do.
LEMMA StopAllKeeps ==
  ASSUME IInv, mode \in {"up", "draining"}, mode' \in {"up", "draining"},
         NEW D \in SUBSET Db, NEW c \in Caller, StopAll(D, c),
         UNCHANGED <<pstate, child, failures>>
  PROVE  /\ procs' \in [Db -> Proc \cup {None}]
         /\ stopping' \in SUBSET Proc /\ timer' \in SUBSET Proc
         /\ stops' \in SUBSET (Proc \X Caller \X {1, 2})
         /\ ObjInv'
         /\ \A s \in stops' : s[1] \in child' /\ s[1] \in stopping'
         /\ \A d \in Db : procs'[d] # None => procs'[d] = procs[d]
         /\ \A d \in D : procs'[d] = None \/ Waits(d, c)'
         /\ \A d \in Db, b \in Caller : Waits(d, b) => Waits(d, b)'
<1>n. None \notin Proc /\ DbOf \in [Proc -> Db]
  BY ReplicatorAssumption
<1>t. TypeOK /\ ObjInv /\ EntryInv
  BY DEF IInv, EntriesAgree
<1>1. /\ procs' = [d \in Db |-> IF d \in Dropped(D) THEN None ELSE procs[d]]
      /\ stopping' = stopping \cup Marked(D)
      /\ timer' = timer \ Marked(D)
      /\ stops' = stops \cup Waiting(D, c)
  BY DEF StopAll
<1>2. procs' \in [Db -> Proc \cup {None}]
  BY <1>1, <1>t DEF TypeOK
<1>3. /\ stopping' \in SUBSET Proc /\ timer' \in SUBSET Proc
      /\ stops' \in SUBSET (Proc \X Caller \X {1, 2})
  BY <1>1, <1>t, StopFacts DEF TypeOK
<1>4. \A p \in Proc : p \in child => procs'[DbOf[p]] = procs[DbOf[p]]
  BY <1>n, <1>1, <1>t, StopFacts DEF ObjInv
<1>5. ObjInv'
  <2> SUFFICES ASSUME NEW p \in Proc
               PROVE  /\ pstate[p] # "free" => p \in child /\ procs'[DbOf[p]] = p
                      /\ p \in child => pstate[p] # "free" /\ procs'[DbOf[p]] = p
                      /\ p \in timer' => procs'[DbOf[p]] = p /\ p \notin child /\ p \notin stopping'
    BY DEF ObjInv
  <2>1. p \in timer' => procs'[DbOf[p]] = p /\ p \notin child /\ p \notin stopping'
    <3> SUFFICES ASSUME p \in timer' PROVE procs'[DbOf[p]] = p /\ p \notin child /\ p \notin stopping'
      OBVIOUS
    <3>1. p \in timer /\ p \notin Marked(D) /\ procs[DbOf[p]] = p /\ p \notin child /\ p \notin stopping
      BY <1>1, <1>t DEF ObjInv
    <3>2. DbOf[p] \notin Dropped(D)
      BY <3>1, <1>n DEF Dropped, Marked
    <3> QED BY <3>1, <3>2, <1>1, <1>n
  <2> QED BY <2>1, <1>4, <1>t DEF ObjInv
<1>6. \A s \in stops' : s[1] \in child /\ s[1] \in stopping'
  BY <1>1, <1>t, StopFacts DEF EntryInv
<1>7. \A d \in Db : procs'[d] # None => procs'[d] = procs[d]
  BY <1>1
<1>8. \A d \in D : procs'[d] = None \/ Waits(d, c)'
  <2> SUFFICES ASSUME NEW d \in D, procs'[d] # None PROVE Waits(d, c)'
    OBVIOUS
  <2>1. procs[d] # None /\ procs[d] \in child
    BY <1>1, StopFacts
  <2>2. <<procs[d], c, 1>> \in stops' /\ DbOf[procs[d]] = d
    BY <2>1, <1>1, <1>t, StopFacts DEF EntryInv
  <2> QED BY <2>2 DEF Waits
<1>9. \A d \in Db, b \in Caller : Waits(d, b) => Waits(d, b)'
  BY <1>1 DEF Waits
<1> QED BY <1>2, <1>3, <1>5, <1>6, <1>7, <1>8, <1>9

\* Row changes and DELETE keep the invariant.
LEMMA RowsKeep ==
  ASSUME IInv, NEW d \in Db,
         RowChanges(d) \/ RequestDelete(d) \/ DeleteStops(d) \/ DeleteRemoves(d)
  PROVE  IInv'
<1>t. TypeOK /\ ObjInv /\ EntryInv /\ StopInv
  BY DEF IInv, EntriesAgree
<1>1. CASE RowChanges(d)
  <2>1. TypeOK'
    BY <1>1, <1>t DEF RowChanges, TypeOK, Row, objVars
  <2>2. ObjInv' /\ EntryInv'
    BY <1>1, <1>t DEF RowChanges, ObjInv, EntryInv, objVars
  <2>3. StopInv'
    BY <1>1, <1>t DEF RowChanges, StopInv, TypeOK, objVars, Waits
  <2> QED BY <2>1, <2>2, <2>3 DEF IInv, EntriesAgree
<1>2. CASE RequestDelete(d)
  <2>1. TypeOK'
    BY <1>2, <1>t DEF RequestDelete, TypeOK, Row, objVars
  <2>2. ObjInv' /\ EntryInv'
    BY <1>2, <1>t DEF RequestDelete, ObjInv, EntryInv, objVars
  <2>3. StopInv'
    BY <1>2, <1>t DEF RequestDelete, StopInv, TypeOK, objVars, Waits
  <2> QED BY <2>1, <2>2, <2>3 DEF IInv, EntriesAgree
<1>3. CASE DeleteStops(d)
  <2>1. /\ mode \in {"up", "draining"} /\ mode' = mode /\ del[d] = "kill"
        /\ del' = [del EXCEPT ![d] = "stop"]
        /\ StopAll({d}, "delete") /\ UNCHANGED <<rows, boots, pstate, child, failures>>
    BY <1>3 DEF DeleteStops
  <2>2. {d} \in SUBSET Db /\ "delete" \in Caller
    BY DEF Caller
  <2>3. /\ procs' \in [Db -> Proc \cup {None}]
        /\ stopping' \in SUBSET Proc /\ timer' \in SUBSET Proc
        /\ stops' \in SUBSET (Proc \X Caller \X {1, 2})
        /\ ObjInv'
        /\ \A s \in stops' : s[1] \in child' /\ s[1] \in stopping'
        /\ \A e \in Db : procs'[e] # None => procs'[e] = procs[e]
        /\ procs'[d] = None \/ Waits(d, "delete")'
        /\ \A e \in Db, b \in Caller : Waits(e, b) => Waits(e, b)'
    BY <2>1, <2>2, StopAllKeeps
  <2>4. TypeOK'
    BY <2>1, <2>3, <1>t DEF TypeOK
  <2>5. EntryInv'
    BY <2>1, <2>3, <1>t DEF EntryInv
  <2>6. StopInv'
    <3>1. \A e \in Db : del'[e] # "idle" => rows'[e] = "deleting"
      BY <2>1, <1>t DEF StopInv, TypeOK
    <3>2. \A e \in Db : del'[e] = "stop" => procs'[e] = None \/ Waits(e, "delete")'
      BY <2>1, <2>2, <2>3, <1>t DEF StopInv, TypeOK
    <3>3. mode' = "draining" => \A e \in Db : procs'[e] = None \/ Waits(e, "shutdown")'
      BY <2>1, <2>3, <1>t DEF StopInv, Caller
    <3> QED BY <3>1, <3>2, <3>3 DEF StopInv
  <2> QED BY <2>3, <2>4, <2>5, <2>6 DEF IInv, EntriesAgree
<1>4. CASE DeleteRemoves(d)
  <2>1. TypeOK'
    BY <1>4, <1>t DEF DeleteRemoves, TypeOK, Row, objVars
  <2>2. ObjInv' /\ EntryInv'
    BY <1>4, <1>t DEF DeleteRemoves, ObjInv, EntryInv, objVars
  <2>3. StopInv'
    BY <1>4, <1>t DEF DeleteRemoves, StopInv, TypeOK, objVars, Waits
  <2> QED BY <2>1, <2>2, <2>3 DEF IInv, EntriesAgree
<1> QED BY <1>1, <1>2, <1>3, <1>4

\* SIGKILL after SIGTERM keeps the invariant: the call goes on waiting.
LEMMA TimesOutKeeps ==
  ASSUME IInv, NEW s \in stops, StopTimesOut(s)
  PROVE  IInv'
<1>t. TypeOK /\ ObjInv /\ EntryInv /\ StopInv
  BY DEF IInv, EntriesAgree
<1>1. /\ stops' = (stops \ {s}) \cup {<<s[1], s[2], 2>>}
      /\ UNCHANGED <<rows, del, boots, mode, pstate, procs, child, stopping, timer, failures>>
  BY DEF StopTimesOut, envVars
<1>2. s \in Proc \X Caller \X {1, 2}
  BY <1>t DEF TypeOK
<1>3. TypeOK'
  BY <1>1, <1>2, <1>t DEF TypeOK
<1>4. \A d \in Db, b \in Caller : Waits(d, b) => Waits(d, b)'
  BY <1>1, <1>2 DEF Waits
<1>5. ObjInv' /\ EntryInv'
  BY <1>1, <1>2, <1>t DEF ObjInv, EntryInv
<1>6. StopInv'
  BY <1>1, <1>4, <1>t DEF StopInv, Caller
<1> QED BY <1>3, <1>5, <1>6 DEF IInv, EntriesAgree

\* reconcile() launches where there is no entry and stops where there is one.
LEMMA ReconcileKeeps ==
  ASSUME IInv, Reconcile
  PROVE  IInv'
<1>n. None \notin Proc /\ DbOf \in [Proc -> Db] /\ IsFiniteSet(Db)
  BY ReplicatorAssumption
<1>t. TypeOK /\ ObjInv /\ EntryInv /\ StopInv
  BY DEF IInv, EntriesAgree
<1>1. PICK f \in [Unserved -> Proc], bad \in SUBSET Unserved :
        LET added == {f[d] : d \in Unserved}
            failed == {f[d] : d \in bad} IN
        /\ mode \in {"swept", "up"}
        /\ \A d \in Unserved : Fresh(f[d]) /\ DbOf[f[d]] = d
        /\ failures + Cardinality(bad) <= MaxFailures
        /\ mode' = "up"
        /\ procs' = [d \in Db |-> IF d \in Unserved THEN f[d]
                                  ELSE IF d \in Dropped(Stale) THEN None ELSE procs[d]]
        /\ pstate' = [p \in Proc |-> IF p \in added \ failed THEN "alive" ELSE pstate[p]]
        /\ child' = child \cup (added \ failed)
        /\ stopping' = (stopping \ added) \cup Marked(Stale)
        /\ timer' = (timer \cup failed) \ Marked(Stale)
        /\ stops' = stops \cup Waiting(Stale, "reconcile")
        /\ failures' = failures + Cardinality(bad)
        /\ UNCHANGED envVars
  BY DEF Reconcile
<1> DEFINE added == {f[d] : d \in Unserved}
           failed == {f[d] : d \in bad}
<1>2. /\ Unserved \in SUBSET Db /\ Stale \in SUBSET Db /\ "reconcile" \in Caller
      /\ added \in SUBSET Proc /\ failed \in SUBSET added
  BY DEF Unserved, Stale, Entries, Caller
<1>3. /\ Dropped(Stale) \in SUBSET Db
      /\ Marked(Stale) \in SUBSET Proc
      /\ Waiting(Stale, "reconcile") \in SUBSET (Proc \X Caller \X {1, 2})
      /\ \A p \in Marked(Stale) : DbOf[p] \in Stale /\ procs[DbOf[p]] = p
      /\ \A d \in Dropped(Stale) : procs[d] \in Proc /\ procs[d] \notin child
      /\ \A d \in Stale : procs[d] # None => procs[d] \in Marked(Stale)
      /\ \A s \in Waiting(Stale, "reconcile") : s[1] \in Marked(Stale) /\ s[1] \in child
  BY <1>2, StopFacts
<1>4. Cardinality(bad) \in Nat
  BY <1>1, <1>2, <1>n, FS_Subset, FS_CardinalityType
<1>5. \A p \in added : /\ DbOf[p] \in Unserved /\ p = f[DbOf[p]] /\ p \notin Marked(Stale)
                       /\ pstate[p] = "free" /\ p \notin timer /\ p \notin child
                       /\ p \notin stopping'
  <2> SUFFICES ASSUME NEW d \in Unserved
               PROVE  /\ DbOf[f[d]] = d /\ f[d] \notin Marked(Stale)
                      /\ pstate[f[d]] = "free" /\ f[d] \notin timer /\ f[d] \notin child
                      /\ f[d] \notin stopping'
    OBVIOUS
  <2>1. Fresh(f[d]) /\ DbOf[f[d]] = d /\ f[d] \in Proc
    BY <1>1
  <2>2. \A e \in Db : procs[e] # f[d]
    BY <2>1 DEF Fresh
  <2>3. f[d] \notin Marked(Stale)
    BY <2>2, <1>2, <1>3
  <2>4. f[d] \notin stopping'
    BY <2>3, <1>1
  <2> QED BY <2>1, <2>3, <2>4, <1>t DEF Fresh, ObjInv
<1>6. /\ mode \in {"swept", "up"} /\ mode' = "up" /\ UNCHANGED <<rows, del, boots>>
      /\ procs' = [d \in Db |-> IF d \in Unserved THEN f[d]
                                ELSE IF d \in Dropped(Stale) THEN None ELSE procs[d]]
      /\ pstate' = [p \in Proc |-> IF p \in added \ failed THEN "alive" ELSE pstate[p]]
      /\ child' = child \cup (added \ failed)
      /\ stopping' = (stopping \ added) \cup Marked(Stale)
      /\ timer' = (timer \cup failed) \ Marked(Stale)
      /\ stops' = stops \cup Waiting(Stale, "reconcile")
      /\ failures' = failures + Cardinality(bad)
  BY <1>1 DEF envVars
<1>u. \A d \in Unserved : procs[d] = None /\ rows[d] = "running"
  BY DEF Unserved
<1> HIDE DEF added, failed
<1>7. TypeOK'
  <2>1. procs' \in [Db -> Proc \cup {None}]
    BY <1>6, <1>t DEF TypeOK
  <2>2. pstate' \in [Proc -> {"free", "alive", "ended"}]
    BY <1>6, <1>t DEF TypeOK
  <2>3. child' \in SUBSET Proc /\ stopping' \in SUBSET Proc /\ timer' \in SUBSET Proc
    BY <1>6, <1>2, <1>3, <1>t DEF TypeOK
  <2>4. stops' \in SUBSET (Proc \X Caller \X {1, 2}) /\ failures' \in Nat
    BY <1>6, <1>3, <1>4, <1>t DEF TypeOK
  <2> QED BY <2>1, <2>2, <2>3, <2>4, <1>6, <1>t DEF TypeOK
<1>8. ObjInv'
  <2> SUFFICES ASSUME NEW p \in Proc
               PROVE  /\ pstate'[p] # "free" => p \in child' /\ procs'[DbOf[p]] = p
                      /\ p \in child' => pstate'[p] # "free" /\ procs'[DbOf[p]] = p
                      /\ p \in timer' => procs'[DbOf[p]] = p /\ p \notin child' /\ p \notin stopping'
    BY DEF ObjInv
  <2>0. DbOf[p] \in Db
    BY <1>n
  <2>1. CASE p \in added
    <3>1. procs'[DbOf[p]] = p
      BY <2>1, <2>0, <1>5, <1>6
    <3>2. p \notin child /\ p \notin timer /\ pstate[p] = "free" /\ p \notin stopping'
      BY <2>1, <1>5
    <3>3. p \in child' <=> p \notin failed
      BY <2>1, <3>2, <1>6
    <3>4. pstate'[p] = IF p \notin failed THEN "alive" ELSE "free"
      BY <2>1, <3>2, <1>6
    <3>5. p \in timer' => p \in failed
      BY <3>2, <1>6
    <3> QED BY <3>1, <3>2, <3>3, <3>4, <3>5
  <2>2. CASE p \notin added
    <3>1. /\ pstate'[p] = pstate[p] /\ (p \in child' <=> p \in child)
          /\ (p \in timer' => p \in timer /\ p \notin Marked(Stale))
          /\ (p \in stopping' => p \in stopping \/ p \in Marked(Stale))
      BY <2>2, <1>2, <1>6
    <3>2. procs[DbOf[p]] = p => DbOf[p] \notin Unserved
      BY <1>u, <1>n
    <3>3. p \in child => procs'[DbOf[p]] = procs[DbOf[p]]
      BY <2>0, <3>2, <1>3, <1>6, <1>t DEF ObjInv
    <3>4. p \in timer' => procs'[DbOf[p]] = procs[DbOf[p]]
      <4> SUFFICES ASSUME p \in timer' PROVE procs'[DbOf[p]] = procs[DbOf[p]]
        OBVIOUS
      <4>1. p \in timer /\ p \notin Marked(Stale) /\ procs[DbOf[p]] = p
        BY <3>1, <1>t DEF ObjInv
      <4>2. DbOf[p] \notin Dropped(Stale)
        BY <4>1, <1>3, <1>n DEF Dropped, Marked
      <4> QED BY <4>1, <4>2, <3>2, <2>0, <1>6
    <3>5. p \in timer' => procs[DbOf[p]] = p /\ p \notin child /\ p \notin stopping'
      BY <3>1, <1>t DEF ObjInv
    <3>6. pstate[p] # "free" => p \in child
      BY <1>6, <1>t DEF ObjInv
    <3>7. p \in child => pstate[p] # "free" /\ procs[DbOf[p]] = p
      BY <1>t DEF ObjInv
    <3> QED BY <3>1, <3>3, <3>4, <3>5, <3>6, <3>7
  <2> QED BY <2>1, <2>2
<1>9. EntryInv'
  <2>1. \A d \in Db : procs'[d] # None => DbOf[procs'[d]] = d
    BY <1>1, <1>6, <1>t DEF EntryInv
  <2>2. \A s \in stops' : s[1] \in child' /\ s[1] \in stopping'
    <3> SUFFICES ASSUME NEW s \in stops' PROVE s[1] \in child' /\ s[1] \in stopping'
      OBVIOUS
    <3>1. CASE s \in Waiting(Stale, "reconcile")
      BY <3>1, <1>3, <1>6
    <3>2. CASE s \in stops
      <4>1. s[1] \in child /\ s[1] \in stopping
        BY <3>2, <1>t DEF EntryInv
      <4>2. s[1] \notin added
        BY <4>1, <1>5
      <4> QED BY <4>1, <4>2, <1>6
    <3> QED BY <3>1, <3>2, <1>6
  <2> QED BY <2>1, <2>2, <1>6 DEF EntryInv
<1>10. StopInv'
  <2>1. \A d \in Db : Waits(d, "delete") => Waits(d, "delete")'
    BY <1>6 DEF Waits
  <2>2. \A d \in Db : del[d] = "stop" => procs'[d] = None \/ Waits(d, "delete")'
    <3> SUFFICES ASSUME NEW d \in Db, del[d] = "stop" PROVE procs'[d] = None \/ Waits(d, "delete")'
      OBVIOUS
    <3>1. rows[d] = "deleting" /\ (procs[d] = None \/ Waits(d, "delete"))
      BY <1>t DEF StopInv
    <3>2. d \notin Unserved
      BY <3>1, <1>u
    <3> QED BY <3>1, <3>2, <2>1, <1>6
  <2> QED BY <2>2, <1>6, <1>t DEF StopInv
<1> QED BY <1>7, <1>8, <1>9, <1>10 DEF IInv, EntriesAgree

\* Restart timers keep the invariant.
LEMMA TimerKeeps ==
  ASSUME IInv, NEW p \in Proc, TimerStep(p)
  PROVE  IInv'
<1>n. None \notin Proc /\ DbOf \in [Proc -> Db]
  BY ReplicatorAssumption
<1>t. TypeOK /\ ObjInv /\ EntryInv /\ StopInv
  BY DEF IInv, EntriesAgree
<1> DEFINE e == DbOf[p]
<1>e. e \in Db
  BY <1>n
<1>1. CASE TimerForgets(p)
  <2>1. /\ mode \in {"up", "draining"} /\ p \in timer /\ procs[e] = p /\ p \notin stopping
        /\ timer' = timer \ {p}
        /\ procs' = [procs EXCEPT ![e] = None]
        /\ UNCHANGED <<rows, del, boots, mode, pstate, child, stopping, stops, failures>>
    BY <1>1 DEF TimerForgets, Fires, envVars
  <2>2. p \notin child
    BY <2>1, <1>t DEF ObjInv
  <2>3. TypeOK'
    BY <2>1, <1>t DEF TypeOK
  <2>4. \A q \in Proc : procs[DbOf[q]] = q /\ q # p => procs'[DbOf[q]] = q
    BY <2>1, <1>n, <1>t DEF TypeOK
  <2>5. ObjInv'
    BY <2>1, <2>2, <2>4, <1>t DEF ObjInv
  <2>6. \A d \in Db : procs'[d] # None => procs'[d] = procs[d]
    BY <2>1, <1>t DEF TypeOK
  <2>7. EntryInv'
    BY <2>1, <2>6, <1>t DEF EntryInv
  <2>8. StopInv'
    BY <2>1, <2>6, <1>t DEF StopInv, Waits
  <2> QED BY <2>3, <2>5, <2>7, <2>8 DEF IInv, EntriesAgree
<1>2. ASSUME NEW q \in Proc, TimerRelaunches(p, q)
      PROVE  IInv'
  <2>1. /\ mode \in {"up", "draining"} /\ p \in timer /\ procs[e] = p /\ p \notin stopping
        /\ rows[e] = "running"
        /\ Fresh(q) /\ DbOf[q] = e
        /\ timer' = timer \ {p}
        /\ procs' = [procs EXCEPT ![e] = q]
        /\ pstate' = [pstate EXCEPT ![q] = "alive"]
        /\ child' = child \cup {q}
        /\ stopping' = stopping \ {q}
        /\ UNCHANGED <<rows, del, boots, mode, stops, failures>>
    BY <1>2 DEF TimerRelaunches, Fires, envVars
  <2>2. p \notin child /\ q # p /\ q \notin timer /\ pstate[q] = "free" /\ q \notin child
    BY <2>1, <1>e, <1>t DEF ObjInv, Fresh
  <2>3. TypeOK'
    BY <2>1, <1>t DEF TypeOK
  <2>4. \A r \in Proc : procs[DbOf[r]] = r /\ r # p => procs'[DbOf[r]] = r
    BY <2>1, <1>n, <1>t DEF TypeOK
  <2>5. procs'[DbOf[q]] = q
    BY <2>1, <1>e, <1>t DEF TypeOK
  <2>6. ObjInv'
    <3> SUFFICES ASSUME NEW r \in Proc
                 PROVE  /\ pstate'[r] # "free" => r \in child' /\ procs'[DbOf[r]] = r
                        /\ r \in child' => pstate'[r] # "free" /\ procs'[DbOf[r]] = r
                        /\ r \in timer' => procs'[DbOf[r]] = r /\ r \notin child' /\ r \notin stopping'
      BY DEF ObjInv
    <3>1. CASE r = q
      BY <3>1, <2>1, <2>2, <2>5, <1>t DEF TypeOK
    <3>2. CASE r # q
      <4>1. pstate'[r] = pstate[r] /\ (r \in child' <=> r \in child) /\ (r \in stopping' <=> r \in stopping)
        BY <3>2, <2>1, <1>t DEF TypeOK
      <4>2. /\ pstate[r] # "free" => r \in child /\ procs[DbOf[r]] = r
            /\ r \in child => pstate[r] # "free" /\ procs[DbOf[r]] = r
            /\ r \in timer => procs[DbOf[r]] = r /\ r \notin child /\ r \notin stopping
        BY <2>1, <1>t DEF ObjInv
      <4> QED BY <4>1, <4>2, <2>1, <2>2, <2>4
    <3> QED BY <3>1, <3>2
  <2>7. EntryInv'
    <3>1. \A d \in Db : procs'[d] # None => DbOf[procs'[d]] = d
      BY <2>1, <1>t DEF EntryInv, TypeOK
    <3>2. \A s \in stops' : s[1] \in child' /\ s[1] \in stopping'
      BY <2>1, <2>2, <1>t DEF EntryInv
    <3> QED BY <3>1, <3>2, <2>1 DEF EntryInv
  <2>8. StopInv'
    <3>1. del[e] = "idle"
      BY <2>1, <1>e, <1>t DEF StopInv
    <3>2. mode # "draining"
      <4> SUFFICES ASSUME mode = "draining" PROVE FALSE
        OBVIOUS
      <4>1. PICK s \in stops : DbOf[s[1]] = e /\ s[2] = "shutdown"
        BY <2>1, <1>e, <1>n, <1>t DEF StopInv, Waits
      <4>2. s[1] \in Proc /\ s[1] \in child
        BY <4>1, <1>t DEF EntryInv, TypeOK
      <4>3. procs[e] = s[1]
        BY <4>1, <4>2, <1>t DEF ObjInv
      <4> QED BY <4>2, <4>3, <2>1, <2>2
    <3>3. \A d \in Db : d # e => procs'[d] = procs[d]
      BY <2>1, <1>t DEF TypeOK
    <3> QED BY <2>1, <3>1, <3>2, <3>3, <1>t DEF StopInv, Waits
  <2> QED BY <2>3, <2>6, <2>7, <2>8 DEF IInv, EntriesAgree
<1>3. CASE TimerRelaunchFails(p)
  <2>1. TypeOK'
    BY <1>3, <1>t DEF TimerRelaunchFails, TypeOK, envVars
  <2>2. ObjInv' /\ EntryInv' /\ StopInv'
    BY <1>3, <1>t DEF TimerRelaunchFails, ObjInv, EntryInv, StopInv, Waits, envVars
  <2> QED BY <2>1, <2>2 DEF IInv, EntriesAgree
<1> QED BY <1>1, <1>2, <1>3 DEF TimerStep

\* Deaths and onEnd keep the invariant.
LEMMA ExitKeeps ==
  ASSUME IInv, NEW p \in Proc, Dies(p) \/ ExitHandled(p)
  PROVE  IInv'
<1>n. None \notin Proc /\ DbOf \in [Proc -> Db]
  BY ReplicatorAssumption
<1>t. TypeOK /\ ObjInv /\ EntryInv /\ StopInv
  BY DEF IInv, EntriesAgree
<1>1. CASE Dies(p)
  <2>1. TypeOK'
    BY <1>1, <1>t DEF Dies, TypeOK, envVars
  <2>2. ObjInv'
    BY <1>1, <1>t DEF Dies, ObjInv, TypeOK, envVars
  <2>3. EntryInv' /\ StopInv'
    BY <1>1, <1>t DEF Dies, EntryInv, StopInv, Waits, envVars
  <2> QED BY <2>1, <2>2, <2>3 DEF IInv, EntriesAgree
<1>2. CASE ExitHandled(p)
  <2> DEFINE e == DbOf[p]
             calls == {s \in stops : s[1] = p}
  <2>1. /\ mode \in {"up", "draining"} /\ pstate[p] = "ended"
        /\ pstate' = [pstate EXCEPT ![p] = "free"]
        /\ child' = child \ {p}
        /\ timer' = IF p \in stopping THEN timer ELSE timer \cup {p}
        /\ stops' = stops \ calls
        /\ procs' = IF calls = {} THEN procs ELSE [procs EXCEPT ![e] = None]
        /\ UNCHANGED <<rows, del, boots, mode, stopping, failures>>
    BY <1>2 DEF ExitHandled, Rearmed, envVars
  <2>2. e \in Db /\ procs[e] = p /\ p \in child /\ p \notin timer
    BY <2>1, <1>n, <1>t DEF ObjInv
  <2>3. p \notin stopping => calls = {}
    BY <1>t DEF EntryInv
  <2>4. \A q \in Proc : q # p /\ procs[DbOf[q]] = q => procs'[DbOf[q]] = q
    BY <2>1, <2>2, <1>n, <1>t DEF TypeOK
  <2>5. \A d \in Db : procs'[d] # None => procs'[d] = procs[d]
    BY <2>1, <1>t DEF TypeOK
  <2>6. TypeOK'
    <3>1. procs' \in [Db -> Proc \cup {None}]
      BY <2>1, <1>t DEF TypeOK
    <3>2. timer' \in SUBSET Proc /\ stops' \in SUBSET (Proc \X Caller \X {1, 2})
      BY <2>1, <1>t DEF TypeOK
    <3> QED BY <3>1, <3>2, <2>1, <1>t DEF TypeOK
  <2>7. ObjInv'
    <3> SUFFICES ASSUME NEW q \in Proc
                 PROVE  /\ pstate'[q] # "free" => q \in child' /\ procs'[DbOf[q]] = q
                        /\ q \in child' => pstate'[q] # "free" /\ procs'[DbOf[q]] = q
                        /\ q \in timer' => procs'[DbOf[q]] = q /\ q \notin child' /\ q \notin stopping'
      BY DEF ObjInv
    <3>1. CASE q = p
      <4>1. pstate'[q] = "free" /\ q \notin child'
        BY <3>1, <2>1, <1>t DEF TypeOK
      <4>2. q \in timer' => q \notin stopping /\ procs' = procs
        BY <3>1, <2>1, <2>2, <2>3
      <4> QED BY <3>1, <4>1, <4>2, <2>1, <2>2
    <3>2. CASE q # p
      <4>1. pstate'[q] = pstate[q] /\ (q \in child' <=> q \in child) /\ (q \in timer' => q \in timer)
        BY <3>2, <2>1, <1>t DEF TypeOK
      <4>2. /\ pstate[q] # "free" => q \in child /\ procs[DbOf[q]] = q
            /\ q \in child => pstate[q] # "free" /\ procs[DbOf[q]] = q
            /\ q \in timer => procs[DbOf[q]] = q /\ q \notin child /\ q \notin stopping
        BY <2>1, <1>t DEF ObjInv
      <4> QED BY <3>2, <4>1, <4>2, <2>1, <2>4
    <3> QED BY <3>1, <3>2
  <2>8. EntryInv'
    BY <2>1, <2>5, <1>t DEF EntryInv
  <2>9. \A d \in Db, c \in Caller : Waits(d, c) => procs'[d] = None \/ Waits(d, c)'
    <3> SUFFICES ASSUME NEW d \in Db, NEW c \in Caller, Waits(d, c), procs'[d] # None
                 PROVE  Waits(d, c)'
      OBVIOUS
    <3>1. PICK s \in stops : DbOf[s[1]] = d /\ s[2] = c
      BY DEF Waits
    <3>2. s \notin calls
      BY <3>1, <2>1, <2>2, <1>t DEF TypeOK
    <3> QED BY <3>1, <3>2, <2>1 DEF Waits
  <2>10. StopInv'
    BY <2>1, <2>5, <2>9, <1>t DEF StopInv, Caller
  <2> QED BY <2>6, <2>7, <2>8, <2>10 DEF IInv, EntriesAgree
<1> QED BY <1>1, <1>2

\* Shutdown, crash and sweep keep the invariant.
LEMMA PlaneKeeps ==
  ASSUME IInv, PlaneStep
  PROVE  IInv'
<1>n. None \notin Proc /\ DbOf \in [Proc -> Db]
  BY ReplicatorAssumption
<1>t. TypeOK /\ ObjInv /\ EntryInv /\ StopInv
  BY DEF IInv, EntriesAgree
<1>1. CASE Shutdown
  <2>1. /\ mode = "up" /\ mode' = "draining" /\ StopAll(Entries, "shutdown")
        /\ UNCHANGED <<rows, del, boots, pstate, child, failures>>
    BY <1>1 DEF Shutdown, ShutdownKeys, envVars
  <2>2. Entries \in SUBSET Db /\ "shutdown" \in Caller
    BY DEF Entries, Caller
  <2>3. /\ procs' \in [Db -> Proc \cup {None}]
        /\ stopping' \in SUBSET Proc /\ timer' \in SUBSET Proc
        /\ stops' \in SUBSET (Proc \X Caller \X {1, 2})
        /\ ObjInv'
        /\ \A s \in stops' : s[1] \in child' /\ s[1] \in stopping'
        /\ \A e \in Db : procs'[e] # None => procs'[e] = procs[e]
        /\ \A e \in Entries : procs'[e] = None \/ Waits(e, "shutdown")'
        /\ \A e \in Db, b \in Caller : Waits(e, b) => Waits(e, b)'
    BY <2>1, <2>2, StopAllKeeps
  <2>4. TypeOK'
    BY <2>1, <2>3, <1>t DEF TypeOK
  <2>5. EntryInv'
    BY <2>1, <2>3, <1>t DEF EntryInv
  <2>6. \A e \in Db : procs'[e] = None \/ Waits(e, "shutdown")'
    BY <2>3 DEF Entries
  <2>7. StopInv'
    BY <2>1, <2>3, <2>6, <1>t DEF StopInv, Caller
  <2> QED BY <2>3, <2>4, <2>5, <2>7 DEF IInv, EntriesAgree
<1>2. CASE Crash \/ Exits
  <2>1. PlaneGone
    BY <1>2 DEF Crash, Exits
  <2>2. TypeOK'
    BY <2>1, <1>t DEF PlaneGone, TypeOK
  <2>3. ObjInv' /\ EntryInv' /\ StopInv'
    BY <2>1, <1>n, <1>t DEF PlaneGone, ObjInv, EntryInv, StopInv
  <2> QED BY <2>2, <2>3 DEF IInv, EntriesAgree
<1>3. CASE SweepBegins
  <2>1. TypeOK'
    BY <1>3, <1>t DEF SweepBegins, TypeOK, envVars, objVars
  <2>2. ObjInv' /\ EntryInv' /\ StopInv'
    BY <1>3, <1>t DEF SweepBegins, ObjInv, EntryInv, StopInv, Waits, envVars, objVars
  <2> QED BY <2>1, <2>2 DEF IInv, EntriesAgree
<1>4. CASE SweepEnds
  <2>1. TypeOK'
    BY <1>4, <1>t DEF SweepEnds, TypeOK, envVars
  <2>2. child = {}
    BY <1>4, <1>n, <1>t DEF SweepEnds, EntryInv, ObjInv, TypeOK
  <2>3. ObjInv' /\ EntryInv' /\ StopInv'
    BY <1>4, <2>2, <1>t DEF SweepEnds, ObjInv, EntryInv, StopInv, Waits, envVars
  <2> QED BY <2>1, <2>3 DEF IInv, EntriesAgree
<1> QED BY <1>1, <1>2, <1>3, <1>4 DEF PlaneStep

\* The inductive invariant holds in every reachable state.
THEOREM Inductive == Spec => []IInv
<1>1. Init => IInv
  BY ReplicatorAssumption DEF Init, IInv, TypeOK, Row, EntriesAgree, ObjInv, EntryInv, StopInv
<1>2. IInv /\ [Next]_vars => IInv'
  <2> SUFFICES ASSUME IInv, [Next]_vars PROVE IInv'
    OBVIOUS
  <2>1. CASE UNCHANGED vars
    BY <2>1 DEF vars, envVars, objVars, IInv, TypeOK, EntriesAgree, ObjInv, EntryInv, StopInv, Waits
  <2>2. CASE Next
    BY <2>2, RowsKeep, ReconcileKeeps, TimesOutKeeps, TimerKeeps, ExitKeeps, PlaneKeeps DEF Next
  <2> QED BY <2>1, <2>2
<1> QED BY <1>1, <1>2, PTL DEF Spec

\* Every variable keeps its type.
THEOREM TypeCorrect == Spec => []TypeOK
<1>1. IInv => TypeOK
  BY DEF IInv
<1> QED BY <1>1, Inductive, PTL

\* The map, the objects, the processes and the stop() calls always agree.
THEOREM EntriesAlwaysAgree == Spec => []EntriesAgree
<1>1. IInv => EntriesAgree
  BY DEF IInv
<1> QED BY <1>1, Inductive, PTL

\* Two litestreams never write to one replica path once the sweep is over.
THEOREM NeverTwoWriters == Spec => []OneWriterPerReplica
<1>1. IInv => OneWriterPerReplica
  BY DEF IInv, EntriesAgree, ObjInv, OneWriterPerReplica, Replicating
<1> QED BY <1>1, Inductive, PTL

\* A database without an entry has no litestream while the control plane runs
\* (the map forgets nothing that lives).
LEMMA NothingRuns ==
  ASSUME IInv, mode \in {"up", "draining"}, NEW d \in Db, procs[d] = None
  PROVE  Replicating(d) = {}
  BY ReplicatorAssumption DEF IInv, EntriesAgree, ObjInv, Replicating

\* DELETE removes the data directory of no database that litestream works on.
THEOREM RemovalIsQuiet == Spec => RemovesQuietDirs
<1>1. IInv => \A d \in Db : DeleteRemoves(d) => Replicating(d) = {}
  <2> SUFFICES ASSUME IInv, NEW d \in Db, DeleteRemoves(d) PROVE Replicating(d) = {}
    OBVIOUS
  <2>1. mode \in {"up", "draining"} /\ procs[d] = None
    BY DEF DeleteRemoves, IInv, EntriesAgree, StopInv
  <2> QED BY <2>1, NothingRuns
<1>2. IInv /\ [Next]_vars => [\A d \in Db : DeleteRemoves(d) => Replicating(d) = {}]_vars
  BY <1>1
<1> QED BY <1>2, Inductive, PTL DEF Spec, RemovesQuietDirs

\* A shutdown that runs to its end leaves no litestream behind.
THEOREM ShutdownIsClean == Spec => ExitsClean
<1>1. IInv => (Exits => \A d \in Db : Replicating(d) = {})
  <2> SUFFICES ASSUME IInv, Exits, NEW d \in Db PROVE Replicating(d) = {}
    OBVIOUS
  <2>1. mode \in {"up", "draining"} /\ procs[d] = None
    BY DEF Exits, IInv, EntriesAgree, StopInv
  <2> QED BY <2>1, NothingRuns
<1>2. IInv /\ [Next]_vars => [Exits => \A d \in Db : Replicating(d) = {}]_vars
  BY <1>1
<1> QED BY <1>2, Inductive, PTL DEF Spec, ExitsClean
=============================================================================
