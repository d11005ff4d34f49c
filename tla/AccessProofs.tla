---------------------------- MODULE AccessProofs ----------------------------
(***************************************************************************)
(* PortsExclusive, PortsReturn, ServedAtHome and TokensVerify for every    *)
(* set of databases, requests and tokens, every port range and bound.      *)
(***************************************************************************)
EXTENDS Access, Integers, TLAPS

Status == {"absent", "starting", "running", "stopped", "deleting", "gone"}
Pc == {"idle", "queued", "lock", "read", "open", "write", "access",
       "openPub", "writePub", "keyed", "kill", "rmKey", "rmPub", "drop"}
Request == [op : {"none", "create", "start", "mint", "delete"}, db : Db \cup {None},
            pc : Pc, key : Key \cup {None}, legs : Int]
Token == [db : Db \cup {None}, key : Key \cup {None},
          st : {"unissued", "live", "dead", "dropped"}]
\* The values HttpPort may have.
Chosen == {CHOOSE p \in P : \A q \in P : p <= q : P \in SUBSET Port} \cup {Lo}
Alloc == [by : Req \cup {None}, next : {n \in Int : Lo <= n},
          seen : SUBSET Port, free : SUBSET Port]
Forward == [at : {"idle", "verify", "send", "denied", "served", "refused", "unreachable"},
            db : Db \cup {None}, tok : Tok \cup {None}, port : Chosen, by : Db \cup {None}]

\* What of TypeOK the arguments need.
Shape ==
  /\ row \in [Db -> Status]
  /\ ports \in [Db -> SUBSET Port]
  /\ sqld \in [Db -> Key \cup {None}]
  /\ alloc \in Alloc
  /\ key \in [Db -> File] /\ pub \in [Db -> File] /\ cache \in [Db -> File]
  /\ made \in [Db -> Nat]
  /\ token \in [Tok -> Token]
  /\ h \in [Req -> Request]
  /\ g \in [Fwd -> Forward]

\* A request that is queued for ports has the only claim to its row, which is
\* not inserted yet.
QueueInv ==
  /\ \A r \in Req : h[r].pc # "idle" => h[r].db \in Db
  /\ \A r \in Req : h[r].pc = "queued" => row[h[r].db] = "absent"
  /\ \A r \in Req : h[r].pc \notin {"idle", "queued"} => row[h[r].db] # "absent"
  /\ \A q, r \in Req : q # r /\ h[q].pc = "queued" /\ h[r].pc = "queued" => h[q].db # h[r].db

\* The allocation under way knows the ports of every row, since no other one
\* can insert a row before it ends.
AllocInv ==
  /\ alloc.by # None => h[alloc.by].pc = "queued"
  /\ \A d \in Db : alloc.by # None /\ Exists(d) => ports[d] \subseteq alloc.seen
  /\ alloc.free \cap alloc.seen = {}

PortInv == QueueInv /\ AllocInv /\ PortsExclusive /\ PortsReturn

\* A key pair never leaves its database, wherever it is copied to.
HomeInv ==
  /\ \A d \in Db : key[d] \in Key => key[d].db = d
  /\ \A d \in Db : pub[d] \in Key => pub[d].db = d
  /\ \A d \in Db : sqld[d] \in Key => sqld[d].db = d
  /\ \A r \in Req : h[r].key \in Key => h[r].key.db = h[r].db

TokenInv ==
  /\ \A t \in Tok : token[t].key \in Key => token[t].key.db = token[t].db
  /\ \A f \in Fwd : g[f].at # "idle" =>
       /\ g[f].tok \in Tok /\ g[f].db \in Db
       /\ token[g[f].tok].st # "unissued" /\ token[g[f].tok].db = g[f].db

IInv == Shape /\ PortInv /\ HomeInv /\ TokenInv /\ ServedAtHome

-----------------------------------------------------------------------------
LEMMA NullKeys == /\ None \notin Key /\ Torn \notin Key /\ None # Torn
                  /\ None \notin Db /\ None \notin Req
  BY AccessAssumption DEF Key

LEMMA Persists ==
  ASSUME NEW p
  PROVE  p \in Persisted <=> \E d \in Db : Exists(d) /\ p \in ports[d]
  BY DEF Persisted

LEMMA IdleShape == Idle \in Request
  BY DEF Idle, Request, Pc

LEMMA NoFwdShape == NoFwd \in Forward
  BY DEF NoFwd, Forward, Chosen

LEMMA InitIInv == ASSUME Init PROVE IInv
<1> USE NullKeys, AccessAssumption
<1>1. Shape
  BY IdleShape, NoFwdShape DEF Init, Shape, Status, NoAlloc, Alloc, File, Token, Port
<1>2. PortInv
  BY Persists DEF Init, PortInv, QueueInv, AllocInv, PortsExclusive, PortsReturn, Exists,
     Idle, NoAlloc
<1>3. HomeInv /\ TokenInv /\ ServedAtHome
  BY DEF Init, HomeInv, TokenInv, ServedAtHome, Idle, NoFwd, File
<1> QED BY <1>1, <1>2, <1>3 DEF IInv

-----------------------------------------------------------------------------
(* The shape of the requests.                                              *)

LEMMA RequestType ==
  ASSUME Shape, NEW r \in Req
  PROVE  /\ \A pc \in Pc : Goes(r, pc) => h' \in [Req -> Request]
         /\ Ends(r) => h' \in [Req -> Request]
         /\ LegDone(r) => h' \in [Req -> Request]
<1> h \in [Req -> Request]
  BY DEF Shape
<1>0. h[r] \in Request
  OBVIOUS
<1>1. ASSUME NEW pc \in Pc, Goes(r, pc) PROVE h' \in [Req -> Request]
  <2>1. [h[r] EXCEPT !.pc = pc] \in Request
    BY <1>0 DEF Request
  <2> QED BY <1>1, <2>1 DEF Goes
<1>2. ASSUME Ends(r) PROVE h' \in [Req -> Request]
  BY <1>2, IdleShape DEF Ends
<1>3. ASSUME LegDone(r) PROVE h' \in [Req -> Request]
  <2> DEFINE pc == IF h[r].legs = 1 THEN "keyed" ELSE "access"
  <2>1. pc \in Pc
    BY DEF Pc
  <2>2. h[r].legs - 1 \in Int
    BY <1>0 DEF Request
  <2> HIDE DEF pc
  <2>3. [h[r] EXCEPT !.legs = @ - 1, !.pc = pc] \in Request
    BY <1>0, <2>1, <2>2 DEF Request
  <2>4. h' = [h EXCEPT ![r] = [h[r] EXCEPT !.legs = @ - 1, !.pc = pc]]
    BY <1>3 DEF LegDone, pc
  <2> QED BY <2>3, <2>4
<1> QED BY <1>1, <1>2, <1>3

LEMMA RequestKeyed ==
  ASSUME NEW q \in Request, NEW pc \in Pc, NEW k \in Key, NEW n \in Int
  PROVE  [q EXCEPT !.pc = pc, !.key = k, !.legs = n] \in Request
<1>1. [q EXCEPT !.pc = pc] \in Request
  BY DEF Request
<1>2. ASSUME NEW p \in Request PROVE [p EXCEPT !.key = k] \in Request
  BY DEF Request
<1>3. ASSUME NEW p \in Request PROVE [p EXCEPT !.legs = n] \in Request
  BY DEF Request
<1>4. [q EXCEPT !.pc = pc, !.key = k, !.legs = n]
        = [[[q EXCEPT !.pc = pc] EXCEPT !.key = k] EXCEPT !.legs = n]
  BY DEF Request
<1> QED BY <1>1, <1>2, <1>3, <1>4

LEMMA RequestsType ==
  ASSUME Shape, QueueInv, Next
  PROVE  h' \in [Req -> Request]
<1> h \in [Req -> Request]
  BY DEF Shape
<1>0. ASSUME NEW r \in Req, NEW d \in Db, NEW op \in {"create", "start", "mint", "delete"}, NEW pc \in Pc,
             h' = [h EXCEPT ![r] = [Idle EXCEPT !.op = op, !.db = d, !.pc = pc]]
      PROVE  h' \in [Req -> Request]
  <2>1. [Idle EXCEPT !.op = op, !.db = d, !.pc = pc] \in Request
    BY IdleShape, Zenon DEF Request
  <2> QED BY <1>0, <2>1
<1>1. ASSUME NEW r \in Req, NEW d \in Db,
             RequestCreate(r, d) \/ RequestStart(r, d) \/ RequestMint(r, d) \/ RequestDelete(r, d)
      PROVE  h' \in [Req -> Request]
  BY <1>0, <1>1, Zenon DEF RequestCreate, RequestStart, RequestMint, RequestDelete, Pc
<1>2. ASSUME NEW r \in Req, ReadKey(r)
      PROVE  h' \in [Req -> Request]
  <2>0. h[r] \in Request
    OBVIOUS
  <2> DEFINE k == key[h[r].db]
  <2>1. k \in Key
    BY <1>2 DEF ReadKey
  <2>2. h' = [h EXCEPT ![r] = [h[r] EXCEPT !.pc = "access", !.key = k, !.legs = 1]]
    BY <1>2 DEF ReadKey
  <2> HIDE DEF k
  <2>3. [h[r] EXCEPT !.pc = "access", !.key = k, !.legs = 1] \in Request
    <3>1. "access" \in Pc /\ 1 \in Int
      BY DEF Pc
    <3> QED BY <2>0, <2>1, <3>1, RequestKeyed, Zenon
  <2> QED BY <2>2, <2>3
<1>3. ASSUME NEW r \in Req, ReadAbsent(r)
      PROVE  h' \in [Req -> Request]
  <2>0. h[r] \in Request
    OBVIOUS
  <2> DEFINE k == FreshKey(h[r].db)
  <2>1. h[r].db \in Db
    BY <1>3 DEF ReadAbsent, QueueInv
  <2>2. k \in Key
    BY <2>1 DEF FreshKey, Key, Shape
  <2>3. h' = [h EXCEPT ![r] = [h[r] EXCEPT !.pc = "open", !.key = k, !.legs = 2]]
    BY <1>3 DEF ReadAbsent
  <2> HIDE DEF k
  <2>4. [h[r] EXCEPT !.pc = "open", !.key = k, !.legs = 2] \in Request
    <3>1. "open" \in Pc /\ 2 \in Int
      BY DEF Pc
    <3> QED BY <2>0, <2>2, <3>1, RequestKeyed, Zenon
  <2> QED BY <2>3, <2>4
<1>4. ASSUME NEW r \in Req, KeyStep(r)
      PROVE  h' \in [Req -> Request]
  BY <1>2, <1>3, <1>4, RequestType DEF KeyStep, ReadTorn, OpenKey, WriteKey, AccessPub, OpenPub,
     WritePub, Pc
<1>5. ASSUME NEW r \in Req,
             AllocExhausted(r) \/ AllocEnds(r) \/ CreateConflicts(r) \/ TakeLock(r)
             \/ Launch(r) \/ LaunchFails(r) \/ MintRefused(r) \/ (\E t \in Tok : MintInserts(r, t))
             \/ Kill(r) \/ RemoveKey(r) \/ RemovePub(r) \/ DropRow(r)
      PROVE  h' \in [Req -> Request]
  BY <1>5, RequestType DEF AllocExhausted, AllocEnds, CreateConflicts, TakeLock, Launch,
     LaunchFails, MintRefused, MintInserts, Kill, RemoveKey, RemovePub, DropRow, Pc
<1>6. CASE Crash
  BY <1>6, IdleShape DEF Crash
<1>7. ASSUME UNCHANGED h
      PROVE  h' \in [Req -> Request]
  BY <1>7
<1>8. AllocProbes \/ (\E d \in Db : Stop(d) \/ SqldExits(d)) \/ (\E t \in Tok : TokenDies(t))
      \/ (\E f \in Fwd : (\E d \in Db, t \in Tok : Arrive(f, d, t)) \/ Verify(f) \/ Send(f) \/ Answer(f))
      \/ (\E r \in Req : AllocBegins(r))
      => UNCHANGED h
  BY Zenon DEF AllocProbes, Stop, SqldExits, TokenDies, Arrive, Verify, Send, Answer, AllocBegins
<1> QED BY <1>1, <1>4, <1>5, <1>6, <1>7, <1>8 DEF Next

-----------------------------------------------------------------------------
(* The shape of everything else.                                           *)

LEMMA RowsType ==
  ASSUME Shape, Next
  PROVE  row' \in [Db -> Status] /\ ports' \in [Db -> SUBSET Port]
<1> USE DEF Shape, Status
<1>1. ASSUME NEW r \in Req, AllocEnds(r)
      PROVE  row' \in [Db -> Status] /\ ports' \in [Db -> SUBSET Port]
  BY <1>1 DEF AllocEnds, Alloc
<1>2. ASSUME NEW r \in Req, Launch(r) \/ LaunchFails(r) \/ DropRow(r) \/ (\E d \in Db : RequestDelete(r, d))
      PROVE  row' \in [Db -> Status] /\ ports' = ports
  BY <1>2, ZenonT(40) DEF Launch, LaunchFails, DropRow, RequestDelete, portVars
<1>3. ASSUME NEW d \in Db, Stop(d) \/ SqldExits(d)
      PROVE  row' \in [Db -> Status] /\ ports' = ports
  BY <1>3 DEF Stop, SqldExits, portVars
<1>4. CASE Crash
  BY <1>4 DEF Crash
<1>5. ASSUME NEW r \in Req,
             \/ \E d \in Db : RequestCreate(r, d) \/ RequestStart(r, d) \/ RequestMint(r, d)
             \/ AllocBegins(r) \/ AllocExhausted(r) \/ CreateConflicts(r) \/ TakeLock(r) \/ KeyStep(r)
             \/ MintRefused(r) \/ (\E t \in Tok : MintInserts(r, t))
             \/ Kill(r) \/ RemoveKey(r) \/ RemovePub(r)
      PROVE  row' = row /\ ports' = ports
  BY <1>5, Zenon DEF RequestCreate, RequestStart, RequestMint, AllocBegins, AllocExhausted,
     CreateConflicts, TakeLock, KeyStep, ReadKey, ReadTorn, ReadAbsent, OpenKey, WriteKey,
     AccessPub, OpenPub, WritePub, MintRefused, MintInserts, Kill, RemoveKey, RemovePub, portVars
<1>6. AllocProbes \/ (\E t \in Tok : TokenDies(t))
      \/ (\E f \in Fwd : (\E d \in Db, t \in Tok : Arrive(f, d, t)) \/ Verify(f) \/ Send(f) \/ Answer(f))
      => row' = row /\ ports' = ports
  BY DEF AllocProbes, TokenDies, Arrive, Verify, Send, Answer, portVars
<1> QED BY <1>1, <1>2, <1>3, <1>4, <1>5, <1>6 DEF Next

LEMMA AllocType ==
  ASSUME Shape, Next
  PROVE  alloc' \in Alloc
<1>0. alloc \in Alloc
  BY DEF Shape
<1>a. NoAlloc \in Alloc
  BY AccessAssumption DEF NoAlloc, Alloc
<1>1. ASSUME NEW r \in Req, AllocBegins(r)
      PROVE  alloc' \in Alloc
  <2>1. Persisted \in SUBSET Port
    BY DEF Persisted, Shape
  <2> QED BY <1>a, <1>1, <2>1 DEF AllocBegins, NoAlloc, Alloc
<1>2. CASE AllocProbes
  <2>1. alloc.next \in Port
    BY <1>0, <1>2, AccessAssumption DEF AllocProbes, Port, Alloc
  <2> DEFINE free == IF alloc.next \in reserved \cup alloc.seen \cup Bound
                     THEN alloc.free ELSE alloc.free \cup {alloc.next}
  <2>2. free \in SUBSET Port
    BY <1>0, <2>1 DEF Alloc
  <2>3. alloc' = [alloc EXCEPT !.next = @ + 1, !.free = free]
    BY <1>2 DEF AllocProbes
  <2>4. alloc.next + 1 \in {n \in Int : Lo <= n}
    BY <1>0, AccessAssumption DEF Alloc
  <2> DEFINE next == alloc.next + 1
  <2> HIDE DEF free, next
  <2>5. [alloc EXCEPT !.next = next, !.free = free] \in Alloc
    BY <1>0, <2>2, <2>4, Zenon DEF Alloc, next
  <2> QED BY <2>3, <2>5 DEF next
<1>3. CASE \E r \in Req : AllocExhausted(r) \/ AllocEnds(r) \/ CreateConflicts(r)
  BY <1>3, <1>a DEF AllocExhausted, AllocEnds, CreateConflicts
<1>4. CASE Crash
  BY <1>4, <1>a DEF Crash
<1>5. ASSUME NEW r \in Req,
             \/ \E d \in Db : \/ RequestCreate(r, d) \/ RequestStart(r, d) \/ RequestMint(r, d)
                              \/ RequestDelete(r, d)
             \/ TakeLock(r) \/ KeyStep(r) \/ Launch(r) \/ LaunchFails(r)
             \/ MintRefused(r) \/ (\E t \in Tok : MintInserts(r, t))
             \/ Kill(r) \/ RemoveKey(r) \/ RemovePub(r) \/ DropRow(r)
      PROVE  alloc' = alloc
  BY <1>5, Zenon DEF RequestCreate, RequestStart, RequestMint, RequestDelete, TakeLock, KeyStep, ReadKey,
     ReadTorn, ReadAbsent, OpenKey, WriteKey, AccessPub, OpenPub, WritePub, Launch, LaunchFails,
     MintRefused, MintInserts, Kill, RemoveKey, RemovePub, DropRow, portVars
<1>6. (\E t \in Tok : TokenDies(t)) \/ (\E d \in Db : Stop(d) \/ SqldExits(d))
      \/ (\E f \in Fwd : (\E d \in Db, t \in Tok : Arrive(f, d, t)) \/ Verify(f) \/ Send(f) \/ Answer(f))
      => alloc' = alloc
  BY DEF Stop, SqldExits, TokenDies, Arrive, Verify, Send, Answer, portVars
<1> QED BY <1>0, <1>1, <1>2, <1>3, <1>4, <1>5, <1>6 DEF Next

LEMMA SqldType ==
  ASSUME Shape, Next
  PROVE  sqld' \in [Db -> Key \cup {None}]
<1> USE DEF Shape
<1>1. ASSUME NEW r \in Req, Launch(r) \/ Kill(r)
      PROVE  sqld' \in [Db -> Key \cup {None}]
  BY <1>1 DEF Launch, Kill
<1>2. ASSUME NEW d \in Db, Stop(d) \/ SqldExits(d)
      PROVE  sqld' \in [Db -> Key \cup {None}]
  BY <1>2 DEF Stop, SqldExits
<1>3. CASE Crash
  BY <1>3 DEF Crash
<1>4. ASSUME NEW r \in Req,
             \/ \E d \in Db : \/ RequestCreate(r, d) \/ RequestStart(r, d) \/ RequestMint(r, d)
                              \/ RequestDelete(r, d)
             \/ AllocBegins(r) \/ AllocExhausted(r) \/ AllocEnds(r) \/ CreateConflicts(r)
             \/ TakeLock(r) \/ KeyStep(r) \/ LaunchFails(r)
             \/ MintRefused(r) \/ (\E t \in Tok : MintInserts(r, t))
             \/ RemoveKey(r) \/ RemovePub(r) \/ DropRow(r)
      PROVE  sqld' = sqld
  BY <1>4, Zenon DEF RequestCreate, RequestStart, RequestMint, RequestDelete, AllocBegins, AllocExhausted,
     AllocEnds, CreateConflicts, TakeLock, KeyStep, ReadKey, ReadTorn, ReadAbsent, OpenKey, WriteKey,
     AccessPub, OpenPub, WritePub, LaunchFails, MintRefused, MintInserts, RemoveKey, RemovePub, DropRow
<1>5. AllocProbes \/ (\E t \in Tok : TokenDies(t))
      \/ (\E f \in Fwd : (\E d \in Db, t \in Tok : Arrive(f, d, t)) \/ Verify(f) \/ Send(f) \/ Answer(f))
      => sqld' = sqld
  BY DEF AllocProbes, TokenDies, Arrive, Verify, Send, Answer
<1> QED BY <1>1, <1>2, <1>3, <1>4, <1>5 DEF Next

\* Only the steps of ensureDbKey() and of DELETE touch the key files.
LEMMA FilesUntouched ==
  ASSUME Next,
         \A r \in Req : ~(KeyStep(r) \/ RemoveKey(r) \/ RemovePub(r))
  PROVE  key' = key /\ pub' = pub /\ made' = made
<1>1. ASSUME NEW r \in Req,
             \/ \E d \in Db : \/ RequestCreate(r, d) \/ RequestStart(r, d) \/ RequestMint(r, d)
                              \/ RequestDelete(r, d)
             \/ AllocBegins(r) \/ AllocExhausted(r) \/ AllocEnds(r) \/ CreateConflicts(r)
             \/ TakeLock(r) \/ Launch(r) \/ LaunchFails(r)
             \/ MintRefused(r) \/ (\E t \in Tok : MintInserts(r, t))
             \/ Kill(r) \/ DropRow(r)
      PROVE  key' = key /\ pub' = pub /\ made' = made
  BY <1>1, Zenon DEF RequestCreate, RequestStart, RequestMint, RequestDelete, AllocBegins, AllocExhausted,
     AllocEnds, CreateConflicts, TakeLock, Launch, LaunchFails, MintRefused, MintInserts, Kill, DropRow,
     fileVars
<1>2. AllocProbes \/ (\E t \in Tok : TokenDies(t)) \/ (\E d \in Db : Stop(d) \/ SqldExits(d)) \/ Crash
      \/ (\E f \in Fwd : (\E d \in Db, t \in Tok : Arrive(f, d, t)) \/ Verify(f) \/ Send(f) \/ Answer(f))
      => key' = key /\ pub' = pub /\ made' = made
  BY DEF AllocProbes, TokenDies, Stop, SqldExits, Crash, Arrive, Verify, Send, Answer, fileVars
<1> QED BY <1>1, <1>2 DEF Next

LEMMA FilesType ==
  ASSUME Shape, Next
  PROVE  key' \in [Db -> File] /\ pub' \in [Db -> File] /\ made' \in [Db -> Nat]
<1> USE DEF Shape
<1>1. ASSUME NEW r \in Req, KeyStep(r)
      PROVE  key' \in [Db -> File] /\ pub' \in [Db -> File] /\ made' \in [Db -> Nat]
  <2>1. h[r].key \in File
    BY DEF Request, File
  <2>2. CASE ReadKey(r) \/ ReadTorn(r) \/ AccessPub(r)
    BY <2>2 DEF ReadKey, ReadTorn, AccessPub, fileVars
  <2>3. CASE ReadAbsent(r)
    <3> DEFINE d == h[r].db
    <3>1. /\ key' = key /\ pub' = pub
          /\ made' = [made EXCEPT ![d] = made[d] + 1]
      BY <2>3 DEF ReadAbsent
    <3> HIDE DEF d
    <3>2. CASE d \in Db
      BY <3>1, <3>2
    <3>3. CASE d \notin Db
      BY <3>1, <3>3
    <3> QED BY <3>2, <3>3
  <2>4. CASE OpenKey(r)
    BY <2>4 DEF OpenKey, File
  <2>5. CASE WriteKey(r)
    BY <2>5, <2>1 DEF WriteKey
  <2>6. CASE OpenPub(r)
    BY <2>6 DEF OpenPub, File
  <2>7. CASE WritePub(r)
    BY <2>7, <2>1 DEF WritePub, File
  <2> QED BY <1>1, <2>2, <2>3, <2>4, <2>5, <2>6, <2>7 DEF KeyStep
<1>2. ASSUME NEW r \in Req, RemoveKey(r) \/ RemovePub(r)
      PROVE  key' \in [Db -> File] /\ pub' \in [Db -> File] /\ made' \in [Db -> Nat]
  BY <1>2 DEF RemoveKey, RemovePub, File
<1> QED BY <1>1, <1>2, FilesUntouched

\* Only a mint, the end of a token and DELETE change the tokens.
LEMMA TokensUntouched ==
  ASSUME Next,
         \A r \in Req : ~(DropRow(r) \/ \E t \in Tok : MintInserts(r, t)),
         \A t \in Tok : ~TokenDies(t)
  PROVE  token' = token
<1>1. ASSUME NEW r \in Req,
             \/ \E d \in Db : \/ RequestCreate(r, d) \/ RequestStart(r, d) \/ RequestMint(r, d)
                              \/ RequestDelete(r, d)
             \/ AllocBegins(r) \/ AllocExhausted(r) \/ AllocEnds(r) \/ CreateConflicts(r)
             \/ TakeLock(r) \/ KeyStep(r) \/ Launch(r) \/ LaunchFails(r) \/ MintRefused(r)
             \/ Kill(r) \/ RemoveKey(r) \/ RemovePub(r)
      PROVE  token' = token
  BY <1>1, Zenon DEF RequestCreate, RequestStart, RequestMint, RequestDelete, AllocBegins, AllocExhausted,
     AllocEnds, CreateConflicts, TakeLock, KeyStep, ReadKey, ReadTorn, ReadAbsent, OpenKey, WriteKey,
     AccessPub, OpenPub, WritePub, Launch, LaunchFails, MintRefused, Kill, RemoveKey, RemovePub
<1>2. AllocProbes \/ (\E d \in Db : Stop(d) \/ SqldExits(d)) \/ Crash
      \/ (\E f \in Fwd : (\E d \in Db, t \in Tok : Arrive(f, d, t)) \/ Verify(f) \/ Send(f) \/ Answer(f))
      => token' = token
  BY DEF AllocProbes, Stop, SqldExits, Crash, Arrive, Verify, Send, Answer
<1> QED BY <1>1, <1>2 DEF Next

LEMMA TokensType ==
  ASSUME Shape, QueueInv, Next
  PROVE  token' \in [Tok -> Token]
<1> USE DEF Shape
<1>1. ASSUME NEW r \in Req, NEW t \in Tok, MintInserts(r, t)
      PROVE  token' \in [Tok -> Token]
  <2>1. h[r].db \in Db
    BY <1>1 DEF MintInserts, QueueInv
  <2>2. Signed(h[r].db, h[r].key) \in Token
    BY <2>1 DEF Signed, Token, Request
  <2> QED BY <1>1, <2>2 DEF MintInserts
<1>2. ASSUME NEW r \in Req, DropRow(r)
      PROVE  token' \in [Tok -> Token]
  <2>1. \A t \in Tok : [token[t] EXCEPT !.st = "dropped"] \in Token
    BY DEF Token
  <2> QED BY <1>2, <2>1 DEF DropRow
<1>3. ASSUME NEW t \in Tok, TokenDies(t)
      PROVE  token' \in [Tok -> Token]
  <2>1. [token[t] EXCEPT !.st = "dead"] \in Token
    BY DEF Token
  <2> QED BY <1>3, <2>1 DEF TokenDies, Dead
<1> QED BY <1>1, <1>2, <1>3, TokensUntouched

\* Only the gateway's own steps and a crash move its requests and its cache.
GateMoves == \/ Crash
             \/ \E f \in Fwd : \/ \E d \in Db, t \in Tok : Arrive(f, d, t)
                              \/ Verify(f) \/ Send(f) \/ Answer(f)

LEMMA GateUntouched ==
  ASSUME Next, ~GateMoves
  PROVE  cache' = cache /\ g' = g
<1>1. ASSUME NEW r \in Req,
             \/ \E d \in Db : \/ RequestCreate(r, d) \/ RequestStart(r, d) \/ RequestMint(r, d)
                              \/ RequestDelete(r, d)
             \/ AllocBegins(r) \/ AllocExhausted(r) \/ AllocEnds(r) \/ CreateConflicts(r)
             \/ TakeLock(r) \/ KeyStep(r) \/ Launch(r) \/ LaunchFails(r)
             \/ MintRefused(r) \/ (\E t \in Tok : MintInserts(r, t))
             \/ Kill(r) \/ RemoveKey(r) \/ RemovePub(r) \/ DropRow(r)
      PROVE  cache' = cache /\ g' = g
  BY <1>1, Zenon DEF RequestCreate, RequestStart, RequestMint, RequestDelete, AllocBegins, AllocExhausted,
     AllocEnds, CreateConflicts, TakeLock, KeyStep, ReadKey, ReadTorn, ReadAbsent, OpenKey, WriteKey,
     AccessPub, OpenPub, WritePub, Launch, LaunchFails, MintRefused, MintInserts, Kill, RemoveKey,
     RemovePub, DropRow, gateVars
<1>2. AllocProbes \/ (\E d \in Db : Stop(d) \/ SqldExits(d)) \/ (\E t \in Tok : TokenDies(t))
      => cache' = cache /\ g' = g
  BY DEF AllocProbes, Stop, SqldExits, TokenDies, gateVars
<1> QED BY <1>1, <1>2 DEF Next, GateMoves

\* The two ways Send(f) ends.
Unreached(f) == g' = [g EXCEPT ![f].at = "unreachable"]
Reached(f, d) ==
  g' = [g EXCEPT ![f].at = IF sqld[d] = token[g[f].tok].key THEN "served" ELSE "refused",
                 ![f].by = d]

LEMMA GateType ==
  ASSUME Shape, Next
  PROVE  cache' \in [Db -> File] /\ g' \in [Fwd -> Forward]
<1> USE DEF Shape
<1>1. ASSUME NEW f \in Fwd, NEW d \in Db, NEW t \in Tok, Arrive(f, d, t)
      PROVE  cache' \in [Db -> File] /\ g' \in [Fwd -> Forward]
  <2>1. HttpPort(d) \in Chosen
    BY DEF HttpPort, Chosen
  <2> DEFINE q == [at |-> "verify", db |-> d, tok |-> t, port |-> HttpPort(d), by |-> None]
  <2>2. q \in Forward
    BY <2>1 DEF Forward
  <2>3. g' = [g EXCEPT ![f] = q] /\ cache' = cache
    BY <1>1 DEF Arrive
  <2> HIDE DEF q
  <2> QED BY <2>2, <2>3
<1>2. ASSUME NEW f \in Fwd, Verify(f)
      PROVE  cache' \in [Db -> File] /\ g' \in [Fwd -> Forward]
  <2> DEFINE k == IF cache[g[f].db] # None THEN cache[g[f].db] ELSE pub[g[f].db]
             at == IF k = token[g[f].tok].key THEN "send" ELSE "denied"
             c == [cache EXCEPT ![g[f].db] = k]
  <2>1. c \in [Db -> File]
    OBVIOUS
  <2>2. [g[f] EXCEPT !.at = at] \in Forward
    BY DEF Forward
  <2>3. cache' = c /\ g' = [g EXCEPT ![f] = [g[f] EXCEPT !.at = at]]
    BY <1>2 DEF Verify
  <2> HIDE DEF at, c
  <2> QED BY <2>1, <2>2, <2>3
<1>3. ASSUME NEW f \in Fwd, Send(f)
      PROVE  cache' \in [Db -> File] /\ g' \in [Fwd -> Forward]
  <2>1. [g[f] EXCEPT !.at = "unreachable"] \in Forward
    BY DEF Forward
  <2>2. ASSUME NEW d \in Db, Reached(f, d)
        PROVE  g' \in [Fwd -> Forward]
    <3> DEFINE at == IF sqld[d] = token[g[f].tok].key THEN "served" ELSE "refused"
    <3>1. at \in {"served", "refused"}
      OBVIOUS
    <3>2. g' = [g EXCEPT ![f] = [g[f] EXCEPT !.at = at, !.by = d]]
      BY <2>2 DEF Reached
    <3> HIDE DEF at
    <3>3. [g[f] EXCEPT !.at = at, !.by = d] \in Forward
      BY <3>1 DEF Forward
    <3> QED BY <3>2, <3>3
  <2>3. cache' = cache /\ (Unreached(f) \/ \E d \in Db : Reached(f, d))
    BY <1>3 DEF Send, Listening, Unreached, Reached
  <2>4. Unreached(f) => g' \in [Fwd -> Forward]
    BY <2>1 DEF Unreached
  <2> QED BY <2>2, <2>3, <2>4
<1>4. ASSUME NEW f \in Fwd, Answer(f)
      PROVE  cache' \in [Db -> File] /\ g' \in [Fwd -> Forward]
  BY <1>4, NoFwdShape DEF Answer
<1>5. CASE Crash
  BY <1>5, NoFwdShape DEF Crash, File
<1> QED BY <1>1, <1>2, <1>3, <1>4, <1>5, GateUntouched DEF GateMoves

LEMMA ShapeNext == ASSUME Shape, QueueInv, Next PROVE Shape'
BY RequestsType, RowsType, AllocType, SqldType, FilesType, TokensType, GateType DEF Shape

-----------------------------------------------------------------------------
(* How the steps move requests and rows.                                   *)

\* Only the request r moves, and it goes on with its database or ends.
Continues(r) ==
  /\ h[r].pc \notin {"idle", "queued"}
  /\ \A q \in Req \ {r} : h'[q] = h[q]
  /\ \/ h'[r] = Idle
     \/ h'[r].db = h[r].db /\ h'[r].pc \notin {"idle", "queued"}

LEMMA Moving ==
  ASSUME Shape, NEW r \in Req
  PROVE  /\ \A pc : Goes(r, pc) => /\ h'[r].db = h[r].db /\ h'[r].pc = pc /\ h'[r].key = h[r].key
                                   /\ \A q \in Req \ {r} : h'[q] = h[q]
         /\ Ends(r) => h'[r] = Idle /\ \A q \in Req \ {r} : h'[q] = h[q]
         /\ LegDone(r) => /\ h'[r].db = h[r].db /\ h'[r].pc \in {"keyed", "access"}
                          /\ h'[r].key = h[r].key
                          /\ \A q \in Req \ {r} : h'[q] = h[q]
<1>0. h \in [Req -> Request] /\ h[r] \in Request
  BY DEF Shape
<1>1. ASSUME NEW pc, Goes(r, pc)
      PROVE  /\ h'[r].db = h[r].db /\ h'[r].pc = pc /\ h'[r].key = h[r].key
             /\ \A q \in Req \ {r} : h'[q] = h[q]
  <2>1. h'[r] = [h[r] EXCEPT !.pc = pc] /\ \A q \in Req \ {r} : h'[q] = h[q]
    BY <1>0, <1>1 DEF Goes
  <2> QED BY <1>0, <2>1 DEF Request
<1>2. ASSUME Ends(r)
      PROVE  h'[r] = Idle /\ \A q \in Req \ {r} : h'[q] = h[q]
  BY <1>0, <1>2 DEF Ends
<1>3. ASSUME LegDone(r)
      PROVE  /\ h'[r].db = h[r].db /\ h'[r].pc \in {"keyed", "access"} /\ h'[r].key = h[r].key
             /\ \A q \in Req \ {r} : h'[q] = h[q]
  <2> DEFINE pc == IF h[r].legs = 1 THEN "keyed" ELSE "access"
             legs == h[r].legs - 1
  <2>1. h' = [h EXCEPT ![r] = [h[r] EXCEPT !.legs = legs, !.pc = pc]]
    BY <1>3 DEF LegDone
  <2>2. pc \in {"keyed", "access"}
    OBVIOUS
  <2> HIDE DEF pc, legs
  <2>3. h'[r] = [h[r] EXCEPT !.legs = legs, !.pc = pc] /\ \A q \in Req \ {r} : h'[q] = h[q]
    BY <1>0, <2>1
  <2> QED BY <1>0, <2>2, <2>3 DEF Request
<1> QED BY <1>1, <1>2, <1>3

LEMMA KeyStepContinues ==
  ASSUME Shape, NEW r \in Req, KeyStep(r)
  PROVE  Continues(r)
<1>0. h \in [Req -> Request] /\ h[r] \in Request
  BY DEF Shape
<1>1. CASE ReadKey(r)
  <2> DEFINE k == key[h[r].db]
  <2>1. h[r].pc = "read"
        /\ h' = [h EXCEPT ![r] = [h[r] EXCEPT !.pc = "access", !.key = k, !.legs = 1]]
    BY <1>1 DEF ReadKey
  <2> HIDE DEF k
  <2>2. h'[r] = [h[r] EXCEPT !.pc = "access", !.key = k, !.legs = 1]
        /\ \A q \in Req \ {r} : h'[q] = h[q]
    BY <1>0, <2>1
  <2>3. h'[r].db = h[r].db /\ h'[r].pc = "access"
    BY <1>0, <2>2 DEF Request
  <2> QED BY <2>1, <2>2, <2>3 DEF Continues
<1>2. CASE ReadAbsent(r)
  <2> DEFINE k == FreshKey(h[r].db)
  <2>1. h[r].pc = "read"
        /\ h' = [h EXCEPT ![r] = [h[r] EXCEPT !.pc = "open", !.key = k, !.legs = 2]]
    BY <1>2 DEF ReadAbsent
  <2> HIDE DEF k
  <2>2. h'[r] = [h[r] EXCEPT !.pc = "open", !.key = k, !.legs = 2]
        /\ \A q \in Req \ {r} : h'[q] = h[q]
    BY <1>0, <2>1
  <2>3. h'[r].db = h[r].db /\ h'[r].pc = "open"
    BY <1>0, <2>2 DEF Request
  <2> QED BY <2>1, <2>2, <2>3 DEF Continues
<1>3. CASE ReadTorn(r) \/ OpenKey(r) \/ WriteKey(r)
  BY <1>3, Moving DEF ReadTorn, OpenKey, WriteKey, Continues
<1>4. CASE AccessPub(r) \/ OpenPub(r) \/ WritePub(r)
  BY <1>4, Moving DEF AccessPub, OpenPub, WritePub, Continues
<1> QED BY <1>1, <1>2, <1>3, <1>4 DEF KeyStep

LEMMA RequestContinues ==
  ASSUME Shape, NEW r \in Req,
         TakeLock(r) \/ KeyStep(r) \/ Launch(r) \/ LaunchFails(r) \/ MintRefused(r)
         \/ (\E t \in Tok : MintInserts(r, t))
         \/ Kill(r) \/ RemoveKey(r) \/ RemovePub(r) \/ DropRow(r)
  PROVE  Continues(r)
<1>1. CASE TakeLock(r)
  BY <1>1, Moving DEF TakeLock, Continues
<1>2. CASE Launch(r) \/ LaunchFails(r) \/ MintRefused(r) \/ (\E t \in Tok : MintInserts(r, t))
           \/ DropRow(r)
  BY <1>2, Moving DEF Launch, LaunchFails, MintRefused, MintInserts, DropRow, Continues
<1>3. CASE Kill(r) \/ RemoveKey(r) \/ RemovePub(r)
  BY <1>3, Moving DEF Kill, RemoveKey, RemovePub, Continues
<1> QED BY <1>1, <1>2, <1>3, KeyStepContinues

\* Rows come and go only with the end of an allocation and of DELETE.
Kept == /\ ports' = ports
        /\ \A d \in Db : /\ row'[d] = "absent" <=> row[d] = "absent"
                         /\ row'[d] = "gone" <=> row[d] = "gone"

LEMMA RowsKept ==
  ASSUME Shape, Next, \A r \in Req : ~(AllocEnds(r) \/ DropRow(r))
  PROVE  Kept
<1> row \in [Db -> Status]
  BY DEF Shape
<1>1. ASSUME NEW r \in Req, NEW d \in Db, RequestDelete(r, d)
      PROVE  Kept
  BY <1>1 DEF RequestDelete, Exists, portVars, Kept
<1>2. ASSUME NEW r \in Req, Launch(r) \/ LaunchFails(r)
      PROVE  Kept
  BY <1>2 DEF Launch, LaunchFails, Exists, portVars, Kept
<1>3. ASSUME NEW d \in Db, Stop(d) \/ SqldExits(d)
      PROVE  Kept
  BY <1>3 DEF Stop, SqldExits, Exists, portVars, Kept
<1>4. CASE Crash
  BY <1>4 DEF Crash, Exists, Kept
<1>5. ASSUME NEW r \in Req,
             \/ \E d \in Db : RequestCreate(r, d) \/ RequestStart(r, d) \/ RequestMint(r, d)
             \/ AllocBegins(r) \/ AllocExhausted(r) \/ CreateConflicts(r) \/ TakeLock(r) \/ KeyStep(r)
             \/ MintRefused(r) \/ (\E t \in Tok : MintInserts(r, t))
             \/ Kill(r) \/ RemoveKey(r) \/ RemovePub(r)
      PROVE  row' = row /\ ports' = ports
  BY <1>5, Zenon DEF RequestCreate, RequestStart, RequestMint, AllocBegins, AllocExhausted,
     CreateConflicts, TakeLock, KeyStep, ReadKey, ReadTorn, ReadAbsent, OpenKey, WriteKey,
     AccessPub, OpenPub, WritePub, MintRefused, MintInserts, Kill, RemoveKey, RemovePub, portVars
<1>6. AllocProbes \/ (\E t \in Tok : TokenDies(t))
      \/ (\E f \in Fwd : (\E d \in Db, t \in Tok : Arrive(f, d, t)) \/ Verify(f) \/ Send(f) \/ Answer(f))
      => row' = row /\ ports' = ports
  BY DEF AllocProbes, TokenDies, Arrive, Verify, Send, Answer, portVars
<1>7. row' = row /\ ports' = ports => Kept
  BY DEF Kept
<1> QED BY <1>1, <1>2, <1>3, <1>4, <1>5, <1>6, <1>7 DEF Next

-----------------------------------------------------------------------------
(* The ports.                                                              *)

LEMMA QueueNext == ASSUME Shape, QueueInv, AllocInv, Next PROVE QueueInv'
<1> h \in [Req -> Request] /\ row \in [Db -> Status]
  BY DEF Shape
<1>0. Idle.pc = "idle" /\ Idle.db = None
  BY DEF Idle
<1>1. ASSUME NEW r \in Req, NEW d \in Db, RequestCreate(r, d)
      PROVE  QueueInv'
  <2>1. row[d] = "absent" /\ row' = row /\ \A q \in Req : h[q].db # d
    BY <1>1 DEF RequestCreate
  <2>2. h'[r].pc = "queued" /\ h'[r].db = d /\ \A q \in Req \ {r} : h'[q] = h[q]
    BY <1>1 DEF RequestCreate, Idle
  <2> QED BY <2>1, <2>2 DEF QueueInv
<1>2. ASSUME NEW r \in Req, NEW d \in Db, RequestStart(r, d) \/ RequestMint(r, d) \/ RequestDelete(r, d)
      PROVE  QueueInv'
  <2>1. row[d] # "absent"
    BY <1>2 DEF RequestStart, RequestMint, RequestDelete, Exists
  <2>2. row' = row \/ row' = [row EXCEPT ![d] = "deleting"]
    BY <1>2 DEF RequestStart, RequestMint, RequestDelete
  <2>3. h'[r].pc \notin {"idle", "queued"} /\ h'[r].db = d /\ \A q \in Req \ {r} : h'[q] = h[q]
    BY <1>2 DEF RequestStart, RequestMint, RequestDelete, Idle
  <2>4. \A e \in Db : row'[e] = "absent" <=> row[e] = "absent"
    BY <2>1, <2>2
  <2> QED BY <2>1, <2>3, <2>4 DEF QueueInv
<1>3. ASSUME NEW r \in Req, AllocEnds(r)
      PROVE  QueueInv'
  <2>1. h'[r].pc = "lock" /\ h'[r].db = h[r].db /\ \A q \in Req \ {r} : h'[q] = h[q]
    BY <1>3, Moving DEF AllocEnds
  <2>2. row' = [row EXCEPT ![h[r].db] = "starting"]
    BY <1>3 DEF AllocEnds
  <2>3. h[r].pc = "queued"
    BY <1>3, NullKeys DEF AllocEnds, AllocInv
  <2> QED BY <2>1, <2>2, <2>3 DEF QueueInv
<1>4. ASSUME NEW r \in Req, Continues(r), Kept
      PROVE  QueueInv'
  BY <1>0, <1>4 DEF QueueInv, Continues, Kept
<1>5. ASSUME NEW r \in Req, DropRow(r)
      PROVE  QueueInv'
  <2>1. row' = [row EXCEPT ![h[r].db] = "gone"] /\ h[r].pc = "drop"
    BY <1>5 DEF DropRow
  <2>2. h'[r] = Idle /\ \A q \in Req \ {r} : h'[q] = h[q]
    BY <1>5, Moving DEF DropRow
  <2>3. row[h[r].db] # "absent"
    BY <2>1 DEF QueueInv
  <2> QED BY <1>0, <2>1, <2>2, <2>3 DEF QueueInv
<1>6. ASSUME NEW r \in Req, Kept, AllocExhausted(r) \/ CreateConflicts(r)
      PROVE  QueueInv'
  <2>1. h'[r] = Idle /\ \A q \in Req \ {r} : h'[q] = h[q]
    BY <1>6, Moving DEF AllocExhausted, CreateConflicts
  <2> QED BY <1>0, <1>6, <2>1 DEF QueueInv, Kept
<1>7. ASSUME Crash
      PROVE  QueueInv'
  <2>1. \A r \in Req : h'[r] = Idle
    BY <1>7 DEF Crash
  <2> QED BY <1>0, <2>1 DEF QueueInv
<1>8. ASSUME Kept, h' = h
      PROVE  QueueInv'
  BY <1>8 DEF QueueInv, Kept
<1>9. AllocProbes \/ (\E d \in Db : Stop(d) \/ SqldExits(d)) \/ (\E t \in Tok : TokenDies(t))
      \/ (\E f \in Fwd : (\E d \in Db, t \in Tok : Arrive(f, d, t)) \/ Verify(f) \/ Send(f) \/ Answer(f))
      \/ (\E r \in Req : AllocBegins(r))
      => h' = h
  BY ZenonT(40) DEF AllocProbes, Stop, SqldExits, TokenDies, Arrive, Verify, Send, Answer, AllocBegins
<1>10. CASE \E r \in Req : AllocEnds(r) \/ DropRow(r)
  BY <1>10, <1>3, <1>5
<1>11. CASE \A r \in Req : ~(AllocEnds(r) \/ DropRow(r))
  <2>1. Kept
    BY <1>11, RowsKept
  <2> QED BY <1>1, <1>2, <1>4, <1>6, <1>7, <1>8, <1>9, <1>11, <2>1, RequestContinues DEF Next
<1> QED BY <1>10, <1>11

\* The steps that end an allocation, and those that leave it alone.
AllocOver == Crash \/ \E r \in Req : AllocExhausted(r) \/ AllocEnds(r) \/ CreateConflicts(r)
AllocGoesOn == AllocProbes \/ \E r \in Req : AllocBegins(r)

LEMMA AllocUntouched ==
  ASSUME Next, ~AllocOver, ~AllocGoesOn
  PROVE  alloc' = alloc
<1>1. ASSUME NEW r \in Req,
             \/ \E d \in Db : \/ RequestCreate(r, d) \/ RequestStart(r, d) \/ RequestMint(r, d)
                              \/ RequestDelete(r, d)
             \/ TakeLock(r) \/ KeyStep(r) \/ Launch(r) \/ LaunchFails(r)
             \/ MintRefused(r) \/ (\E t \in Tok : MintInserts(r, t))
             \/ Kill(r) \/ RemoveKey(r) \/ RemovePub(r) \/ DropRow(r)
      PROVE  alloc' = alloc
  BY <1>1, Zenon DEF RequestCreate, RequestStart, RequestMint, RequestDelete, TakeLock, KeyStep, ReadKey,
     ReadTorn, ReadAbsent, OpenKey, WriteKey, AccessPub, OpenPub, WritePub, Launch, LaunchFails,
     MintRefused, MintInserts, Kill, RemoveKey, RemovePub, DropRow, portVars
<1>2. (\E t \in Tok : TokenDies(t)) \/ (\E d \in Db : Stop(d) \/ SqldExits(d))
      \/ (\E f \in Fwd : (\E d \in Db, t \in Tok : Arrive(f, d, t)) \/ Verify(f) \/ Send(f) \/ Answer(f))
      => alloc' = alloc
  BY DEF TokenDies, Stop, SqldExits, Arrive, Verify, Send, Answer, portVars
<1> QED BY <1>1, <1>2 DEF Next, AllocOver, AllocGoesOn

LEMMA QueuedStays ==
  ASSUME Shape, Next, ~AllocOver, NEW q \in Req, h[q].pc = "queued"
  PROVE  h'[q].pc = "queued"
<1> h \in [Req -> Request]
  BY DEF Shape
<1>1. ASSUME NEW r \in Req, NEW d \in Db,
             RequestCreate(r, d) \/ RequestStart(r, d) \/ RequestMint(r, d) \/ RequestDelete(r, d)
      PROVE  h'[q] = h[q]
  <2>1. r # q
    BY <1>1 DEF RequestCreate, RequestStart, RequestMint, RequestDelete, Idle
  <2> QED BY <1>1, <2>1 DEF RequestCreate, RequestStart, RequestMint, RequestDelete
<1>2. ASSUME NEW r \in Req, Continues(r)
      PROVE  h'[q] = h[q]
  BY <1>2 DEF Continues
<1>3. AllocProbes \/ (\E d \in Db : Stop(d) \/ SqldExits(d)) \/ (\E t \in Tok : TokenDies(t))
      \/ (\E f \in Fwd : (\E d \in Db, t \in Tok : Arrive(f, d, t)) \/ Verify(f) \/ Send(f) \/ Answer(f))
      \/ (\E r \in Req : AllocBegins(r))
      => h' = h
  BY Zenon DEF AllocProbes, Stop, SqldExits, TokenDies, Arrive, Verify, Send, Answer, AllocBegins
<1> QED BY <1>1, <1>2, <1>3, RequestContinues DEF Next, AllocOver

\* Outside the end of an allocation no row appears, and no row gets other ports.
LEMMA NoRowAppears ==
  ASSUME Shape, Next, \A r \in Req : ~AllocEnds(r)
  PROVE  ports' = ports /\ \A d \in Db : Exists(d)' => Exists(d)
<1>1. ASSUME NEW r \in Req, DropRow(r)
      PROVE  ports' = ports /\ \A d \in Db : Exists(d)' => Exists(d)
  BY <1>1 DEF DropRow, Shape, Exists
<1>2. CASE Kept
  BY <1>2 DEF Kept, Exists
<1> QED BY <1>1, <1>2, RowsKept

LEMMA AllocNext == ASSUME Shape, AllocInv, Next PROVE AllocInv'
<1>1. CASE AllocOver
  <2>1. alloc' = NoAlloc
    BY <1>1 DEF AllocOver, Crash, AllocExhausted, AllocEnds, CreateConflicts
  <2> QED BY <2>1 DEF AllocInv, NoAlloc
<1>2. ASSUME NEW r \in Req, AllocBegins(r), ~AllocOver
      PROVE  AllocInv'
  <2>1. alloc'.by = r /\ alloc'.seen = Persisted /\ alloc'.free = {} /\ h[r].pc = "queued"
    BY <1>2 DEF AllocBegins, NoAlloc
  <2>2. row' = row /\ ports' = ports
    BY <1>2 DEF AllocBegins
  <2>3. \A d \in Db : Exists(d)' => ports'[d] \subseteq alloc'.seen
    BY <2>1, <2>2 DEF Exists, Persisted
  <2>4. h'[r].pc = "queued"
    BY <1>2, <2>1, QueuedStays
  <2> QED BY <2>1, <2>3, <2>4 DEF AllocInv
<1>3. CASE AllocProbes /\ ~AllocOver
  <2>1. alloc \in Alloc
    BY DEF Shape
  <2>2. /\ alloc'.by = alloc.by /\ alloc'.seen = alloc.seen
        /\ alloc'.free \cap alloc.seen = {}
    <3> DEFINE free == IF alloc.next \in reserved \cup alloc.seen \cup Bound
                       THEN alloc.free ELSE alloc.free \cup {alloc.next}
    <3>1. free \cap alloc.seen = {}
      BY DEF AllocInv
    <3>2. alloc' = [alloc EXCEPT !.next = @ + 1, !.free = free]
      BY <1>3 DEF AllocProbes
    <3> HIDE DEF free
    <3> QED BY <2>1, <3>1, <3>2 DEF Alloc
  <2>3. row' = row /\ ports' = ports /\ h' = h
    BY <1>3 DEF AllocProbes
  <2> QED BY <2>2, <2>3 DEF AllocInv, Exists
<1>4. CASE ~AllocOver /\ ~AllocGoesOn
  <2>1. alloc' = alloc
    BY <1>4, AllocUntouched
  <2>2. ports' = ports /\ \A d \in Db : Exists(d)' => Exists(d)
    BY <1>4, NoRowAppears DEF AllocOver
  <2>3. alloc.by # None => alloc.by \in Req
    BY DEF Shape, Alloc
  <2>4. alloc.by # None => h'[alloc.by].pc = "queued"
    BY <1>4, <2>3, QueuedStays DEF AllocInv
  <2> QED BY <2>1, <2>2, <2>4 DEF AllocInv
<1> QED BY <1>1, <1>2, <1>3, <1>4 DEF AllocGoesOn

LEMMA ExclusiveNext ==
  ASSUME Shape, QueueInv, AllocInv, PortsExclusive, Next
  PROVE  PortsExclusive'
<1>1. ASSUME NEW r \in Req, AllocEnds(r)
      PROVE  PortsExclusive'
  <2> DEFINE d == h[r].db
  <2>1. h[r].pc = "queued" /\ alloc.by # None
    BY <1>1, NullKeys DEF AllocEnds, AllocInv
  <2>2. d \in Db /\ row[d] = "absent"
    BY <2>1 DEF QueueInv
  <2>3. ports' = [ports EXCEPT ![d] = alloc.free] /\ row' = [row EXCEPT ![d] = "starting"]
    BY <1>1 DEF AllocEnds
  <2> HIDE DEF d
  <2>4. \A e \in Db \ {d} : Exists(e)' => Exists(e) /\ ports'[e] = ports[e]
    BY <2>3 DEF Exists, Shape
  <2>5. ports'[d] = alloc.free
    BY <2>2, <2>3 DEF Shape
  <2>6. \A e \in Db \ {d} : Exists(e)' => ports'[e] \cap ports'[d] = {}
    BY <2>1, <2>4, <2>5 DEF AllocInv
  <2> QED BY <2>4, <2>6 DEF PortsExclusive
<1>2. CASE \A r \in Req : ~AllocEnds(r)
  BY <1>2, NoRowAppears DEF PortsExclusive
<1> QED BY <1>1, <1>2

LEMMA ReservedUntouched ==
  ASSUME Next, ~Crash, \A r \in Req : ~(AllocEnds(r) \/ CreateConflicts(r) \/ DropRow(r))
  PROVE  reserved' = reserved
<1>1. ASSUME NEW r \in Req,
             \/ \E d \in Db : \/ RequestCreate(r, d) \/ RequestStart(r, d) \/ RequestMint(r, d)
                              \/ RequestDelete(r, d)
             \/ AllocBegins(r) \/ AllocExhausted(r) \/ TakeLock(r) \/ KeyStep(r)
             \/ Launch(r) \/ LaunchFails(r) \/ MintRefused(r) \/ (\E t \in Tok : MintInserts(r, t))
             \/ Kill(r) \/ RemoveKey(r) \/ RemovePub(r)
      PROVE  reserved' = reserved
  BY <1>1, Zenon DEF RequestCreate, RequestStart, RequestMint, RequestDelete, AllocBegins, AllocExhausted,
     TakeLock, KeyStep, ReadKey, ReadTorn, ReadAbsent, OpenKey, WriteKey, AccessPub, OpenPub, WritePub,
     Launch, LaunchFails, MintRefused, MintInserts, Kill, RemoveKey, RemovePub, portVars
<1>2. AllocProbes \/ (\E t \in Tok : TokenDies(t)) \/ (\E d \in Db : Stop(d) \/ SqldExits(d))
      \/ (\E f \in Fwd : (\E d \in Db, t \in Tok : Arrive(f, d, t)) \/ Verify(f) \/ Send(f) \/ Answer(f))
      => reserved' = reserved
  BY DEF AllocProbes, TokenDies, Stop, SqldExits, Arrive, Verify, Send, Answer, portVars
<1> QED BY <1>1, <1>2 DEF Next

LEMMA ReturnNext ==
  ASSUME Shape, QueueInv, AllocInv, PortsReturn, Next
  PROVE  PortsReturn'
<1>0. Kept => Persisted' = Persisted
  BY DEF Kept, Persisted, Exists
<1>1. ASSUME NEW r \in Req, AllocEnds(r)
      PROVE  PortsReturn'
  <2> DEFINE d == h[r].db
  <2>1. h[r].pc = "queued"
    BY <1>1, NullKeys DEF AllocEnds, AllocInv
  <2>2. d \in Db /\ row[d] = "absent"
    BY <2>1 DEF QueueInv
  <2>3. /\ ports' = [ports EXCEPT ![d] = alloc.free] /\ row' = [row EXCEPT ![d] = "starting"]
        /\ reserved' = reserved \cup alloc.free
    BY <1>1 DEF AllocEnds, Reserve
  <2> HIDE DEF d
  <2>4. row'[d] = "starting" /\ ports'[d] = alloc.free
    BY <2>2, <2>3 DEF Shape
  <2>5. \A e \in Db : Exists(e) => Exists(e)' /\ ports'[e] = ports[e]
    BY <2>2, <2>3 DEF Shape, Exists
  <2>6. alloc.free \subseteq Persisted'
    BY <2>2, <2>4 DEF Persisted, Exists
  <2>7. Persisted \subseteq Persisted'
    BY <2>5 DEF Persisted
  <2> QED BY <2>3, <2>6, <2>7 DEF PortsReturn
<1>2. ASSUME NEW r \in Req, DropRow(r)
      PROVE  PortsReturn'
  <2> DEFINE d == h[r].db
  <2>1. /\ ports' = ports /\ row' = [row EXCEPT ![d] = "gone"]
        /\ reserved' = reserved \ ports[d]
    BY <1>2 DEF DropRow, Release
  <2> HIDE DEF d
  <2>2. \A e \in Db \ {d} : Exists(e) => Exists(e)'
    BY <2>1 DEF Shape, Exists
  <2>3. \A p \in Persisted : p \in ports[d] \/ p \in Persisted'
    BY <2>1, <2>2 DEF Persisted
  <2> QED BY <2>1, <2>3 DEF PortsReturn
<1>3. CASE \A r \in Req : ~(AllocEnds(r) \/ DropRow(r))
  <2>1. Persisted' = Persisted
    BY <1>0, <1>3, RowsKept
  <2>2. reserved' \subseteq reserved \/ reserved' = Persisted
    BY <1>3, ReservedUntouched DEF CreateConflicts, Release, Crash
  <2> QED BY <2>1, <2>2 DEF PortsReturn
<1> QED BY <1>1, <1>2, <1>3

LEMMA PortNext == ASSUME Shape, PortInv, Next PROVE PortInv'
BY QueueNext, AllocNext, ExclusiveNext, ReturnNext DEF PortInv

-----------------------------------------------------------------------------
(* Keys and tokens.                                                        *)

\* What a step writes of a key comes from the database it is about.
HoldsHome(r) == h'[r].key \in Key => h'[r].key.db = h'[r].db

LEMMA KeysHeld ==
  ASSUME Shape, QueueInv, HomeInv, Next, NEW r \in Req
  PROVE  HoldsHome(r)
<1> h \in [Req -> Request] /\ key \in [Db -> File]
  BY DEF Shape
<1>a. ASSUME h'[r] = h[r] PROVE HoldsHome(r)
  BY <1>a DEF HomeInv, HoldsHome
<1>b. ASSUME h'[r].key = None PROVE HoldsHome(r)
  BY <1>b, NullKeys DEF HoldsHome
<1>c. ASSUME h'[r].key = h[r].key, h'[r].db = h[r].db PROVE HoldsHome(r)
  BY <1>c DEF HomeInv, HoldsHome
<1>0. Idle.key = None
  BY DEF Idle
<1>1. ASSUME NEW q \in Req, NEW d \in Db,
             RequestCreate(q, d) \/ RequestStart(q, d) \/ RequestMint(q, d) \/ RequestDelete(q, d)
      PROVE  HoldsHome(r)
  <2>1. h'[r] = h[r] \/ h'[r].key = None
    BY <1>1 DEF RequestCreate, RequestStart, RequestMint, RequestDelete, Idle
  <2> QED BY <2>1, <1>a, <1>b
<1>2. ASSUME NEW q \in Req, q # r, Continues(q)
      PROVE  HoldsHome(r)
  BY <1>2, <1>a DEF Continues
<1>3. ASSUME NEW q \in Req, AllocExhausted(q) \/ AllocEnds(q) \/ CreateConflicts(q)
      PROVE  HoldsHome(r)
  <2>1. h'[r] = h[r] \/ h'[r] = Idle \/ (h'[r].key = h[r].key /\ h'[r].db = h[r].db)
    BY <1>3, Moving DEF AllocExhausted, AllocEnds, CreateConflicts
  <2> QED BY <2>1, <1>a, <1>b, <1>c, <1>0
<1>4. CASE ReadKey(r)
  <2> DEFINE d == h[r].db
             k == key[d]
  <2>1. h[r].pc = "read" /\ k \in Key
        /\ h' = [h EXCEPT ![r] = [h[r] EXCEPT !.pc = "access", !.key = k, !.legs = 1]]
    BY <1>4 DEF ReadKey
  <2>2. d \in Db
    BY <2>1 DEF QueueInv
  <2>3. k.db = d
    BY <2>1, <2>2 DEF HomeInv
  <2> HIDE DEF k
  <2>4. h'[r] = [h[r] EXCEPT !.pc = "access", !.key = k, !.legs = 1]
    BY <2>1
  <2>5. h'[r].key = k /\ h'[r].db = d
    BY <2>4 DEF Request
  <2> QED BY <2>3, <2>5 DEF HoldsHome
<1>5. CASE ReadAbsent(r)
  <2> DEFINE k == FreshKey(h[r].db)
  <2>1. h' = [h EXCEPT ![r] = [h[r] EXCEPT !.pc = "open", !.key = k, !.legs = 2]]
    BY <1>5 DEF ReadAbsent
  <2>2. k.db = h[r].db
    BY DEF FreshKey
  <2> HIDE DEF k
  <2>3. h'[r] = [h[r] EXCEPT !.pc = "open", !.key = k, !.legs = 2]
    BY <2>1
  <2>4. h'[r].key = k /\ h'[r].db = h[r].db
    BY <2>3 DEF Request
  <2> QED BY <2>2, <2>4 DEF HoldsHome
<1>6. CASE \/ TakeLock(r) \/ ReadTorn(r) \/ OpenKey(r) \/ WriteKey(r) \/ Launch(r) \/ LaunchFails(r)
           \/ MintRefused(r) \/ (\E t \in Tok : MintInserts(r, t))
  <2>1. h'[r] = Idle \/ (h'[r].key = h[r].key /\ h'[r].db = h[r].db)
    BY <1>6, Moving DEF TakeLock, ReadTorn, OpenKey, WriteKey, Launch, LaunchFails, MintRefused,
       MintInserts
  <2> QED BY <2>1, <1>b, <1>c, <1>0
<1>7. CASE \/ AccessPub(r) \/ OpenPub(r) \/ WritePub(r)
           \/ Kill(r) \/ RemoveKey(r) \/ RemovePub(r) \/ DropRow(r)
  <2>1. h'[r] = Idle \/ (h'[r].key = h[r].key /\ h'[r].db = h[r].db)
    BY <1>7, Moving DEF AccessPub, OpenPub, WritePub, Kill, RemoveKey, RemovePub, DropRow
  <2> QED BY <2>1, <1>b, <1>c, <1>0
<1>8. CASE Crash
  BY <1>8, <1>b, <1>0 DEF Crash
<1>9. AllocProbes \/ (\E d \in Db : Stop(d) \/ SqldExits(d)) \/ (\E t \in Tok : TokenDies(t))
      \/ (\E f \in Fwd : (\E d \in Db, t \in Tok : Arrive(f, d, t)) \/ Verify(f) \/ Send(f) \/ Answer(f))
      \/ (\E q \in Req : AllocBegins(q))
      => h' = h
  BY Zenon DEF AllocProbes, Stop, SqldExits, TokenDies, Arrive, Verify, Send, Answer, AllocBegins
<1>10. h' = h => HoldsHome(r)
  BY <1>a
<1>11. ASSUME NEW q \in Req,
               TakeLock(q) \/ KeyStep(q) \/ Launch(q) \/ LaunchFails(q) \/ MintRefused(q)
               \/ (\E t \in Tok : MintInserts(q, t))
               \/ Kill(q) \/ RemoveKey(q) \/ RemovePub(q) \/ DropRow(q)
      PROVE  HoldsHome(r)
  <2>1. CASE q # r
    BY <2>1, <1>11, <1>2, RequestContinues
  <2>2. CASE q = r
    BY <2>2, <1>11, <1>4, <1>5, <1>6, <1>7 DEF KeyStep
  <2> QED BY <2>1, <2>2
<1> QED BY <1>1, <1>3, <1>8, <1>9, <1>10, <1>11 DEF Next

LEMMA KeyFilesHome ==
  ASSUME Shape, QueueInv, HomeInv, Next, NEW d \in Db
  PROVE  /\ key'[d] \in Key => key'[d].db = d
         /\ pub'[d] \in Key => pub'[d].db = d
<1> key \in [Db -> File] /\ pub \in [Db -> File] /\ h \in [Req -> Request]
  BY DEF Shape
<1> DEFINE Home == /\ key'[d] \in Key => key'[d].db = d
                   /\ pub'[d] \in Key => pub'[d].db = d
<1>0. ASSUME key' = key, pub' = pub PROVE Home
  BY <1>0 DEF HomeInv
<1>1. ASSUME NEW r \in Req, KeyStep(r) PROVE Home
  <2>1. CASE ReadKey(r) \/ ReadTorn(r) \/ ReadAbsent(r) \/ AccessPub(r)
    BY <2>1, <1>0 DEF ReadKey, ReadTorn, ReadAbsent, AccessPub, fileVars
  <2>2. CASE OpenKey(r)
    BY <2>2, NullKeys DEF OpenKey, HomeInv
  <2>3. CASE WriteKey(r)
    BY <2>3, NullKeys DEF WriteKey, HomeInv
  <2>4. CASE OpenPub(r)
    BY <2>4, NullKeys DEF OpenPub, HomeInv
  <2>5. CASE WritePub(r)
    BY <2>5, NullKeys DEF WritePub, HomeInv
  <2> QED BY <1>1, <2>1, <2>2, <2>3, <2>4, <2>5 DEF KeyStep
<1>2. ASSUME NEW r \in Req, RemoveKey(r) \/ RemovePub(r) PROVE Home
  BY <1>2, NullKeys DEF RemoveKey, RemovePub, HomeInv
<1> HIDE DEF Home
<1>3. Home
  BY <1>0, <1>1, <1>2, FilesUntouched
<1> QED BY <1>3 DEF Home

LEMMA HomeNext == ASSUME Shape, QueueInv, HomeInv, Next PROVE HomeInv'
<1>1. ASSUME NEW d \in Db, sqld'[d] \in Key PROVE sqld'[d].db = d
  <2> sqld \in [Db -> Key \cup {None}]
    BY DEF Shape
  <2>1. CASE sqld'[d] = sqld[d]
    BY <1>1, <2>1 DEF HomeInv
  <2>2. CASE sqld'[d] # sqld[d]
    <3>1. sqld'[d] # None
      BY <1>1, NullKeys
    <3>2. PICK r \in Req : Launch(r)
      <4>1. ASSUME NEW r \in Req, Kill(r) PROVE FALSE
        BY <4>1, <2>2, <3>1 DEF Kill
      <4>2. ASSUME NEW e \in Db, Stop(e) \/ SqldExits(e) PROVE FALSE
        BY <4>2, <2>2, <3>1 DEF Stop, SqldExits
      <4>3. CASE Crash
        BY <4>3, <2>2, <3>1 DEF Crash
      <4>4. ASSUME NEW r \in Req,
             \/ \E e \in Db : \/ RequestCreate(r, e) \/ RequestStart(r, e) \/ RequestMint(r, e)
                              \/ RequestDelete(r, e)
             \/ AllocBegins(r) \/ AllocExhausted(r) \/ AllocEnds(r) \/ CreateConflicts(r)
             \/ TakeLock(r) \/ KeyStep(r) \/ LaunchFails(r)
             \/ MintRefused(r) \/ (\E t \in Tok : MintInserts(r, t))
             \/ RemoveKey(r) \/ RemovePub(r) \/ DropRow(r)
            PROVE  FALSE
        BY <4>4, <2>2, Zenon DEF RequestCreate, RequestStart, RequestMint, RequestDelete, AllocBegins,
           AllocExhausted, AllocEnds, CreateConflicts, TakeLock, KeyStep, ReadKey, ReadTorn, ReadAbsent,
           OpenKey, WriteKey, AccessPub, OpenPub, WritePub, LaunchFails, MintRefused, MintInserts,
           RemoveKey, RemovePub, DropRow
      <4>5. AllocProbes \/ (\E t \in Tok : TokenDies(t))
            \/ (\E f \in Fwd : (\E e \in Db, t \in Tok : Arrive(f, e, t)) \/ Verify(f) \/ Send(f)
                               \/ Answer(f))
            => FALSE
        BY <2>2 DEF AllocProbes, TokenDies, Arrive, Verify, Send, Answer
      <4> QED BY <4>1, <4>2, <4>3, <4>4, <4>5 DEF Next
    <3>3. sqld'[d] = pub[d]
      BY <2>2, <3>2 DEF Launch
    <3> QED BY <1>1, <3>3 DEF HomeInv
  <2> QED BY <2>1, <2>2
<1> QED BY <1>1, KeyFilesHome, KeysHeld DEF HomeInv, HoldsHome

LEMMA TokenNext == ASSUME Shape, QueueInv, HomeInv, TokenInv, Next PROVE TokenInv'
<1> token \in [Tok -> Token] /\ g \in [Fwd -> Forward]
  BY DEF Shape
<1>1. ASSUME NEW t \in Tok
      PROVE  /\ token'[t].key \in Key => token'[t].key.db = token'[t].db
             /\ token[t].st # "unissued" => token'[t].st # "unissued" /\ token'[t].db = token[t].db
  <2> token[t] \in Token
    OBVIOUS
  <2>1. ASSUME NEW r \in Req, NEW u \in Tok, MintInserts(r, u)
        PROVE  \/ token'[t] = token[t]
               \/ token[t].st = "unissued" /\ token'[t] = Signed(h[r].db, h[r].key)
    BY <2>1 DEF MintInserts
  <2>2. ASSUME NEW r \in Req, token[t].st = "unissued", token'[t] = Signed(h[r].db, h[r].key)
        PROVE  token'[t].key \in Key => token'[t].key.db = token'[t].db
    BY <2>2 DEF Signed, HomeInv
  <2>3. ASSUME NEW r \in Req, DropRow(r)
        PROVE  token'[t] = token[t] \/ token'[t] = [token[t] EXCEPT !.st = "dropped"]
    BY <2>3 DEF DropRow
  <2>4. ASSUME NEW u \in Tok, TokenDies(u)
        PROVE  token'[t] = token[t] \/ token'[t] = [token[t] EXCEPT !.st = "dead"]
    BY <2>4 DEF TokenDies, Dead
  <2>5. token'[t] = token[t] =>
          /\ token'[t].key \in Key => token'[t].key.db = token'[t].db
          /\ token[t].st # "unissued" => token'[t].st # "unissued" /\ token'[t].db = token[t].db
    BY DEF TokenInv
  <2>6. ASSUME NEW st \in {"dropped", "dead"}, token'[t] = [token[t] EXCEPT !.st = st]
        PROVE  /\ token'[t].key \in Key => token'[t].key.db = token'[t].db
               /\ token[t].st # "unissued" => token'[t].st # "unissued" /\ token'[t].db = token[t].db
    <3>1. token'[t].key = token[t].key /\ token'[t].db = token[t].db /\ token'[t].st = st
      BY <2>6 DEF Token
    <3> QED BY <3>1 DEF TokenInv
  <2> QED BY <2>1, <2>2, <2>3, <2>4, <2>5, <2>6, TokensUntouched
<1>2. ASSUME NEW f \in Fwd, g'[f].at # "idle"
      PROVE  \/ /\ g[f].at # "idle" /\ g'[f].tok = g[f].tok /\ g'[f].db = g[f].db
             \/ \E d \in Db, t \in Tok : Arrive(f, d, t)
  <2> g[f] \in Forward
    OBVIOUS
  <2>0. NoFwd.at = "idle"
    BY DEF NoFwd
  <2>a. g'[f] = g[f] =>
          /\ g[f].at # "idle" /\ g'[f].tok = g[f].tok /\ g'[f].db = g[f].db
    BY <1>2
  <2>1. ASSUME NEW e \in Fwd, NEW d \in Db, NEW t \in Tok, Arrive(e, d, t), e # f
        PROVE  g'[f] = g[f]
    BY <2>1 DEF Arrive
  <2>2. ASSUME NEW e \in Fwd, Verify(e)
        PROVE  g[f].at # "idle" /\ g'[f].tok = g[f].tok /\ g'[f].db = g[f].db
    <3>1. g[e].at = "verify" /\ \E at : g' = [g EXCEPT ![e] = [g[e] EXCEPT !.at = at]]
      BY <2>2 DEF Verify
    <3>2. CASE e # f
      BY <3>1, <3>2, <2>a
    <3>3. CASE e = f
      <4>1. PICK at : g'[f] = [g[f] EXCEPT !.at = at]
        BY <3>1, <3>3
      <4> QED BY <3>1, <3>3, <4>1 DEF Forward
    <3> QED BY <3>2, <3>3
  <2>3. ASSUME NEW e \in Fwd, Send(e)
        PROVE  g[f].at # "idle" /\ g'[f].tok = g[f].tok /\ g'[f].db = g[f].db
    <3>1. g[e].at = "send" /\ (Unreached(e) \/ \E d \in Db : Reached(e, d))
      BY <2>3 DEF Send, Listening, Unreached, Reached
    <3>2. CASE e # f
      BY <3>1, <3>2, <2>a DEF Unreached, Reached
    <3>3. CASE e = f
      <4>1. Unreached(f) => g'[f] = [g[f] EXCEPT !.at = "unreachable"]
        BY DEF Unreached
      <4>2. ASSUME NEW d \in Db, Reached(f, d)
            PROVE  g'[f].tok = g[f].tok /\ g'[f].db = g[f].db
        BY <4>2 DEF Reached, Forward
      <4> QED BY <3>1, <3>3, <4>1, <4>2 DEF Forward
    <3> QED BY <3>2, <3>3
  <2>4. ASSUME NEW e \in Fwd, Answer(e)
        PROVE  g'[f] = g[f]
    BY <2>4, <1>2, <2>0 DEF Answer
  <2>5. CASE Crash
    BY <2>5, <1>2, <2>0 DEF Crash
  <2> QED BY <2>a, <2>1, <2>2, <2>3, <2>4, <2>5, GateUntouched DEF GateMoves
<1>3. ASSUME NEW f \in Fwd, g'[f].at # "idle"
      PROVE  /\ g'[f].tok \in Tok /\ g'[f].db \in Db
             /\ token'[g'[f].tok].st # "unissued" /\ token'[g'[f].tok].db = g'[f].db
  <2>1. CASE g[f].at # "idle" /\ g'[f].tok = g[f].tok /\ g'[f].db = g[f].db
    BY <2>1, <1>1 DEF TokenInv
  <2>2. ASSUME NEW d \in Db, NEW t \in Tok, Arrive(f, d, t)
        PROVE  /\ g'[f].tok \in Tok /\ g'[f].db \in Db
               /\ token'[g'[f].tok].st # "unissued" /\ token'[g'[f].tok].db = g'[f].db
    <3>1. g'[f].tok = t /\ g'[f].db = d /\ token' = token
      BY <2>2 DEF Arrive
    <3> QED BY <2>2, <3>1 DEF Arrive, Allowed
  <2> QED BY <1>2, <1>3, <2>1, <2>2
<1> QED BY <1>1, <1>3 DEF TokenInv

LEMMA ServedNext ==
  ASSUME Shape, HomeInv, TokenInv, ServedAtHome, Next
  PROVE  ServedAtHome'
<1> g \in [Fwd -> Forward] /\ sqld \in [Db -> Key \cup {None}]
  BY DEF Shape
<1>0. NoFwd.at = "idle"
  BY DEF NoFwd
<1>1. ASSUME NEW f \in Fwd, g'[f].at = "served"
      PROVE  g'[f].by = g'[f].db
  <2>1. CASE g'[f] = g[f]
    BY <1>1, <2>1 DEF ServedAtHome
  <2>2. ASSUME NEW d \in Db, Send(f), d \in Listening(g[f].port), Reached(f, d)
        PROVE  g'[f].by = g'[f].db
    <3>1. g[f].at = "send"
      BY <2>2 DEF Send
    <3>2. sqld[d] = token[g[f].tok].key /\ g'[f].by = d /\ g'[f].db = g[f].db
      BY <1>1, <2>2 DEF Reached, Forward
    <3>3. sqld[d] \in Key /\ sqld[d].db = d
      BY <2>2 DEF Listening, HomeInv
    <3> QED BY <3>1, <3>2, <3>3 DEF TokenInv
  <2>3. ASSUME NEW e \in Fwd, Send(e)
        PROVE  g'[f].by = g'[f].db
    <3>1. Unreached(e) \/ \E d \in Db : d \in Listening(g[e].port) /\ Reached(e, d)
      BY <2>3 DEF Send, Listening, Unreached, Reached
    <3>2. CASE e # f
      BY <3>1, <3>2, <2>1 DEF Unreached, Reached
    <3>3. CASE e = f
      <4>1. ~Unreached(f)
        BY <1>1 DEF Unreached, Forward
      <4> QED BY <3>1, <3>3, <4>1, <2>2, <2>3
    <3> QED BY <3>2, <3>3
  <2>4. ASSUME NEW e \in Fwd, (\E d \in Db, t \in Tok : Arrive(e, d, t)) \/ Verify(e) \/ Answer(e)
        PROVE  g'[f] = g[f]
    <3>1. CASE Verify(e)
      <4> DEFINE at == IF (IF cache[g[e].db] # None THEN cache[g[e].db] ELSE pub[g[e].db])
                          = token[g[e].tok].key THEN "send" ELSE "denied"
      <4>1. at # "served" /\ g' = [g EXCEPT ![e].at = at]
        BY <3>1 DEF Verify
      <4> HIDE DEF at
      <4>2. e = f => g'[f].at = at
        BY <4>1 DEF Forward
      <4> QED BY <1>1, <4>1, <4>2
    <3>2. CASE \E d \in Db, t \in Tok : Arrive(e, d, t)
      BY <1>1, <3>2 DEF Arrive
    <3>3. CASE Answer(e)
      BY <1>0, <1>1, <3>3 DEF Answer
    <3> QED BY <2>4, <3>1, <3>2, <3>3
  <2>5. ~Crash
    BY <1>0, <1>1 DEF Crash
  <2> QED BY <2>1, <2>3, <2>4, <2>5, GateUntouched DEF GateMoves
<1> QED BY <1>1 DEF ServedAtHome

LEMMA IInvNext == ASSUME IInv, [Next]_vars PROVE IInv'
<1>1. CASE Next
  BY <1>1, ShapeNext, PortNext, HomeNext, TokenNext, ServedNext DEF IInv, PortInv
<1>2. CASE UNCHANGED vars
  <2> USE <1>2 DEF vars, portVars, fileVars, gateVars
  <2>1. Shape'
    BY DEF IInv, Shape
  <2>2. PortInv'
    BY DEF IInv, PortInv, QueueInv, AllocInv, PortsExclusive, PortsReturn, Exists, Persisted
  <2>3. HomeInv' /\ TokenInv' /\ ServedAtHome'
    BY DEF IInv, HomeInv, TokenInv, ServedAtHome
  <2> QED BY <2>1, <2>2, <2>3 DEF IInv
<1> QED BY <1>1, <1>2

\* The strengthening holds in every reachable state.
THEOREM AccessInvariant == Spec => []IInv
BY InitIInv, IInvNext, PTL DEF Spec

\* No two rows ever hold the same port, however creations and deletions overlap
\* (routes.ts: reserveDatabase, DELETE; ports.ts: allocatePair).
THEOREM PortsAlwaysExclusive == Spec => []PortsExclusive
<1>1. IInv => PortsExclusive
  BY DEF IInv, PortInv
<1> QED BY <1>1, AccessInvariant, PTL

\* The allocator holds back no port that is not a row's (ports.ts: release).
THEOREM PortsAlwaysReturn == Spec => []PortsReturn
<1>1. IInv => PortsReturn
  BY DEF IInv, PortInv
<1> QED BY <1>1, AccessInvariant, PTL

\* What the gateway lets through on a token is served by the token's database or
\* by none (gateway.ts: createGatewayHandler).
THEOREM AlwaysServedAtHome == Spec => []ServedAtHome
<1>1. IInv => ServedAtHome
  BY DEF IInv
<1> QED BY <1>1, AccessInvariant, PTL

-----------------------------------------------------------------------------
(* The key files: what a first use has written at each of its steps, and   *)
(* who may have seen it.  It holds for a database nothing has befallen.    *)
Deleting == {"kill", "rmKey", "rmPub", "drop"}
Writing == {"open", "write", "access", "openPub", "writePub"}
Busy(r, d) == h[r].db = d /\ h[r].pc \in Writing
Issued(t, d) == token[t].db = d /\ token[t].st # "unissued"

\* The public key can be read: everyone holds the one pair.
Paired(d) ==
  /\ key[d] = pub[d]
  /\ \A r \in Req : h[r].db = d => h[r].pc \notin {"open", "write", "openPub", "writePub"}
  /\ \A r \in Req : h[r].db = d /\ h[r].pc \in {"access", "keyed"} => h[r].key = pub[d]
  /\ sqld[d] \in {None, pub[d]} /\ cache[d] \in {None, pub[d]}
  /\ \A t \in Tok : Issued(t, d) => token[t].key = pub[d]

Placed(r, d) ==
  /\ h[r].key \in Key
  /\ h[r].pc = "open" => key[d] = None
  /\ h[r].pc = "write" => key[d] = Torn
  /\ h[r].pc \in {"access", "openPub", "writePub"} => key[d] = h[r].key
  /\ pub[d] = IF h[r].pc = "writePub" THEN Torn ELSE None

\* It cannot yet: one request at most is at work on the files, and nobody has
\* seen a key.
Unpaired(d) ==
  /\ sqld[d] = None /\ cache[d] = None
  /\ \A t \in Tok : ~Issued(t, d)
  /\ \A r \in Req : ~(h[r].db = d /\ h[r].pc = "keyed")
  /\ \A q, r \in Req : Busy(q, d) /\ Busy(r, d) => q = r
  /\ \A r \in Req : Busy(r, d) => Placed(r, d)
  /\ (\A r \in Req : ~Busy(r, d)) => key[d] = None /\ pub[d] = None

FilesAgree(d) == spoilt[d] = {} => /\ pub[d] \in Key => Paired(d)
                                   /\ pub[d] \notin Key => Unpaired(d)

KeyInv ==
  /\ spoilt \in [Db -> SUBSET {"race", "cut", "delete"}]
  /\ \A r \in Req : h[r].pc \in Deleting => "delete" \in spoilt[h[r].db]
  /\ \A t \in Tok : token[t].st # "unissued" => token[t].db \in Db
  /\ \A d \in Db : FilesAgree(d)

LEMMA InitKeyInv == ASSUME Init PROVE KeyInv
<1>1. \A r \in Req : h[r].pc = "idle" /\ h[r].db = None
  BY DEF Init, Idle
<1>2. \A d \in Db : Unpaired(d) /\ pub[d] \notin Key
  BY <1>1, NullKeys DEF Init, Unpaired, Busy, Writing, Issued
<1> QED BY <1>1, <1>2 DEF Init, KeyInv, FilesAgree, Deleting

\* The steps of a request on its way through its database.
Own(r) == TakeLock(r) \/ KeyStep(r) \/ Launch(r) \/ LaunchFails(r) \/ MintRefused(r)
          \/ (\E t \in Tok : MintInserts(r, t))
          \/ Kill(r) \/ RemoveKey(r) \/ RemovePub(r) \/ DropRow(r)

\* A step that starts or ends no work on the files of d and shows nobody a key
\* of it.
Quiet(d) ==
  /\ key'[d] = key[d] /\ pub'[d] = pub[d] /\ spoilt[d] \subseteq spoilt'[d]
  /\ sqld'[d] \in {None, sqld[d]} /\ cache'[d] \in {None, cache[d]}
  /\ \A t \in Tok : Issued(t, d)' => Issued(t, d) /\ token'[t].key = token[t].key
  /\ \A r \in Req : Busy(r, d)' \/ (h'[r].db = d /\ h'[r].pc = "keyed")
                    => h[r].db = d /\ h'[r].pc = h[r].pc /\ h'[r].key = h[r].key
  /\ \A r \in Req : Busy(r, d) => Busy(r, d)'

LEMMA QuietAgrees ==
  ASSUME NEW d \in Db, FilesAgree(d), Quiet(d)
  PROVE  FilesAgree(d)'
<1> SUFFICES ASSUME spoilt'[d] = {} PROVE (pub[d] \in Key => Paired(d)') /\ (pub[d] \notin Key => Unpaired(d)')
  BY DEF FilesAgree, Quiet
<1>0. spoilt[d] = {}
  BY DEF Quiet
<1>1. CASE pub[d] \in Key
  <2>1. Paired(d)
    BY <1>0, <1>1 DEF FilesAgree
  <2> QED BY <1>1, <2>1 DEF Paired, Quiet, Busy, Writing
<1>2. CASE pub[d] \notin Key
  <2>1. Unpaired(d)
    BY <1>0, <1>2 DEF FilesAgree
  <2>2. \A r \in Req : Busy(r, d)' => Busy(r, d) /\ h'[r].pc = h[r].pc /\ h'[r].key = h[r].key
    BY DEF Quiet, Busy
  <2>3. \A r \in Req : Busy(r, d)' => Placed(r, d)'
    BY <2>1, <2>2 DEF Unpaired, Placed, Quiet
  <2> QED BY <1>2, <2>1, <2>2, <2>3 DEF Unpaired, Quiet
<1> QED BY <1>1, <1>2

-----------------------------------------------------------------------------
(* What a step of a request leaves alone.                                  *)
LEMMA OwnElsewhere ==
  ASSUME Shape, spoilt \in [Db -> SUBSET {"race", "cut", "delete"}],
         NEW r \in Req, Own(r), NEW d \in Db, h[r].db # d
  PROVE  Quiet(d)
<1> h \in [Req -> Request] /\ token \in [Tok -> Token]
  BY DEF Shape
<1>1. \A q \in Req : Busy(q, d)' \/ (h'[q].db = d /\ h'[q].pc = "keyed") \/ Busy(q, d) => h'[q] = h[q]
  <2>1. Continues(r)
    BY RequestContinues DEF Own
  <2>2. Idle.db # d
    BY NullKeys DEF Idle
  <2> QED BY <2>1, <2>2 DEF Continues, Busy
<1>2. key'[d] = key[d] /\ pub'[d] = pub[d] /\ spoilt'[d] = spoilt[d]
  <2> key \in [Db -> File] /\ pub \in [Db -> File]
    BY DEF Shape
  <2>1. CASE KeyStep(r)
    <3>1. CASE ReadKey(r) \/ ReadAbsent(r)
      BY <3>1 DEF ReadKey, ReadAbsent, Meets
    <3>2. CASE ReadTorn(r) \/ AccessPub(r)
      BY <3>2 DEF ReadTorn, AccessPub, fileVars
    <3>3. CASE OpenKey(r) \/ WriteKey(r)
      BY <3>3 DEF OpenKey, WriteKey
    <3>4. CASE OpenPub(r) \/ WritePub(r)
      BY <3>4 DEF OpenPub, WritePub
    <3> QED BY <2>1, <3>1, <3>2, <3>3, <3>4 DEF KeyStep
  <2>2. CASE RemoveKey(r) \/ RemovePub(r)
    BY <2>2 DEF RemoveKey, RemovePub
  <2>3. CASE \/ TakeLock(r) \/ Launch(r) \/ LaunchFails(r) \/ MintRefused(r)
             \/ (\E t \in Tok : MintInserts(r, t)) \/ Kill(r) \/ DropRow(r)
    BY <2>3 DEF TakeLock, Launch, LaunchFails, MintRefused, MintInserts, Kill, DropRow, fileVars
  <2> QED BY <2>1, <2>2, <2>3 DEF Own
<1>3. sqld'[d] = sqld[d]
  <2> sqld \in [Db -> Key \cup {None}]
    BY DEF Shape
  <2>1. CASE Launch(r) \/ Kill(r)
    BY <2>1 DEF Launch, Kill
  <2>2. CASE ~(Launch(r) \/ Kill(r))
    BY <2>2, Zenon DEF Own, TakeLock, KeyStep, ReadKey, ReadTorn, ReadAbsent, OpenKey, WriteKey, AccessPub,
       OpenPub, WritePub, LaunchFails, MintRefused, MintInserts, RemoveKey, RemovePub, DropRow
  <2> QED BY <2>1, <2>2
<1>4. cache' = cache
  BY Zenon DEF Own, TakeLock, KeyStep, ReadKey, ReadTorn, ReadAbsent, OpenKey, WriteKey, AccessPub, OpenPub,
     WritePub, Launch, LaunchFails, MintRefused, MintInserts, Kill, RemoveKey, RemovePub, DropRow, gateVars
<1>5. \A t \in Tok : Issued(t, d)' => token'[t] = token[t]
  <2>1. ASSUME NEW u \in Tok, MintInserts(r, u)
        PROVE  \A t \in Tok : Issued(t, d)' => token'[t] = token[t]
    <3>1. token' = [token EXCEPT ![u] = Signed(h[r].db, h[r].key)]
      BY <2>1 DEF MintInserts
    <3>2. Signed(h[r].db, h[r].key).db # d
      BY DEF Signed
    <3> QED BY <3>1, <3>2 DEF Issued
  <2>2. CASE DropRow(r)
    <3>1. token' = [t \in Tok |-> IF token[t].db = h[r].db
                                  THEN [token[t] EXCEPT !.st = "dropped"] ELSE token[t]]
      BY <2>2 DEF DropRow
    <3>2. \A t \in Tok : [token[t] EXCEPT !.st = "dropped"].db = token[t].db
      BY DEF Token
    <3> QED BY <3>1, <3>2 DEF Issued
  <2>3. CASE ~(DropRow(r) \/ \E t \in Tok : MintInserts(r, t))
    <3>1. token' = token
      BY <2>3, Zenon DEF Own, TakeLock, KeyStep, ReadKey, ReadTorn, ReadAbsent, OpenKey, WriteKey, AccessPub,
         OpenPub, WritePub, Launch, LaunchFails, MintRefused, Kill, RemoveKey, RemovePub
    <3> QED BY <3>1
  <2> QED BY <2>1, <2>2, <2>3
<1>6. \A t \in Tok : Issued(t, d)' => Issued(t, d)
  BY <1>5 DEF Issued
<1>7. \A q \in Req : Busy(q, d) => Busy(q, d)'
  BY <1>1 DEF Busy
<1> QED BY <1>1, <1>2, <1>3, <1>4, <1>5, <1>6, <1>7 DEF Quiet, Busy

-----------------------------------------------------------------------------
(* What a first use does to its own files, one step of it at a time.       *)

\* A request that reads the key while nobody is at work finds all or nothing.
LEMMA ReadAgrees ==
  ASSUME Shape, KeyInv, NEW r \in Req, NEW d \in Db, h[r].db = d, ReadKey(r) \/ ReadAbsent(r)
  PROVE  FilesAgree(d)'
<1> SUFFICES ASSUME spoilt'[d] = {} PROVE (pub[d] \in Key => Paired(d)') /\ (pub[d] \notin Key => Unpaired(d)')
  BY DEF FilesAgree, ReadKey, ReadAbsent
<1> h \in [Req -> Request] /\ h[r] \in Request
  BY DEF Shape
<1>1. spoilt[d] = {} /\ \A q \in Req : ~Completing(q, d)
  <2>1. Meets(d)
    BY DEF ReadKey, ReadAbsent
  <2>2. d \in DOMAIN spoilt
    BY DEF KeyInv
  <2>3. spoilt'[d] = IF \E q \in Req : Completing(q, d) THEN spoilt[d] \cup {"race"} ELSE spoilt[d]
    BY <2>1, <2>2 DEF Meets
  <2> QED BY <2>3
<1>2. (pub[d] \in Key => Paired(d)) /\ (pub[d] \notin Key => Unpaired(d))
  BY <1>1 DEF KeyInv, FilesAgree
<1>3. pub[d] \notin Key => \A q \in Req : ~Busy(q, d)
  BY <1>1 DEF Completing, Busy, Writing
<1>4. key' = key /\ pub' = pub /\ sqld' = sqld /\ cache' = cache /\ token' = token
  BY DEF ReadKey, ReadAbsent, gateVars
<1>5. CASE ReadKey(r)
  <2> DEFINE k == key[d]
  <2>1. k \in Key /\ h' = [h EXCEPT ![r] = [h[r] EXCEPT !.pc = "access", !.key = k, !.legs = 1]]
    BY <1>5 DEF ReadKey
  <2>2. pub[d] \in Key
    BY <1>2, <1>3, <2>1, NullKeys DEF Unpaired
  <2> HIDE DEF k
  <2>3. h'[r] = [h[r] EXCEPT !.pc = "access", !.key = k, !.legs = 1] /\ \A q \in Req \ {r} : h'[q] = h[q]
    BY <2>1
  <2>4. h'[r].pc = "access" /\ h'[r].key = key[d]
    BY <2>3 DEF Request, k
  <2>5. Paired(d)
    BY <1>2, <2>2
  <2> QED BY <1>4, <2>2, <2>3, <2>4, <2>5 DEF Paired, Issued
<1>6. CASE ReadAbsent(r)
  <2> DEFINE k == FreshKey(d)
  <2>1. key[d] = None /\ h' = [h EXCEPT ![r] = [h[r] EXCEPT !.pc = "open", !.key = k, !.legs = 2]]
    BY <1>6 DEF ReadAbsent
  <2>2. pub[d] \notin Key
    BY <1>2, <2>1, NullKeys DEF Paired
  <2>3. k \in Key
    BY DEF FreshKey, Key, Shape
  <2> HIDE DEF k
  <2>4. h'[r] = [h[r] EXCEPT !.pc = "open", !.key = k, !.legs = 2] /\ \A q \in Req \ {r} : h'[q] = h[q]
    BY <2>1
  <2>5. h'[r].pc = "open" /\ h'[r].key = k /\ h'[r].db = d
    BY <2>4 DEF Request
  <2>6. Unpaired(d) /\ pub[d] = None
    BY <1>2, <1>3, <2>2 DEF Unpaired
  <2>7. \A q \in Req : Busy(q, d)' <=> q = r
    BY <1>3, <2>2, <2>4, <2>5 DEF Busy, Writing
  <2>8. Placed(r, d)'
    BY <1>4, <2>1, <2>3, <2>5, <2>6 DEF Placed
  <2>9. \A q \in Req : ~(h'[q].db = d /\ h'[q].pc = "keyed")
    BY <2>4, <2>5, <2>6 DEF Unpaired
  <2> QED BY <1>4, <2>2, <2>6, <2>7, <2>8, <2>9 DEF Unpaired, Issued
<1> QED BY <1>5, <1>6

\* One request that is at work on the files, and the files as it wrote them.
LEMMA StillUnpaired ==
  ASSUME NEW d \in Db, NEW r \in Req, Unpaired(d), Busy(r, d),
         sqld' = sqld, cache' = cache, token' = token,
         \A q \in Req \ {r} : h'[q] = h[q],
         Busy(r, d)', Placed(r, d)'
  PROVE  Unpaired(d)'
<1>1. \A q \in Req : Busy(q, d)' <=> q = r
  BY DEF Unpaired, Busy
<1>2. \A q \in Req : ~(h'[q].db = d /\ h'[q].pc = "keyed")
  BY DEF Unpaired, Busy, Writing
<1> QED BY <1>1, <1>2 DEF Unpaired, Issued

LEMMA WriteAgrees ==
  ASSUME Shape, KeyInv, NEW r \in Req, NEW d \in Db, h[r].db = d,
         OpenKey(r) \/ WriteKey(r) \/ OpenPub(r) \/ WritePub(r)
  PROVE  FilesAgree(d)'
<1> SUFFICES ASSUME spoilt'[d] = {} PROVE (pub'[d] \in Key => Paired(d)') /\ (pub'[d] \notin Key => Unpaired(d)')
  BY DEF FilesAgree
<1> h \in [Req -> Request] /\ h[r] \in Request /\ key \in [Db -> File] /\ pub \in [Db -> File]
  BY DEF Shape
<1>1. /\ sqld' = sqld /\ cache' = cache /\ token' = token /\ spoilt' = spoilt
      /\ Busy(r, d) /\ h[r].pc # "access"
  BY DEF OpenKey, WriteKey, OpenPub, WritePub, gateVars, Busy, Writing
<1>2. pub[d] \notin Key /\ Unpaired(d)
  <2>1. ~Paired(d)
    BY DEF Paired, OpenKey, WriteKey, OpenPub, WritePub
  <2> QED BY <1>1, <2>1 DEF KeyInv, FilesAgree
<1>3. Placed(r, d)
  BY <1>1, <1>2 DEF Unpaired
<1>4. CASE OpenKey(r)
  <2>1. h'[r].db = d /\ h'[r].pc = "write" /\ h'[r].key = h[r].key /\ \A q \in Req \ {r} : h'[q] = h[q]
    BY <1>4, Moving DEF OpenKey
  <2>2. key'[d] = Torn /\ pub' = pub /\ pub[d] = None
    BY <1>3, <1>4 DEF OpenKey, Placed
  <2>3. Busy(r, d)' /\ Placed(r, d)'
    BY <1>3, <2>1, <2>2 DEF Busy, Writing, Placed
  <2> QED BY <1>1, <1>2, <2>1, <2>2, <2>3, StillUnpaired
<1>5. CASE WriteKey(r)
  <2>1. key[d] = Torn /\ pub[d] = None
    BY <1>3, <1>5 DEF WriteKey, Placed
  <2>2. Goes(r, "access") /\ key'[d] = h[r].key /\ pub' = pub
    BY <1>5, <2>1, NullKeys DEF WriteKey
  <2>3. h'[r].db = d /\ h'[r].pc = "access" /\ h'[r].key = h[r].key /\ \A q \in Req \ {r} : h'[q] = h[q]
    BY <2>2, Moving
  <2>4. Busy(r, d)' /\ Placed(r, d)'
    BY <1>3, <2>1, <2>2, <2>3 DEF Busy, Writing, Placed
  <2> QED BY <1>1, <1>2, <2>2, <2>3, <2>4, StillUnpaired
<1>6. CASE OpenPub(r)
  <2>1. h'[r].db = d /\ h'[r].pc = "writePub" /\ h'[r].key = h[r].key /\ \A q \in Req \ {r} : h'[q] = h[q]
    BY <1>6, Moving DEF OpenPub
  <2>2. pub'[d] = Torn /\ key' = key /\ key[d] = h[r].key
    BY <1>3, <1>6 DEF OpenPub, Placed
  <2>3. Busy(r, d)' /\ Placed(r, d)'
    BY <1>3, <2>1, <2>2 DEF Busy, Writing, Placed
  <2> QED BY <1>1, <1>2, <2>1, <2>2, <2>3, StillUnpaired, NullKeys
<1>7. CASE WritePub(r)
  <2>1. pub[d] = Torn /\ key[d] = h[r].key /\ h[r].key \in Key
    BY <1>3, <1>7 DEF WritePub, Placed
  <2>2. LegDone(r) /\ pub'[d] = h[r].key /\ key' = key
    BY <1>7, <2>1, NullKeys DEF WritePub
  <2>3. /\ h'[r].db = d /\ h'[r].pc \in {"keyed", "access"} /\ h'[r].key = h[r].key
        /\ \A q \in Req \ {r} : h'[q] = h[q]
    BY <2>2, Moving
  <2>4. \A q \in Req \ {r} : h[q].db = d => h[q].pc \notin Writing \cup {"keyed"}
    BY <1>1, <1>2 DEF Unpaired, Busy
  <2>5. \A q \in Req : /\ h'[q].db = d => h'[q].pc \notin {"open", "write", "openPub", "writePub"}
                       /\ h'[q].db = d /\ h'[q].pc \in {"access", "keyed"} => h'[q].key = pub'[d]
    BY <2>2, <2>3, <2>4 DEF Writing
  <2>6. sqld'[d] = None /\ cache'[d] = None /\ \A t \in Tok : ~Issued(t, d)'
    BY <1>1, <1>2 DEF Unpaired, Issued
  <2> QED BY <2>1, <2>2, <2>5, <2>6 DEF Paired
<1> QED BY <1>4, <1>5, <1>6, <1>7

LEMMA AccessAgrees ==
  ASSUME Shape, KeyInv, NEW r \in Req, NEW d \in Db, h[r].db = d, AccessPub(r)
  PROVE  FilesAgree(d)'
<1> SUFFICES ASSUME spoilt'[d] = {} PROVE (pub'[d] \in Key => Paired(d)') /\ (pub'[d] \notin Key => Unpaired(d)')
  BY DEF FilesAgree
<1> h \in [Req -> Request] /\ h[r] \in Request
  BY DEF Shape
<1>1. /\ sqld' = sqld /\ cache' = cache /\ token' = token /\ spoilt' = spoilt
      /\ key' = key /\ pub' = pub /\ Busy(r, d) /\ h[r].pc = "access"
  BY DEF AccessPub, gateVars, fileVars, Busy, Writing
<1>2. (pub[d] \in Key => Paired(d)) /\ (pub[d] \notin Key => Unpaired(d))
  BY <1>1 DEF KeyInv, FilesAgree
<1>3. CASE pub[d] \in Key
  <2>1. LegDone(r)
    BY <1>3, NullKeys DEF AccessPub
  <2>2. /\ h'[r].db = d /\ h'[r].pc \in {"keyed", "access"} /\ h'[r].key = h[r].key
        /\ \A q \in Req \ {r} : h'[q] = h[q]
    BY <2>1, Moving
  <2>3. Paired(d)
    BY <1>2, <1>3
  <2>4. h[r].key = pub[d]
    BY <1>1, <2>3 DEF Paired
  <2> QED BY <1>1, <1>3, <2>2, <2>3, <2>4 DEF Paired, Issued
<1>4. CASE pub[d] \notin Key
  <2>1. Unpaired(d) /\ Placed(r, d)
    BY <1>1, <1>2, <1>4 DEF Unpaired
  <2>2. pub[d] = None
    BY <1>1, <2>1 DEF Placed
  <2>3. h'[r].db = d /\ h'[r].pc = "openPub" /\ h'[r].key = h[r].key /\ \A q \in Req \ {r} : h'[q] = h[q]
    BY <2>2, Moving DEF AccessPub
  <2>4. Busy(r, d)' /\ Placed(r, d)'
    BY <1>1, <2>1, <2>2, <2>3 DEF Busy, Writing, Placed
  <2> QED BY <1>1, <1>4, <2>1, <2>3, <2>4, StillUnpaired
<1> QED BY <1>3, <1>4

\* A request that holds the key uses it; one that works on no file ends.
LEMMA HolderAgrees ==
  ASSUME Shape, KeyInv, NEW r \in Req, NEW d \in Db, h[r].db = d,
         TakeLock(r) \/ ReadTorn(r) \/ Launch(r) \/ LaunchFails(r) \/ MintRefused(r)
         \/ (\E t \in Tok : MintInserts(r, t))
  PROVE  FilesAgree(d)'
<1> h \in [Req -> Request] /\ h[r] \in Request
  BY DEF Shape
<1>0. FilesAgree(d)
  BY DEF KeyInv
<1>1. key' = key /\ pub' = pub /\ spoilt' = spoilt /\ cache' = cache
  BY DEF TakeLock, ReadTorn, Launch, LaunchFails, MintRefused, MintInserts, fileVars, gateVars
<1>2. /\ ~Busy(r, d) /\ \A q \in Req \ {r} : h'[q] = h[q]
      /\ h'[r] = Idle \/ h'[r].pc = "read"
  <2>1. CASE TakeLock(r)
    BY <2>1, Moving DEF TakeLock, Busy, Writing
  <2>2. CASE ReadTorn(r) \/ Launch(r) \/ LaunchFails(r) \/ MintRefused(r) \/ (\E t \in Tok : MintInserts(r, t))
    BY <2>2, Moving DEF ReadTorn, Launch, LaunchFails, MintRefused, MintInserts, Busy, Writing
  <2> QED BY <2>1, <2>2
<1>3. /\ \A q \in Req : Busy(q, d)' \/ (h'[q].db = d /\ h'[q].pc = "keyed") => h'[q] = h[q]
      /\ \A q \in Req : Busy(q, d) => h'[q] = h[q]
  BY <1>2 DEF Busy, Writing, Idle
<1>4. CASE sqld' = sqld /\ token' = token
  <2>1. Quiet(d)
    BY <1>1, <1>3, <1>4 DEF Quiet, Busy, Issued
  <2> QED BY <1>0, <2>1, QuietAgrees
<1>5. ASSUME h[r].pc = "keyed", spoilt[d] = {} PROVE pub[d] \in Key /\ Paired(d) /\ h[r].key = pub[d]
  BY <1>0, <1>5 DEF FilesAgree, Unpaired, Paired
<1>6. CASE Launch(r)
  <2> SUFFICES ASSUME spoilt[d] = {} PROVE pub'[d] \in Key /\ Paired(d)'
    BY <1>1 DEF FilesAgree
  <2>1. pub[d] \in Key /\ Paired(d)
    BY <1>5, <1>6 DEF Launch
  <2>2. sqld'[d] = pub[d] /\ token' = token
    BY <1>6 DEF Launch, Shape
  <2>3. \A q \in Req : h'[q] = h[q] \/ h'[q] = Idle
    BY <1>6, Moving DEF Launch
  <2> QED BY <1>1, <2>1, <2>2, <2>3 DEF Paired, Issued, Idle
<1>7. ASSUME NEW t \in Tok, MintInserts(r, t)
      PROVE  FilesAgree(d)'
  <2> SUFFICES ASSUME spoilt[d] = {} PROVE pub'[d] \in Key /\ Paired(d)'
    BY <1>1 DEF FilesAgree
  <2>1. pub[d] \in Key /\ Paired(d) /\ h[r].key = pub[d]
    BY <1>5, <1>7 DEF MintInserts
  <2>2. sqld' = sqld /\ token' = [token EXCEPT ![t] = Signed(d, h[r].key)]
    BY <1>7 DEF MintInserts
  <2>3. \A u \in Tok : token'[u] = token[u] \/ token'[u].key = pub[d]
    BY <2>1, <2>2 DEF Signed, Shape
  <2>4. \A u \in Tok : Issued(u, d)' => token'[u].key = pub[d]
    BY <2>1, <2>3 DEF Paired, Issued
  <2>5. \A q \in Req : h'[q] = h[q] \/ h'[q] = Idle
    BY <1>7, Moving DEF MintInserts
  <2> QED BY <1>1, <2>1, <2>2, <2>4, <2>5 DEF Paired, Idle
<1>8. TakeLock(r) \/ ReadTorn(r) \/ LaunchFails(r) \/ MintRefused(r) => sqld' = sqld /\ token' = token
  BY DEF TakeLock, ReadTorn, LaunchFails, MintRefused
<1> QED BY <1>4, <1>6, <1>7, <1>8

\* A handler of DELETE that removes files has marked its database.
LEMMA DeleteAgrees ==
  ASSUME Shape, KeyInv, NEW r \in Req, NEW d \in Db, h[r].db = d,
         Kill(r) \/ RemoveKey(r) \/ RemovePub(r) \/ DropRow(r)
  PROVE  FilesAgree(d)'
<1>1. h[r].pc \in Deleting /\ spoilt' = spoilt
  BY DEF Kill, RemoveKey, RemovePub, DropRow, Deleting, fileVars
<1>2. spoilt'[d] # {}
  BY <1>1 DEF KeyInv
<1> QED BY <1>2 DEF FilesAgree

LEMMA OwnAgrees ==
  ASSUME Shape, KeyInv, NEW r \in Req, NEW d \in Db, Own(r)
  PROVE  FilesAgree(d)'
<1>1. CASE h[r].db = d
  BY <1>1, ReadAgrees, WriteAgrees, AccessAgrees, HolderAgrees, DeleteAgrees DEF Own, KeyStep
<1>2. CASE h[r].db # d
  BY <1>2, OwnElsewhere, QuietAgrees DEF KeyInv
<1> QED BY <1>1, <1>2

-----------------------------------------------------------------------------
(* The other steps.                                                        *)
LEMMA RequestAgrees ==
  ASSUME Shape, KeyInv, NEW r \in Req, NEW d \in Db,
         \/ \E e \in Db : \/ RequestCreate(r, e) \/ RequestStart(r, e) \/ RequestMint(r, e)
                          \/ RequestDelete(r, e)
         \/ alloc.by = r /\ h[r].pc = "queued"
            /\ (AllocExhausted(r) \/ AllocEnds(r) \/ CreateConflicts(r))
  PROVE  FilesAgree(d)'
<1> h \in [Req -> Request] /\ h[r] \in Request
  BY DEF Shape
<1>1. key' = key /\ pub' = pub /\ sqld' = sqld /\ cache' = cache /\ token' = token
  BY DEF RequestCreate, RequestStart, RequestMint, RequestDelete, AllocExhausted, AllocEnds,
     CreateConflicts, fileVars, gateVars
<1>2. spoilt[d] \subseteq spoilt'[d]
  BY DEF RequestCreate, RequestStart, RequestMint, RequestDelete, AllocExhausted, AllocEnds,
     CreateConflicts, fileVars, KeyInv
<1>3. /\ \A q \in Req \ {r} : h'[q] = h[q]
      /\ h[r].pc \in {"idle", "queued"} /\ h'[r].pc \in {"idle", "queued", "lock", "read", "kill"}
  <2>1. CASE \E e \in Db : \/ RequestCreate(r, e) \/ RequestStart(r, e) \/ RequestMint(r, e)
                           \/ RequestDelete(r, e)
    <3>1. PICK e \in Db : \/ RequestCreate(r, e) \/ RequestStart(r, e) \/ RequestMint(r, e)
                          \/ RequestDelete(r, e)
      BY <2>1
    <3>2. h[r].pc = "idle"
      <4>1. h[r] = Idle
        BY <3>1 DEF RequestCreate, RequestStart, RequestMint, RequestDelete
      <4> QED BY <4>1 DEF Idle
    <3>3. CASE RequestCreate(r, e)
      BY <3>2, <3>3 DEF RequestCreate, Idle
    <3>4. CASE RequestStart(r, e)
      BY <3>2, <3>4 DEF RequestStart, Idle
    <3>5. CASE RequestMint(r, e)
      BY <3>2, <3>5 DEF RequestMint, Idle
    <3>6. CASE RequestDelete(r, e)
      BY <3>2, <3>6 DEF RequestDelete, Idle
    <3> QED BY <3>1, <3>3, <3>4, <3>5, <3>6
  <2>2. CASE h[r].pc = "queued" /\ (AllocExhausted(r) \/ AllocEnds(r) \/ CreateConflicts(r))
    BY <2>2, Moving DEF AllocExhausted, AllocEnds, CreateConflicts, Idle
  <2> QED BY <2>1, <2>2
<1>4. \A q \in Req : Busy(q, d) \/ Busy(q, d)' \/ h'[q].pc = "keyed" => h'[q] = h[q]
  BY <1>3 DEF Busy, Writing
<1>5. Quiet(d)
  BY <1>1, <1>2, <1>4 DEF Quiet, Busy, Issued
<1> QED BY <1>5, QuietAgrees DEF KeyInv

LEMMA RestAgrees ==
  ASSUME Shape, KeyInv, NEW d \in Db,
         \/ AllocProbes \/ (\E r \in Req : AllocBegins(r))
         \/ (\E e \in Db : Stop(e) \/ SqldExits(e)) \/ (\E t \in Tok : TokenDies(t))
         \/ \E f \in Fwd : (\E e \in Db, t \in Tok : Arrive(f, e, t)) \/ Send(f) \/ Answer(f)
  PROVE  FilesAgree(d)'
<1>1. key' = key /\ pub' = pub /\ spoilt' = spoilt /\ cache' = cache /\ h' = h
  BY DEF AllocProbes, AllocBegins, Stop, SqldExits, TokenDies, Arrive, Send, Answer, fileVars, gateVars
<1>2. sqld'[d] \in {None, sqld[d]}
  BY DEF AllocProbes, AllocBegins, Stop, SqldExits, TokenDies, Arrive, Send, Answer, Shape
<1>3. \A t \in Tok : Issued(t, d)' => Issued(t, d) /\ token'[t].key = token[t].key
  <2> token \in [Tok -> Token]
    BY DEF Shape
  <2>1. ASSUME NEW u \in Tok, TokenDies(u)
        PROVE  \A t \in Tok : Issued(t, d)' => Issued(t, d) /\ token'[t].key = token[t].key
    <3>1. token[u].st = "live" /\ token' = [token EXCEPT ![u] = [token[u] EXCEPT !.st = "dead"]]
      BY <2>1 DEF TokenDies, Dead
    <3>2. [token[u] EXCEPT !.st = "dead"].db = token[u].db
          /\ [token[u] EXCEPT !.st = "dead"].key = token[u].key
      BY DEF Token
    <3> QED BY <3>1, <3>2 DEF Issued
  <2>2. CASE ~\E t \in Tok : TokenDies(t)
    <3>1. token' = token
      BY <2>2 DEF AllocProbes, AllocBegins, Stop, SqldExits, Arrive, Send, Answer
    <3> QED BY <3>1 DEF Issued
  <2> QED BY <2>1, <2>2
<1>4. Quiet(d)
  BY <1>1, <1>2, <1>3 DEF Quiet, Busy
<1> QED BY <1>4, QuietAgrees DEF KeyInv

\* The gateway caches a key only for a request with a token of the database.
LEMMA VerifyAgrees ==
  ASSUME Shape, TokenInv, KeyInv, NEW d \in Db, NEW f \in Fwd, Verify(f)
  PROVE  FilesAgree(d)'
<1>1. /\ key' = key /\ pub' = pub /\ spoilt' = spoilt /\ sqld' = sqld /\ token' = token /\ h' = h
      /\ cache \in [Db -> File] /\ FilesAgree(d)
  BY DEF Verify, fileVars, KeyInv, Shape
<1>2. CASE g[f].db # d
  <2>1. cache'[d] = cache[d]
    BY <1>1, <1>2 DEF Verify
  <2>2. Quiet(d)
    BY <1>1, <2>1 DEF Quiet, Busy, Issued
  <2> QED BY <1>1, <2>2, QuietAgrees
<1>3. CASE g[f].db = d
  <2> SUFFICES ASSUME spoilt[d] = {} PROVE pub[d] \in Key /\ Paired(d)'
    BY <1>1 DEF FilesAgree
  <2>1. Issued(g[f].tok, d) /\ g[f].tok \in Tok
    BY <1>3 DEF TokenInv, Verify, Issued
  <2>2. pub[d] \in Key /\ Paired(d)
    BY <1>1, <2>1 DEF FilesAgree, Unpaired
  <2>3. cache'[d] = IF cache[d] # None THEN cache[d] ELSE pub[d]
    BY <1>1, <1>3 DEF Verify
  <2>4. cache'[d] \in {None, pub[d]}
    BY <2>2, <2>3 DEF Paired
  <2> QED BY <1>1, <2>2, <2>4 DEF Paired, Issued
<1> QED BY <1>2, <1>3

\* A crash that cuts no first use short leaves both files or none.
LEMMA CrashAgrees ==
  ASSUME Shape, KeyInv, NEW d \in Db, Crash
  PROVE  FilesAgree(d)'
<1> SUFFICES ASSUME spoilt'[d] = {} PROVE (pub[d] \in Key => Paired(d)') /\ (pub[d] \notin Key => Unpaired(d)')
  BY DEF FilesAgree, Crash
<1>1. spoilt[d] = {} /\ ~Cut(d)
  BY DEF Crash
<1>2. (pub[d] \in Key => Paired(d)) /\ (pub[d] \notin Key => Unpaired(d))
  BY <1>1 DEF KeyInv, FilesAgree
<1>3. /\ key' = key /\ pub' = pub /\ token' = token /\ cache'[d] = None /\ sqld'[d] \in {None, sqld[d]}
      /\ \A r \in Req : h'[r] = Idle
  BY DEF Crash
<1>4. \A r \in Req : ~Busy(r, d)' /\ ~(h'[r].db = d)
  BY <1>3, NullKeys DEF Idle, Busy
<1>5. pub[d] \in Key => Paired(d)'
  BY <1>2, <1>3, <1>4 DEF Paired, Issued
<1>6. pub[d] \notin Key => Unpaired(d)'
  <2> SUFFICES ASSUME pub[d] \notin Key PROVE Unpaired(d)'
    OBVIOUS
  <2>1. Unpaired(d)
    BY <1>2
  <2>2. \A r \in Req : Busy(r, d) => h[r].pc = "open" /\ Placed(r, d)
    BY <1>1, <2>1 DEF Cut, Busy, Writing, Unpaired
  <2>3. key[d] = None /\ pub[d] = None
    BY <2>1, <2>2 DEF Unpaired, Placed
  <2> QED BY <1>3, <1>4, <2>1, <2>3 DEF Unpaired, Issued
<1> QED BY <1>5, <1>6

LEMMA FilesNext ==
  ASSUME Shape, AllocInv, TokenInv, KeyInv, Next, NEW d \in Db
  PROVE  FilesAgree(d)'
<1>1. ASSUME NEW r \in Req, AllocExhausted(r) \/ AllocEnds(r) \/ CreateConflicts(r)
      PROVE  FilesAgree(d)'
  <2>1. alloc.by = r /\ h[r].pc = "queued"
    BY <1>1, NullKeys DEF AllocExhausted, AllocEnds, CreateConflicts, AllocInv
  <2> QED BY <1>1, <2>1, RequestAgrees
<1>2. ASSUME NEW r \in Req, NEW e \in Db,
             RequestCreate(r, e) \/ RequestStart(r, e) \/ RequestMint(r, e) \/ RequestDelete(r, e)
      PROVE  FilesAgree(d)'
  BY <1>2, RequestAgrees
<1>3. ASSUME NEW r \in Req, Own(r)
      PROVE  FilesAgree(d)'
  BY <1>3, OwnAgrees
<1> QED BY <1>1, <1>2, <1>3, RestAgrees, VerifyAgrees, CrashAgrees DEF Next, Own

LEMMA SpoiltNext ==
  ASSUME Shape, KeyInv, Next
  PROVE  /\ spoilt' \in [Db -> SUBSET {"race", "cut", "delete"}]
         /\ \A d \in Db : spoilt[d] \subseteq spoilt'[d]
<1> DEFINE Grows == /\ spoilt' \in [Db -> SUBSET {"race", "cut", "delete"}]
                    /\ \A d \in Db : spoilt[d] \subseteq spoilt'[d]
<1> spoilt \in [Db -> SUBSET {"race", "cut", "delete"}]
  BY DEF KeyInv
<1>1. ASSUME NEW r \in Req, ReadKey(r) \/ ReadAbsent(r) PROVE Grows
  BY <1>1 DEF ReadKey, ReadAbsent, Meets
<1>2. ASSUME NEW r \in Req, NEW d \in Db, RequestDelete(r, d) PROVE Grows
  BY <1>2 DEF RequestDelete
<1>3. ASSUME Crash PROVE Grows
  BY <1>3 DEF Crash
<1>4. ASSUME NEW r \in Req,
             \/ \E d \in Db : RequestCreate(r, d) \/ RequestStart(r, d) \/ RequestMint(r, d)
             \/ AllocBegins(r) \/ AllocExhausted(r) \/ AllocEnds(r) \/ CreateConflicts(r)
             \/ TakeLock(r) \/ (KeyStep(r) /\ ~(ReadKey(r) \/ ReadAbsent(r)))
             \/ Launch(r) \/ LaunchFails(r) \/ MintRefused(r) \/ (\E t \in Tok : MintInserts(r, t))
             \/ Kill(r) \/ RemoveKey(r) \/ RemovePub(r) \/ DropRow(r)
      PROVE  spoilt' = spoilt
  BY <1>4, Zenon DEF RequestCreate, RequestStart, RequestMint, AllocBegins, AllocExhausted, AllocEnds,
     CreateConflicts, TakeLock, KeyStep, ReadTorn, OpenKey, WriteKey, AccessPub, OpenPub, WritePub,
     Launch, LaunchFails, MintRefused, MintInserts, Kill, RemoveKey, RemovePub, DropRow, fileVars
<1>5. AllocProbes \/ (\E t \in Tok : TokenDies(t)) \/ (\E d \in Db : Stop(d) \/ SqldExits(d))
      \/ (\E f \in Fwd : (\E d \in Db, t \in Tok : Arrive(f, d, t)) \/ Verify(f) \/ Send(f) \/ Answer(f))
      => spoilt' = spoilt
  BY DEF AllocProbes, TokenDies, Stop, SqldExits, Arrive, Verify, Send, Answer, fileVars
<1>6. spoilt' = spoilt => Grows
  OBVIOUS
<1> HIDE DEF Grows
<1>7. ASSUME NEW r \in Req, KeyStep(r) PROVE Grows
  BY <1>1, <1>4, <1>6, <1>7
<1>8. ASSUME NEW r \in Req,
             \/ \E d \in Db : \/ RequestCreate(r, d) \/ RequestStart(r, d) \/ RequestMint(r, d)
                              \/ RequestDelete(r, d)
             \/ AllocBegins(r) \/ AllocExhausted(r) \/ AllocEnds(r) \/ CreateConflicts(r)
             \/ TakeLock(r) \/ KeyStep(r) \/ Launch(r) \/ LaunchFails(r)
             \/ MintRefused(r) \/ (\E t \in Tok : MintInserts(r, t))
             \/ Kill(r) \/ RemoveKey(r) \/ RemovePub(r) \/ DropRow(r)
      PROVE  Grows
  BY <1>2, <1>4, <1>6, <1>7, <1>8
<1>9. Grows
  BY <1>3, <1>5, <1>6, <1>8 DEF Next
<1> QED BY <1>9 DEF Grows

LEMMA DeletingNext ==
  ASSUME Shape, QueueInv, AllocInv, KeyInv, Next, NEW r \in Req, h'[r].pc \in Deleting
  PROVE  "delete" \in spoilt'[h'[r].db]
<1> h \in [Req -> Request] /\ spoilt \in [Db -> SUBSET {"race", "cut", "delete"}]
  BY DEF Shape, KeyInv
<1>0. Idle.pc = "idle"
  BY DEF Idle
<1>1. ASSUME h[r].pc \in Deleting, h'[r].db = h[r].db
      PROVE  "delete" \in spoilt'[h'[r].db]
  <2>1. "delete" \in spoilt[h[r].db]
    BY <1>1 DEF KeyInv
  <2>2. h[r].db \in Db
    BY <1>1 DEF QueueInv, Deleting
  <2> QED BY <1>1, <2>1, <2>2, SpoiltNext
<1>2. ASSUME NEW q \in Req, NEW d \in Db, RequestDelete(q, d)
      PROVE  "delete" \in spoilt'[h'[r].db]
  <2>1. CASE q = r
    <3>1. h'[r].db = d
      BY <1>2, <2>1 DEF RequestDelete, Idle
    <3> QED BY <1>2, <3>1 DEF RequestDelete
  <2>2. CASE q # r
    BY <1>1, <1>2, <2>2 DEF RequestDelete
  <2> QED BY <2>1, <2>2
<1>3. ASSUME NEW q \in Req, NEW d \in Db, RequestCreate(q, d) \/ RequestStart(q, d) \/ RequestMint(q, d)
      PROVE  h'[r] = h[r]
  <2>1. h'[q].pc \notin Deleting /\ \A p \in Req \ {q} : h'[p] = h[p]
    BY <1>3 DEF RequestCreate, RequestStart, RequestMint, Idle, Deleting
  <2> QED BY <2>1
<1>4. ASSUME NEW q \in Req, AllocExhausted(q) \/ AllocEnds(q) \/ CreateConflicts(q)
      PROVE  h'[r] = h[r]
  <2>1. h'[q].pc \notin Deleting /\ \A p \in Req \ {q} : h'[p] = h[p]
    BY <1>0, <1>4, Moving DEF AllocExhausted, AllocEnds, CreateConflicts, Deleting
  <2> QED BY <2>1
<1>5. ASSUME NEW q \in Req, Own(q)
      PROVE  h[r].pc \in Deleting /\ h'[r].db = h[r].db
  <2>1. Continues(q)
    BY <1>5, RequestContinues DEF Own
  <2>2. CASE q # r
    BY <2>1, <2>2 DEF Continues
  <2>3. CASE q = r
    <3>1. h'[r].db = h[r].db
      BY <1>0, <2>1, <2>3 DEF Continues, Deleting
    <3>2. h[r].pc \in Deleting
      <4>1. CASE Kill(r) \/ RemoveKey(r) \/ RemovePub(r) \/ DropRow(r)
        BY <4>1 DEF Kill, RemoveKey, RemovePub, DropRow, Deleting
      <4>2. CASE ReadKey(r)
        <5>1. h'[r].pc = "access"
          BY <4>2 DEF ReadKey, Request
        <5> QED BY <5>1 DEF Deleting
      <4>3. CASE ReadAbsent(r)
        <5>1. h'[r].pc = "open"
          BY <4>3 DEF ReadAbsent, Request
        <5> QED BY <5>1 DEF Deleting
      <4>4. CASE TakeLock(r) \/ ReadTorn(r) \/ OpenKey(r) \/ WriteKey(r)
        BY <1>0, <4>4, Moving DEF TakeLock, ReadTorn, OpenKey, WriteKey, Deleting
      <4>5. CASE AccessPub(r) \/ OpenPub(r) \/ WritePub(r)
        BY <1>0, <4>5, Moving DEF AccessPub, OpenPub, WritePub, Deleting
      <4>6. CASE Launch(r) \/ LaunchFails(r) \/ MintRefused(r) \/ (\E t \in Tok : MintInserts(r, t))
        BY <1>0, <4>6, Moving DEF Launch, LaunchFails, MintRefused, MintInserts, Deleting
      <4> QED BY <1>5, <2>3, <4>1, <4>2, <4>3, <4>4, <4>5, <4>6 DEF Own, KeyStep
    <3> QED BY <3>1, <3>2
  <2> QED BY <2>2, <2>3
<1>6. ~Crash
  BY <1>0 DEF Crash, Deleting
<1>7. AllocProbes \/ (\E d \in Db : Stop(d) \/ SqldExits(d)) \/ (\E t \in Tok : TokenDies(t))
      \/ (\E f \in Fwd : (\E d \in Db, t \in Tok : Arrive(f, d, t)) \/ Verify(f) \/ Send(f) \/ Answer(f))
      \/ (\E q \in Req : AllocBegins(q))
      => h' = h
  BY Zenon DEF AllocProbes, Stop, SqldExits, TokenDies, Arrive, Verify, Send, Answer, AllocBegins
<1>8. CASE h'[r] = h[r]
  BY <1>1, <1>8
<1> QED BY <1>1, <1>2, <1>3, <1>4, <1>5, <1>6, <1>7, <1>8 DEF Next, Own

LEMMA IssuedNext ==
  ASSUME Shape, QueueInv, KeyInv, Next, NEW t \in Tok, token'[t].st # "unissued"
  PROVE  token'[t].db \in Db
<1> token \in [Tok -> Token]
  BY DEF Shape
<1>1. ASSUME NEW r \in Req, NEW u \in Tok, MintInserts(r, u)
      PROVE  token'[t].db \in Db
  <2>1. h[r].db \in Db
    BY <1>1 DEF MintInserts, QueueInv
  <2>2. token'[t] = token[t] \/ token'[t] = Signed(h[r].db, h[r].key)
    BY <1>1 DEF MintInserts
  <2> QED BY <2>1, <2>2 DEF Signed, KeyInv
<1>2. ASSUME NEW st, token[t].st # "unissued", token'[t] = [token[t] EXCEPT !.st = st]
      PROVE  token'[t].db \in Db
  <2>1. token'[t].db = token[t].db
    BY <1>2 DEF Token
  <2> QED BY <1>2, <2>1 DEF KeyInv
<1>3. token'[t] = token[t] => token'[t].db \in Db
  BY DEF KeyInv
<1>4. ASSUME NEW r \in Req, DropRow(r)
      PROVE  token'[t].db \in Db
  <2>1. token'[t] = IF token[t].db = h[r].db THEN [token[t] EXCEPT !.st = "dropped"] ELSE token[t]
    BY <1>4 DEF DropRow
  <2>2. CASE token[t].db = h[r].db
    <3>1. h[r].db \in Db
      BY <1>4 DEF DropRow, QueueInv
    <3>2. token'[t].db = token[t].db
      BY <2>1, <2>2 DEF Token
    <3> QED BY <2>2, <3>1, <3>2
  <2>3. CASE token[t].db # h[r].db
    BY <1>3, <2>1, <2>3
  <2> QED BY <2>2, <2>3
<1>5. ASSUME NEW u \in Tok, TokenDies(u)
      PROVE  token'[t].db \in Db
  BY <1>2, <1>3, <1>5 DEF TokenDies, Dead
<1> QED BY <1>1, <1>3, <1>4, <1>5, TokensUntouched

LEMMA KeyNext == ASSUME IInv, KeyInv, [Next]_vars PROVE KeyInv'
<1>1. CASE Next
  BY <1>1, FilesNext, SpoiltNext, DeletingNext, IssuedNext DEF IInv, PortInv, KeyInv
<1>2. CASE UNCHANGED vars
  <2>1. \A d \in Db : FilesAgree(d)'
    BY <1>2 DEF KeyInv, FilesAgree, Paired, Unpaired, Placed, Busy, Issued, vars, fileVars, gateVars
  <2> QED BY <1>2, <2>1 DEF KeyInv, vars, fileVars
<1> QED BY <1>1, <1>2

\* What the files, the servers, the cache and the requests hold of a key pair
\* that nothing has befallen (tokens.ts: ensureDbKey; verify.ts: keyFor).
THEOREM KeysInvariant == Spec => []KeyInv
BY InitKeyInv, KeyNext, AccessInvariant, PTL DEF Spec

\* A live token verifies with the file, with the cached key and with the sqld of
\* its database, unless first uses met, a crash cut one or DELETE has begun
\* (tokens.ts: ensureDbKey; verify.ts: keyFor).
THEOREM TokensAlwaysVerify == Spec => []TokensVerify
<1>1. IInv /\ KeyInv => TokensVerify
  <2> SUFFICES ASSUME IInv, KeyInv, NEW t \in Tok, token[t].st = "live", spoilt[token[t].db] = {}
               PROVE  Verifies(t)
    BY DEF TokensVerify
  <2>1. token[t].db \in Db
    BY DEF KeyInv
  <2>2. Issued(t, token[t].db)
    BY DEF Issued
  <2>3. pub[token[t].db] \in Key /\ Paired(token[t].db)
    BY <2>1, <2>2 DEF KeyInv, FilesAgree, Unpaired
  <2> QED BY <2>2, <2>3 DEF Verifies, Paired
<1> QED BY <1>1, KeysInvariant, AccessInvariant, PTL
=============================================================================
