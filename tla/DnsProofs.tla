----------------------------- MODULE DnsProofs -----------------------------
(***************************************************************************)
(* Proofs about Dns, for any number of databases, calls, failures and      *)
(* restarts.                                                               *)
(***************************************************************************)
EXTENDS Dns, SequenceTheorems, TLAPS

\* The head of a chain is one of its operations, and its rest is a chain.
LEMMA HeadType ==
  ASSUME TypeOK, NEW d \in Db, queue[d] # <<>>
  PROVE  /\ Head(queue[d]) \in Op
         /\ Tail(queue[d]) \in Seq(Op)
         /\ Head(queue[d]).op \in {"sync", "remove"}
         /\ Head(queue[d]).by \in Call \cup {"create", "boot"}
         /\ Head(queue[d]).op = "remove" => Head(queue[d]).by \in Call
<1>1. queue[d] \in Seq(Op)
  BY DEF TypeOK
<1>2. Head(queue[d]) \in Op /\ Tail(queue[d]) \in Seq(Op)
  BY <1>1, HeadTailProperties
<1> QED BY <1>2 DEF Op

\* Enqueue: a chain stays one (withLock).
LEMMA EnqueueType ==
  ASSUME TypeOK, NEW d \in Db, NEW op \in {"sync", "remove"},
         NEW by \in Call \cup {"create", "boot"}, Enqueue(d, op, by),
         op = "remove" => by \in Call
  PROVE  queue' \in [Db -> Seq(Op)]
<1>1. [op |-> op, by |-> by] \in Op
  BY DEF Op
<1>2. Append(queue[d], [op |-> op, by |-> by]) \in Seq(Op)
  BY <1>1, AppendProperties DEF TypeOK
<1> QED BY <1>2 DEF TypeOK, Enqueue

\* Pops: the next operation starts with nothing in hand (withLock).
LEMMA PopsType ==
  ASSUME TypeOK, NEW d \in Db, queue[d] # <<>>, Pops(d)
  PROVE  /\ queue' \in [Db -> Seq(Op)]
         /\ at' \in [Db -> {"idle", "find", "post", "patch", "lookup", "get", "delete"}]
         /\ seen' \in [Db -> Nat \cup {None}]
         /\ retried' \in [Db -> BOOLEAN]
         /\ overtaken' \in [Db -> BOOLEAN]
<1>1. queue' \in [Db -> Seq(Op)]
  BY HeadType DEF TypeOK, Pops
<1> QED BY <1>1 DEF TypeOK, Pops

RowType ==
  /\ status \in [Db -> {"absent", "starting", "live", "deleting", "deleted"}]
  /\ recordId \in [Db -> Nat \cup {None}]
  /\ dnsStatus \in [Db -> {"none", "active", "conflict", "error"}]

ZoneType ==
  /\ zone \in [Db -> Record \cup {None}]
  /\ nextId \in Nat
  /\ late \in [Db -> BOOLEAN]

OpType ==
  /\ queue \in [Db -> Seq(Op)]
  /\ at \in [Db -> {"idle", "find", "post", "patch", "lookup", "get", "delete"}]
  /\ seen \in [Db -> Nat \cup {None}]
  /\ retried \in [Db -> BOOLEAN]
  /\ overtaken \in [Db -> BOOLEAN]

CallType ==
  /\ create \in [Db -> {"none", "starting", "syncing", "done"}]
  /\ call \in [Call -> Request]
  /\ boot \in SUBSET Db

\* The type invariant by groups of variables, which the steps change together.
LEMMA TypeParts ==
  TypeOK <=> RowType /\ ZoneType /\ OpType /\ CallType /\ used \in [DOMAIN Limit -> Nat]
BY DEF TypeOK, RowType, ZoneType, OpType, CallType

LEMMA TypePartsPrime ==
  TypeOK' <=> /\ RowType' /\ ZoneType' /\ OpType' /\ CallType'
              /\ (used \in [DOMAIN Limit -> Nat])'
BY DEF TypeOK, RowType, ZoneType, OpType, CallType

\* A counted event keeps the counters numbers.
LEMMA HappensType ==
  ASSUME TypeOK, NEW e \in DOMAIN Limit, Happens(e)
  PROVE  used' \in [DOMAIN Limit -> Nat]
BY DEF TypeOK, Happens

\* The end of a sync is well typed, whoever waited for it (SyncEnds).
LEMMA SyncEndsType ==
  ASSUME TypeOK, NEW d \in Db, queue[d] # <<>>, SyncEnds(d)
  PROVE  /\ OpType' /\ CallType'
         /\ UNCHANGED status
<1>1. Pops(d)
  BY DEF SyncEnds
<1>2. create' \in [Db -> {"none", "starting", "syncing", "done"}] /\ boot' \in SUBSET Db
  BY DEF SyncEnds, TypeOK
<1>3. call' \in [Call -> Request]
  <2> DEFINE by == Head(queue[d]).by
  <2>1. CASE by \in Call
    <3>1. call' = [call EXCEPT ![by].at = "done"]
      BY <2>1 DEF SyncEnds
    <3>2. call[by] \in Request
      BY <2>1 DEF TypeOK
    <3>3. [call[by] EXCEPT !.at = "done"] \in Request
      BY <3>2 DEF Request
    <3> QED BY <2>1, <3>1, <3>3 DEF TypeOK
  <2>2. CASE by \notin Call
    BY <2>2 DEF SyncEnds, TypeOK
  <2> QED BY <2>1, <2>2
<1> QED BY <1>1, <1>2, <1>3, PopsType DEF OpType, CallType, SyncEnds

\* A request of DELETE's that is over is well typed.
LEMMA CallDoneType ==
  ASSUME TypeOK, NEW k \in Call, NEW failed \in BOOLEAN,
         call' = [call EXCEPT ![k].at = "done", ![k].failed = failed]
  PROVE  call' \in [Call -> Request]
<1>1. call[k] \in Request
  BY DEF TypeOK
<1>2. [call[k] EXCEPT !.at = "done", !.failed = failed] \in Request
  BY <1>1 DEF Request
<1> QED BY <1>2 DEF TypeOK

\* The end of a removal, and of its row, is well typed (RemoveEnds).
LEMMA RemoveEndsType ==
  ASSUME TypeOK, NEW d \in Db, queue[d] # <<>>, Head(queue[d]).op = "remove",
         NEW failed \in BOOLEAN, RemoveEnds(d, failed)
  PROVE  RowType' /\ OpType' /\ CallType'
<1>1. Pops(d)
  BY DEF RemoveEnds
<1>2. call' \in [Call -> Request]
  BY HeadType, CallDoneType DEF RemoveEnds
<1>3. RowType'
  BY DEF RemoveEnds, RowType, TypeOK
<1> QED BY <1>1, <1>2, <1>3, PopsType DEF RemoveEnds, OpType, CallType, TypeOK

\* An operation that sends its next request stays well typed (Waits).
LEMMA WaitsType ==
  ASSUME TypeOK, NEW d \in Db, NEW id \in Nat \cup {None},
         NEW request \in {"find", "post", "patch", "lookup", "get", "delete"},
         Waits(d, request, id)
  PROVE  RowType' /\ OpType' /\ CallType'
BY DEF TypeOK, Waits, RowType, OpType, CallType, rowVars, callVars

\* A failed sync is well typed (SyncFails).
LEMMA SyncFailsType ==
  ASSUME TypeOK, NEW d \in Db, queue[d] # <<>>, NEW why \in {"conflict", "error"},
         SyncFails(d, why)
  PROVE  RowType' /\ OpType' /\ CallType'
<1>1. OpType' /\ CallType' /\ UNCHANGED status
  BY SyncEndsType DEF SyncFails
<1>2. recordId' = recordId /\ dnsStatus' \in [Db -> {"none", "active", "conflict", "error"}]
  BY DEF SyncFails, TypeOK
<1> QED BY <1>1, <1>2 DEF RowType, TypeOK

\* A saved record is well typed (Saves).
LEMMA SavesType ==
  ASSUME TypeOK, NEW d \in Db, queue[d] # <<>>, NEW id \in Nat, Saves(d, id)
  PROVE  RowType' /\ OpType' /\ CallType'
<1>1. CASE Exists(d)
  <2>1. OpType' /\ CallType' /\ UNCHANGED status
    BY <1>1, SyncEndsType DEF Saves
  <2> QED BY <1>1, <2>1 DEF Saves, RowType, TypeOK
<1>2. CASE ~Exists(d)
  BY <1>2, WaitsType DEF Saves
<1> QED BY <1>1, <1>2

\* The end of deleteOwned() is well typed (Ends).
LEMMA EndsType ==
  ASSUME TypeOK, NEW d \in Db, queue[d] # <<>>, NEW failed \in BOOLEAN, Ends(d, failed)
  PROVE  RowType' /\ OpType' /\ CallType'
<1>1. CASE Head(queue[d]).op = "remove"
  BY <1>1, RemoveEndsType DEF Ends
<1>2. CASE Head(queue[d]).op # "remove"
  BY <1>2, SyncEndsType DEF Ends, RowType, TypeOK
<1> QED BY <1>1, <1>2

-----------------------------------------------------------------------------
(* The inductive invariant.                                                *)

\* A request belongs to the operation at the head of the chain.
ChainInv ==
  \A d \in Db :
    /\ at[d] # "idle" => queue[d] # <<>>
    /\ at[d] = "lookup" => Head(queue[d]).op = "remove"

\* A record about to be changed is ours, if it is still there and was not taken
\* over since it was read; ids are fresh.
IdInv ==
  \A d \in Db :
    /\ zone[d] # None => zone[d].id < nextId
    /\ at[d] \in {"patch", "delete"} =>
         seen[d] \in Nat /\ seen[d] < nextId /\ (Is(d, seen[d]) => Own(d) \/ overtaken[d])

\* Whoever removes a record does so for a DELETE that has come to it.
Asks(k, d) == call[k].kind = "delete" /\ call[k].db = d /\ call[k].at \in {"removing", "done"}

AskedInv ==
  \A d \in Db :
    /\ queue[d] # <<>> => status[d] # "absent"
    /\ status[d] = "deleted" => RemovalAsked(d)
    /\ at[d] \in {"lookup", "get", "delete"} => RemovalAsked(d)
    /\ \A i \in 1..Len(queue[d]) :
         queue[d][i].op = "remove" => Asks(queue[d][i].by, d)

\* A DELETE that waits for its process is one of a row that has been created.
StoppingInv ==
  \A k \in Call :
    call[k].at = "stopping" =>
      call[k].kind = "delete" /\ call[k].db \in Db /\ status[call[k].db] # "absent"

IInv == TypeOK /\ ChainInv /\ IdInv /\ AskedInv /\ StoppingInv /\ ActiveIsPublished

-----------------------------------------------------------------------------
(* Types.                                                                  *)

\* A create request and reconcileAll() keep the types.
LEMMA CreateTypes ==
  ASSUME TypeOK, NEW d \in Db, Create(d) \/ StartEnds(d) \/ BootVisits(d)
  PROVE  TypeOK'
<1>1. CASE Create(d)
  BY <1>1 DEF Create, TypeOK, zoneVars, opVars
<1>2. CASE StartSucceeds(d)
  <2>1. queue' \in [Db -> Seq(Op)]
    BY <1>2, EnqueueType DEF StartSucceeds
  <2> QED BY <1>2, <2>1 DEF StartSucceeds, TypeOK, zoneVars
<1>3. CASE StartFails(d)
  BY <1>3 DEF StartFails, TypeOK, zoneVars, opVars
<1>4. CASE BootVisits(d)
  <2>1. queue' \in [Db -> Seq(Op)]
    <3>1. CASE Enqueue(d, "sync", "boot")
      BY <3>1, EnqueueType
    <3>2. CASE UNCHANGED queue
      BY <3>2 DEF TypeOK
    <3> QED BY <1>4, <3>1, <3>2 DEF BootVisits
  <2> QED BY <1>4, <2>1 DEF BootVisits, TypeOK, rowVars, zoneVars
<1> QED BY <1>1, <1>2, <1>3, <1>4 DEF StartEnds

\* The other requests of the API keep the types.
LEMMA RequestTypes ==
  ASSUME TypeOK, NEW k \in Call,
         (\E d \in Db : RequestSync(k, d) \/ RequestDelete(k, d)) \/ DeleteRemoves(k)
  PROVE  TypeOK'
<1>1. ASSUME NEW d \in Db, RequestSync(k, d)
      PROVE  TypeOK'
  <2>1. queue' \in [Db -> Seq(Op)]
    BY <1>1, EnqueueType DEF RequestSync
  <2>2. call' \in [Call -> Request]
    <3>1. call[k] \in Request
      BY DEF TypeOK
    <3>2. [call[k] EXCEPT !.kind = "sync", !.at = "syncing", !.db = d] \in Request
      BY <3>1 DEF Request
    <3> QED BY <1>1, <3>2 DEF RequestSync, TypeOK
  <2> QED BY <1>1, <2>1, <2>2 DEF RequestSync, TypeOK, rowVars, zoneVars
<1>2. ASSUME NEW d \in Db, RequestDelete(k, d)
      PROVE  TypeOK'
  <2>1. call' \in [Call -> Request]
    <3>1. call[k] \in Request /\ recordId[d] \in Nat \cup {None}
      BY DEF TypeOK
    <3>2. [call[k] EXCEPT !.kind = "delete", !.at = "stopping", !.db = d, !.id = recordId[d]]
            \in Request
      BY <3>1 DEF Request
    <3> QED BY <1>2, <3>2 DEF RequestDelete, TypeOK
  <2> QED BY <1>2, <2>1 DEF RequestDelete, TypeOK, zoneVars, opVars
<1>3. CASE DeleteRemoves(k)
  <2>1. call[k] \in Request
    BY DEF TypeOK
  <2>2. call' \in [Call -> Request]
    <3>1. [call[k] EXCEPT !.at = "removing"] \in Request
      BY <2>1 DEF Request
    <3> QED BY <1>3, <3>1 DEF DeleteRemoves, TypeOK
  <2>3. queue' \in [Db -> Seq(Op)]
    <3>1. CASE call[k].db \in Db
      BY <1>3, <3>1, EnqueueType DEF DeleteRemoves
    <3>2. CASE call[k].db \notin Db
      BY <1>3, <3>2 DEF DeleteRemoves, Enqueue, TypeOK
    <3> QED BY <3>1, <3>2
  <2> QED BY <1>3, <2>2, <2>3 DEF DeleteRemoves, TypeOK, rowVars, zoneVars
<1> QED BY <1>1, <1>2, <1>3

\* A record in the zone has an id.
LEMMA ZoneIds ==
  ASSUME TypeOK, NEW d \in Db, zone[d] # None
  PROVE  zone[d].id \in Nat /\ zone[d].own \in BOOLEAN /\ zone[d].good \in BOOLEAN
<1>1. zone[d] \in Record
  BY DEF TypeOK
<1> QED BY <1>1 DEF Record

\* What a POST, a PATCH and a DELETE make of the zone is well typed.
LEMMA CreatesType ==
  ASSUME TypeOK, NEW d \in Db, NEW own \in BOOLEAN, Creates(d, own)
  PROVE  zone' \in [Db -> Record \cup {None}] /\ nextId' \in Nat
<1>1. [id |-> nextId, own |-> own, good |-> own] \in Record
  BY DEF TypeOK, Record
<1> QED BY <1>1 DEF Creates, TypeOK

LEMMA RepairedType ==
  ASSUME TypeOK, NEW d \in Db
  PROVE  /\ Repaired(d) \in [Db -> Record \cup {None}]
         /\ \A e \in Db : e # d => Repaired(d)[e] = zone[e]
         /\ Is(d, seen[d]) => /\ Repaired(d)[d] # None
                              /\ Repaired(d)[d].id = seen[d]
                              /\ Repaired(d)[d].own
         /\ ~Is(d, seen[d]) => Repaired(d)[d] = zone[d]
<1>1. CASE Is(d, seen[d])
  <2> DEFINE r == [zone[d] EXCEPT !.own = TRUE, !.good = TRUE]
  <2>1. zone[d] \in Record
    BY <1>1 DEF Is, TypeOK
  <2>2. r \in Record /\ r.id = seen[d] /\ r.own
    BY <1>1, <2>1 DEF Record, Is
  <2>3. Repaired(d) = [zone EXCEPT ![d] = r]
    BY <1>1 DEF Repaired
  <2>4. None \notin Record
    BY DnsAssumption
  <2> HIDE DEF r
  <2> QED BY <1>1, <2>2, <2>3, <2>4 DEF TypeOK
<1>2. CASE ~Is(d, seen[d])
  BY <1>2 DEF Repaired, TypeOK
<1> QED BY <1>1, <1>2

\* The requests of sync() keep the types.
LEMMA SyncTypes ==
  ASSUME TypeOK, ChainInv, NEW d \in Db,
         SyncBegins(d) \/ FindAnswered(d) \/ Posted(d) \/ AlreadyExists(d) \/ Patched(d)
           \/ SyncRequestFails(d)
  PROVE  TypeOK'
<1>1. CASE SyncBegins(d)
  <2>1. RowType' /\ OpType' /\ CallType'
    <3>1. queue[d] # <<>>
      BY <1>1 DEF SyncBegins, Waiting
    <3>2. CASE Waits(d, "find", None)
      BY <3>2, WaitsType
    <3>3. CASE SyncEnds(d) /\ UNCHANGED <<recordId, dnsStatus>>
      BY <3>1, <3>3, SyncEndsType DEF RowType, TypeOK
    <3> QED BY <1>1, <3>2, <3>3 DEF SyncBegins
  <2> QED BY <1>1, <2>1, TypePartsPrime DEF SyncBegins, ZoneType, TypeOK, zoneVars
<1>2. CASE FindAnswered(d)
  <2>1. queue[d] # <<>>
    BY <1>2 DEF FindAnswered, Waiting
  <2>2. RowType' /\ OpType' /\ CallType'
    <3>1. CASE Waits(d, "post", None)
      BY <3>1, WaitsType
    <3>2. CASE SyncFails(d, "conflict")
      BY <2>1, <3>2, SyncFailsType
    <3>3. CASE Own(d) /\ Saves(d, zone[d].id)
      BY <2>1, <3>3, ZoneIds, SavesType DEF Own
    <3>4. CASE Own(d) /\ Waits(d, "patch", zone[d].id)
      BY <3>4, ZoneIds, WaitsType DEF Own
    <3> QED BY <1>2, <3>1, <3>2, <3>3, <3>4 DEF FindAnswered
  <2> QED BY <1>2, <2>2, TypePartsPrime DEF FindAnswered, ZoneType, TypeOK, zoneVars
<1>3. CASE Posted(d)
  <2>1. RowType' /\ OpType' /\ CallType'
    BY <1>3, SavesType DEF Posted, Waiting, TypeOK
  <2>2. ZoneType'
    BY <1>3, CreatesType DEF Posted, ZoneType, TypeOK
  <2> QED BY <1>3, <2>1, <2>2, TypePartsPrime DEF Posted, TypeOK
<1>4. CASE AlreadyExists(d)
  <2>1. RowType' /\ OpType' /\ CallType'
    <3>1. CASE retried[d]
      BY <1>4, <3>1, SyncFailsType DEF AlreadyExists, Waiting
    <3>2. CASE ~retried[d]
      BY <1>4, <3>2 DEF AlreadyExists, TypeOK, RowType, OpType, CallType, rowVars, callVars
    <3> QED BY <3>1, <3>2
  <2> QED BY <1>4, <2>1, TypePartsPrime DEF AlreadyExists, ZoneType, TypeOK, zoneVars
<1>5. CASE Patched(d)
  <2>1. queue[d] # <<>>
    BY <1>5 DEF Patched, Waiting
  <2>2. RowType' /\ OpType' /\ CallType'
    <3>1. CASE Is(d, seen[d])
      <4>1. seen[d] \in Nat
        BY <3>1, ZoneIds DEF Is
      <4> QED BY <1>5, <2>1, <3>1, <4>1, SavesType DEF Patched
    <3>2. CASE ~Is(d, seen[d])
      BY <1>5, <2>1, <3>2, SyncFailsType DEF Patched
    <3> QED BY <3>1, <3>2
  <2> QED BY <1>5, <2>2, RepairedType, TypePartsPrime DEF Patched, ZoneType, TypeOK
<1>6. CASE SyncRequestFails(d)
  <2>1. queue[d] # <<>>
    BY <1>6 DEF SyncRequestFails, ChainInv
  <2>2. RowType' /\ OpType' /\ CallType'
    BY <1>6, <2>1, SyncFailsType DEF SyncRequestFails
  <2>3. ZoneType'
    <3>1. zone' = zone \/ zone' = Repaired(d)
      BY <1>6 DEF SyncRequestFails
    <3>2. late' \in [Db -> BOOLEAN] /\ nextId' = nextId
      BY <1>6 DEF SyncRequestFails, TypeOK
    <3> QED BY <3>1, <3>2, RepairedType DEF ZoneType, TypeOK
  <2>4. used' \in [DOMAIN Limit -> Nat]
    BY <1>6, HappensType DEF SyncRequestFails, Limit
  <2> QED BY <2>2, <2>3, <2>4, TypePartsPrime
<1> QED BY <1>1, <1>2, <1>3, <1>4, <1>5, <1>6

\* What a DELETE of a record makes of the zone.
LEMMA RemovedType ==
  ASSUME TypeOK, NEW d \in Db
  PROVE  /\ Removed(d) \in [Db -> Record \cup {None}]
         /\ \A e \in Db : e # d => Removed(d)[e] = zone[e]
         /\ Removed(d)[d] \in {zone[d], None}
         /\ ~Is(d, seen[d]) => Removed(d)[d] = zone[d]
<1>1. CASE Is(d, seen[d])
  BY <1>1 DEF Removed, TypeOK
<1>2. CASE ~Is(d, seen[d])
  BY <1>2 DEF Removed, TypeOK
<1> QED BY <1>1, <1>2

\* The requests of remove() keep the types.
LEMMA RemoveTypes ==
  ASSUME TypeOK, ChainInv, NEW d \in Db,
         RemoveBegins(d) \/ LookupAnswered(d) \/ GetAnswered(d) \/ Deleted(d)
           \/ RemoveRequestFails(d)
  PROVE  TypeOK'
<1>1. CASE RemoveBegins(d)
  <2> DEFINE k == Head(queue[d]).by
             id == IF Exists(d) THEN recordId[d] ELSE call[k].id
  <2>1. queue[d] # <<>> /\ Head(queue[d]).op = "remove"
    BY <1>1 DEF RemoveBegins, Waiting
  <2>2. call[k] \in Request
    BY <2>1, HeadType DEF TypeOK
  <2>3. id \in Nat \cup {None}
    BY <2>2 DEF TypeOK, Request
  <2>4. Waits(d, IF id = None THEN "lookup" ELSE "get", id)
    BY <1>1 DEF RemoveBegins
  <2> HIDE DEF id
  <2>5. RowType' /\ OpType' /\ CallType'
    BY <2>3, <2>4, WaitsType
  <2> QED BY <1>1, <2>5, TypePartsPrime DEF RemoveBegins, ZoneType, TypeOK, zoneVars
<1>2. CASE LookupAnswered(d)
  <2>1. queue[d] # <<>> /\ Head(queue[d]).op = "remove"
    BY <1>2 DEF LookupAnswered, Waiting, ChainInv
  <2>2. RowType' /\ OpType' /\ CallType'
    <3>1. CASE Own(d)
      BY <1>2, <3>1, ZoneIds, WaitsType DEF LookupAnswered, Own
    <3>2. CASE ~Own(d)
      BY <1>2, <2>1, <3>2, RemoveEndsType DEF LookupAnswered
    <3> QED BY <3>1, <3>2
  <2> QED BY <1>2, <2>2, TypePartsPrime DEF LookupAnswered, ZoneType, TypeOK, zoneVars
<1>3. CASE GetAnswered(d)
  <2>1. queue[d] # <<>>
    BY <1>3 DEF GetAnswered, Waiting
  <2>2. RowType' /\ OpType' /\ CallType'
    <3>1. CASE Ends(d, FALSE) \/ Ends(d, TRUE)
      BY <2>1, <3>1, EndsType
    <3>2. CASE Is(d, seen[d]) /\ Waits(d, "delete", seen[d])
      <4>1. seen[d] \in Nat
        BY <3>2, ZoneIds DEF Is
      <4> QED BY <3>2, <4>1, WaitsType
    <3> QED BY <1>3, <3>1, <3>2 DEF GetAnswered
  <2> QED BY <1>3, <2>2, TypePartsPrime DEF GetAnswered, ZoneType, TypeOK, zoneVars
<1>4. CASE Deleted(d)
  <2>1. queue[d] # <<>>
    BY <1>4 DEF Deleted, Waiting
  <2>2. RowType' /\ OpType' /\ CallType'
    BY <1>4, <2>1, EndsType DEF Deleted
  <2> QED BY <1>4, <2>2, RemovedType, TypePartsPrime DEF Deleted, ZoneType, TypeOK
<1>5. CASE RemoveRequestFails(d)
  <2>1. queue[d] # <<>>
    BY <1>5 DEF RemoveRequestFails, ChainInv
  <2>2. RowType' /\ OpType' /\ CallType'
    BY <1>5, <2>1, EndsType DEF RemoveRequestFails
  <2>3. ZoneType'
    <3>1. zone' = zone \/ zone' = Removed(d)
      BY <1>5 DEF RemoveRequestFails
    <3> QED BY <1>5, <3>1, RemovedType DEF RemoveRequestFails, ZoneType, TypeOK
  <2>4. used' \in [DOMAIN Limit -> Nat]
    BY <1>5, HappensType DEF RemoveRequestFails, Limit
  <2> QED BY <2>2, <2>3, <2>4, TypePartsPrime
<1> QED BY <1>1, <1>2, <1>3, <1>4, <1>5

\* Cloudflare's and an operator's steps keep the types.
LEMMA ZoneTypes ==
  ASSUME TypeOK, NEW d \in Db, ZoneStep(d)
  PROVE  TypeOK'
<1>1. CASE LateLands(d)
  <2>1. zone' \in [Db -> Record \cup {None}] /\ nextId' \in Nat
    BY <1>1, CreatesType DEF LateLands, TypeOK
  <2> QED BY <1>1, <2>1 DEF LateLands, TypeOK, rowVars, opVars, callVars
<1>2. CASE HandRemoves(d)
  <2>1. used' \in [DOMAIN Limit -> Nat]
    BY <1>2, HappensType DEF HandRemoves, Limit
  <2> QED BY <1>2, <2>1 DEF HandRemoves, TypeOK, rowVars, opVars, callVars
<1>3. CASE HandDisowns(d)
  <2>1. used' \in [DOMAIN Limit -> Nat]
    BY <1>3, HappensType DEF HandDisowns, Limit
  <2>2. zone[d] \in Record
    BY <1>3 DEF HandDisowns, Own, TypeOK
  <2>3. [zone[d] EXCEPT !.own = FALSE] \in Record
    BY <2>2 DEF Record
  <2>4. zone' \in [Db -> Record \cup {None}]
    BY <1>3, <2>3 DEF HandDisowns, TypeOK
  <2> QED BY <1>3, <2>1, <2>4 DEF HandDisowns, TypeOK, rowVars, opVars, callVars
<1>4. CASE HandRedirects(d)
  <2>1. used' \in [DOMAIN Limit -> Nat]
    BY <1>4, HappensType DEF HandRedirects, Limit
  <2>2. zone[d] \in Record
    BY <1>4 DEF HandRedirects, Own, TypeOK
  <2>3. [zone[d] EXCEPT !.good = FALSE] \in Record
    BY <2>2 DEF Record
  <2>4. zone' \in [Db -> Record \cup {None}]
    BY <1>4, <2>3 DEF HandRedirects, TypeOK
  <2> QED BY <1>4, <2>1, <2>4 DEF HandRedirects, TypeOK, rowVars, opVars, callVars
<1>5. CASE HandAdds(d)
  <2>1. used' \in [DOMAIN Limit -> Nat]
    BY <1>5, HappensType DEF HandAdds, Limit
  <2>2. zone' \in [Db -> Record \cup {None}] /\ nextId' \in Nat
    BY <1>5, CreatesType DEF HandAdds
  <2> QED BY <1>5, <2>1, <2>2 DEF HandAdds, TypeOK, rowVars, opVars, callVars
<1> QED BY <1>1, <1>2, <1>3, <1>4, <1>5 DEF ZoneStep

\* What a restart makes of one database's record (Restart).
LEMMA RestartZone ==
  ASSUME TypeOK, Restart, NEW d \in Db
  PROVE  \/ zone'[d] = zone[d]
         \/ at[d] = "patch" /\ zone'[d] = Repaired(d)[d]
         \/ at[d] = "delete" /\ zone'[d] = Removed(d)[d]
<1>1. PICK done \in SUBSET {e \in Db : at[e] \in {"patch", "delete"}} :
        zone' = [e \in Db |-> CASE e \notin done -> zone[e]
                                [] at[e] = "patch" -> Repaired(e)[e]
                                [] OTHER -> Removed(e)[e]]
  BY DEF Restart
<1>2. CASE d \notin done
  BY <1>1, <1>2
<1>3. CASE d \in done /\ at[d] = "patch"
  BY <1>1, <1>3
<1>4. CASE d \in done /\ at[d] = "delete"
  BY <1>1, <1>4
<1> QED BY <1>2, <1>3, <1>4

\* A restart keeps the types.
LEMMA RestartTypes ==
  ASSUME TypeOK, Restart
  PROVE  TypeOK'
<1>1. zone' \in [Db -> Record \cup {None}]
  <2>1. ASSUME NEW d \in Db
        PROVE  zone'[d] \in Record \cup {None}
    <3>1. Repaired(d)[d] \in Record \cup {None} /\ Removed(d)[d] \in Record \cup {None}
      BY RepairedType, RemovedType
    <3>2. zone[d] \in Record \cup {None}
      BY DEF TypeOK
    <3> QED BY <3>1, <3>2, RestartZone
  <2>2. PICK done \in SUBSET {e \in Db : at[e] \in {"patch", "delete"}} :
          zone' = [e \in Db |-> CASE e \notin done -> zone[e]
                                  [] at[e] = "patch" -> Repaired(e)[e]
                                  [] OTHER -> Removed(e)[e]]
    BY DEF Restart
  <2>3. DOMAIN zone' = Db /\ zone' = [e \in DOMAIN zone' |-> zone'[e]]
    BY <2>2
  <2> QED BY <2>1, <2>3
<1>2. used' \in [DOMAIN Limit -> Nat]
  BY HappensType DEF Restart, Limit
<1>3. call' \in [Call -> Request]
  <2>1. ASSUME NEW k \in Call
        PROVE  call[k] \in Request /\ [call[k] EXCEPT !.at = "done"] \in Request
    <3>1. call[k] \in Request
      BY DEF TypeOK
    <3> QED BY <3>1 DEF Request
  <2> QED BY <2>1 DEF Restart
<1>4. queue' \in [Db -> Seq(Op)]
  BY DEF Restart
<1>5. late' \in [Db -> BOOLEAN] /\ nextId' \in Nat
  BY DEF Restart, TypeOK
<1>6. /\ status' \in [Db -> {"absent", "starting", "live", "deleting", "deleted"}]
      /\ create' \in [Db -> {"none", "starting", "syncing", "done"}]
      /\ boot' \in SUBSET Db
  BY DEF Restart, TypeOK
<1>7. /\ at' \in [Db -> {"idle", "find", "post", "patch", "lookup", "get", "delete"}]
      /\ seen' \in [Db -> Nat \cup {None}] /\ retried' \in [Db -> BOOLEAN]
      /\ overtaken' \in [Db -> BOOLEAN]
  BY DEF Restart
<1> QED BY <1>1, <1>2, <1>3, <1>4, <1>5, <1>6, <1>7 DEF Restart, TypeOK

\* Every step keeps the types.
LEMMA TypeStep ==
  ASSUME TypeOK, ChainInv, [Next]_vars
  PROVE  TypeOK'
<1>1. ASSUME NEW d \in Db, Create(d) \/ StartEnds(d) \/ BootVisits(d)
      PROVE  TypeOK'
  BY <1>1, CreateTypes
<1>2. ASSUME NEW d \in Db, OpStep(d)
      PROVE  TypeOK'
  BY <1>2, SyncTypes, RemoveTypes DEF OpStep
<1>3. ASSUME NEW d \in Db, ZoneStep(d)
      PROVE  TypeOK'
  BY <1>3, ZoneTypes
<1>4. ASSUME NEW k \in Call,
             (\E d \in Db : RequestSync(k, d) \/ RequestDelete(k, d)) \/ DeleteRemoves(k)
      PROVE  TypeOK'
  BY <1>4, RequestTypes
<1>5. CASE Restart
  BY <1>5, RestartTypes
<1>6. CASE UNCHANGED vars
  BY <1>6 DEF TypeOK, vars, rowVars, zoneVars, opVars, callVars
<1> QED BY <1>1, <1>2, <1>3, <1>4, <1>5, <1>6 DEF Next

\* The program starts in a state of its types.
LEMMA TypeInit ==
  Init => TypeOK
<1>1. [kind |-> "none", at |-> "free", db |-> None, id |-> None, failed |-> FALSE] \in Request
  BY DEF Request
<1>2. <<>> \in Seq(Op)
  OBVIOUS
<1> QED BY <1>1, <1>2 DEF Init, TypeOK, Limit

-----------------------------------------------------------------------------
(* What the steps do, database by database.                                *)

\* A step of one database's operation leaves the others alone.
Elsewhere(d) ==
  \A e \in Db : e # d =>
    /\ queue'[e] = queue[e] /\ at'[e] = at[e] /\ seen'[e] = seen[e]
    /\ overtaken'[e] = overtaken[e]
    /\ zone'[e] = zone[e] /\ status'[e] = status[e]
    /\ dnsStatus'[e] = dnsStatus[e] /\ recordId'[e] = recordId[e]

\* The operation sends its next request.
GoesOn(d) ==
  /\ queue'[d] = queue[d] /\ status'[d] = status[d]
  /\ dnsStatus'[d] = dnsStatus[d] /\ recordId'[d] = recordId[d]
  /\ at'[d] # "idle"
  /\ at'[d] = "lookup" => Head(queue[d]).op = "remove"
  /\ at'[d] \in {"patch", "delete"} =>
       zone' = zone /\ nextId' = nextId /\ Own(d) /\ seen'[d] = zone[d].id
  /\ at'[d] \in {"lookup", "get", "delete"} =>
       \/ Head(queue[d]).op = "remove"
       \/ at[d] \in {"lookup", "get", "delete"}
       \/ ~Exists(d)

\* The operation ends.
Finishes(d) ==
  /\ queue'[d] = Tail(queue[d]) /\ at'[d] = "idle"
  /\ status'[d] = status[d] \/ (status'[d] = "deleted" /\ Head(queue[d]).op = "remove")
  /\ dnsStatus'[d] = "active" =>
       \/ dnsStatus[d] = "active" /\ recordId'[d] = recordId[d]
       \/ Own(d)' /\ zone'[d].id = recordId'[d]

\* What becomes of the record: nothing, a POST, a PATCH or a DELETE.
Changes(d) ==
  \/ zone'[d] = zone[d] /\ nextId' = nextId
  \/ zone[d] = None /\ zone'[d] # None /\ zone'[d].id = nextId /\ nextId' = nextId + 1
  \/ /\ at[d] = "patch" /\ Is(d, seen[d]) /\ nextId' = nextId
     /\ Own(d)' /\ zone'[d].id = zone[d].id
  \/ at[d] = "delete" /\ Is(d, seen[d]) /\ nextId' = nextId /\ zone'[d] = None

\* The end of a sync, for its database and for the others (SyncEnds).
LEMMA SyncEndsDoes ==
  ASSUME TypeOK, NEW d \in Db, SyncEnds(d)
  PROVE  /\ queue'[d] = Tail(queue[d]) /\ at'[d] = "idle" /\ status' = status
         /\ \A e \in Db : e # d =>
              /\ queue'[e] = queue[e] /\ at'[e] = at[e] /\ seen'[e] = seen[e]
              /\ overtaken'[e] = overtaken[e]
BY DEF TypeOK, SyncEnds, Pops

\* The end of a removal (RemoveEnds).
LEMMA RemoveEndsDoes ==
  ASSUME TypeOK, NEW d \in Db, NEW failed \in BOOLEAN, RemoveEnds(d, failed)
  PROVE  /\ queue'[d] = Tail(queue[d]) /\ at'[d] = "idle"
         /\ status'[d] = "deleted" /\ dnsStatus'[d] = "none"
         /\ \A e \in Db : e # d =>
              /\ queue'[e] = queue[e] /\ at'[e] = at[e] /\ seen'[e] = seen[e]
              /\ overtaken'[e] = overtaken[e]
              /\ status'[e] = status[e] /\ dnsStatus'[e] = dnsStatus[e]
              /\ recordId'[e] = recordId[e]
BY DEF TypeOK, RemoveEnds, Pops

\* A request is sent (Waits).
LEMMA WaitsDoes ==
  ASSUME TypeOK, NEW d \in Db, NEW request, NEW id, Waits(d, request, id)
  PROVE  /\ queue' = queue /\ status' = status /\ dnsStatus' = dnsStatus /\ recordId' = recordId
         /\ at'[d] = request /\ seen'[d] = id
         /\ \A e \in Db : e # d =>
              at'[e] = at[e] /\ seen'[e] = seen[e] /\ overtaken'[e] = overtaken[e]
BY DEF TypeOK, Waits, rowVars

\* A failed sync (SyncFails) ends and says so on the row.
LEMMA SyncFailsDoes ==
  ASSUME TypeOK, NEW d \in Db, NEW why \in {"conflict", "error"}, SyncFails(d, why),
         \A e \in Db : e # d => zone'[e] = zone[e]
  PROVE  Elsewhere(d) /\ Finishes(d)
<1>1. /\ recordId' = recordId
      /\ dnsStatus'[d] \in {dnsStatus[d], why}
      /\ \A e \in Db : e # d => dnsStatus'[e] = dnsStatus[e]
  BY DEF SyncFails, TypeOK
<1>2. SyncEnds(d)
  BY DEF SyncFails
<1> QED BY <1>1, <1>2, SyncEndsDoes DEF Elsewhere, Finishes

\* A sync that has its record (Saves) ends with the row naming it, if it is there.
LEMMA SavesDoes ==
  ASSUME TypeOK, NEW d \in Db, NEW id \in Nat, Saves(d, id),
         \A e \in Db : e # d => zone'[e] = zone[e],
         Own(d)', zone'[d].id = id
  PROVE  Elsewhere(d) /\ (GoesOn(d) \/ Finishes(d))
<1>1. CASE Exists(d)
  <2>1. /\ recordId'[d] = id
        /\ \A e \in Db : e # d => recordId'[e] = recordId[e] /\ dnsStatus'[e] = dnsStatus[e]
    BY <1>1 DEF Saves, TypeOK
  <2>2. SyncEnds(d)
    BY <1>1 DEF Saves
  <2> QED BY <2>1, <2>2, SyncEndsDoes DEF Elsewhere, Finishes
<1>2. CASE ~Exists(d)
  <2>1. Waits(d, "get", id)
    BY <1>2 DEF Saves
  <2> QED BY <1>2, <2>1, WaitsDoes DEF Elsewhere, GoesOn
<1> QED BY <1>1, <1>2

\* deleteOwned() ends a removal, or the sync of a vanished row (Ends).
LEMMA EndsDoes ==
  ASSUME TypeOK, NEW d \in Db, NEW failed \in BOOLEAN, Ends(d, failed),
         \A e \in Db : e # d => zone'[e] = zone[e]
  PROVE  Elsewhere(d) /\ Finishes(d)
<1>1. CASE Head(queue[d]).op = "remove"
  <2>1. RemoveEnds(d, failed)
    BY <1>1 DEF Ends
  <2> QED BY <1>1, <2>1, RemoveEndsDoes DEF Elsewhere, Finishes
<1>2. CASE Head(queue[d]).op # "remove"
  <2>1. SyncEnds(d) /\ recordId' = recordId /\ dnsStatus' = dnsStatus
    BY <1>2 DEF Ends
  <2> QED BY <2>1, SyncEndsDoes DEF Elsewhere, Finishes
<1> QED BY <1>1, <1>2

\* Each step of sync() (SyncBegins to SyncRequestFails), in these terms.
LEMMA SyncDoes ==
  ASSUME TypeOK, ChainInv, NEW d \in Db,
         SyncBegins(d) \/ FindAnswered(d) \/ Posted(d) \/ AlreadyExists(d) \/ Patched(d)
           \/ SyncRequestFails(d)
  PROVE  queue[d] # <<>> /\ Elsewhere(d) /\ (GoesOn(d) \/ Finishes(d)) /\ Changes(d)
<1>1. CASE SyncBegins(d)
  <2>1. queue[d] # <<>> /\ zone' = zone /\ nextId' = nextId
    BY <1>1 DEF SyncBegins, Waiting, zoneVars
  <2>2. CASE Waits(d, "find", None)
    BY <2>1, <2>2, WaitsDoes DEF Elsewhere, GoesOn, Changes
  <2>3. CASE SyncEnds(d) /\ UNCHANGED <<recordId, dnsStatus>>
    BY <2>1, <2>3, SyncEndsDoes DEF Elsewhere, Finishes, Changes
  <2> QED BY <1>1, <2>2, <2>3 DEF SyncBegins
<1>2. CASE FindAnswered(d)
  <2>1. queue[d] # <<>> /\ zone' = zone /\ nextId' = nextId
    BY <1>2 DEF FindAnswered, Waiting, zoneVars
  <2>2. Changes(d)
    BY <2>1 DEF Changes
  <2>3. CASE Waits(d, "post", None)
    BY <2>1, <2>2, <2>3, WaitsDoes DEF Elsewhere, GoesOn
  <2>4. CASE SyncFails(d, "conflict")
    BY <2>1, <2>2, <2>4, SyncFailsDoes
  <2>5. CASE Own(d) /\ Saves(d, zone[d].id)
    <3>1. zone[d].id \in Nat /\ Own(d)'
      BY <2>1, <2>5, ZoneIds DEF Own
    <3> QED BY <2>1, <2>2, <2>5, <3>1, SavesDoes
  <2>6. CASE Own(d) /\ Waits(d, "patch", zone[d].id)
    BY <2>1, <2>2, <2>6, WaitsDoes DEF Elsewhere, GoesOn
  <2> QED BY <1>2, <2>3, <2>4, <2>5, <2>6 DEF FindAnswered
<1>3. CASE Posted(d)
  <2>1. /\ queue[d] # <<>> /\ zone[d] = None /\ nextId \in Nat /\ nextId' = nextId + 1
        /\ zone'[d] = [id |-> nextId, own |-> TRUE, good |-> TRUE]
        /\ \A e \in Db : e # d => zone'[e] = zone[e]
    BY <1>3 DEF Posted, Waiting, Creates, TypeOK
  <2>2. [id |-> nextId, own |-> TRUE, good |-> TRUE] \in Record
    BY <2>1 DEF Record
  <2>3. Own(d)' /\ zone'[d].id = nextId
    <3>1. zone'[d] # None
      BY <2>1, <2>2, DnsAssumption
    <3> QED BY <2>1, <3>1 DEF Own
  <2>4. Elsewhere(d) /\ (GoesOn(d) \/ Finishes(d))
    BY <1>3, <2>1, <2>3, SavesDoes DEF Posted
  <2> QED BY <2>1, <2>3, <2>4 DEF Changes, Own
<1>4. CASE AlreadyExists(d)
  <2>1. queue[d] # <<>> /\ zone' = zone /\ nextId' = nextId
    BY <1>4 DEF AlreadyExists, Waiting, zoneVars
  <2>2. Changes(d)
    BY <2>1 DEF Changes
  <2>3. CASE retried[d]
    BY <1>4, <2>1, <2>2, <2>3, SyncFailsDoes DEF AlreadyExists
  <2>4. CASE ~retried[d]
    BY <1>4, <2>1, <2>2, <2>4 DEF AlreadyExists, Elsewhere, GoesOn, TypeOK, rowVars
  <2> QED BY <2>3, <2>4
<1>5. CASE Patched(d)
  <2>1. queue[d] # <<>> /\ at[d] = "patch" /\ zone' = Repaired(d) /\ nextId' = nextId
    BY <1>5 DEF Patched, Waiting
  <2>2. \A e \in Db : e # d => zone'[e] = zone[e]
    BY <2>1, RepairedType
  <2>3. CASE Is(d, seen[d])
    <3>1. seen[d] \in Nat /\ seen[d] = zone[d].id
      BY <2>3, ZoneIds DEF Is
    <3>2. Own(d)' /\ zone'[d].id = seen[d]
      BY <2>1, <2>3, RepairedType DEF Own
    <3>3. Elsewhere(d) /\ (GoesOn(d) \/ Finishes(d))
      BY <1>5, <2>2, <2>3, <3>1, <3>2, SavesDoes DEF Patched
    <3> QED BY <2>1, <2>3, <3>1, <3>2, <3>3 DEF Changes
  <2>4. CASE ~Is(d, seen[d])
    <3>1. zone'[d] = zone[d]
      BY <2>1, <2>4, RepairedType
    <3> QED BY <1>5, <2>1, <2>2, <2>4, <3>1, SyncFailsDoes DEF Patched, Changes
  <2> QED BY <2>3, <2>4
<1>6. CASE SyncRequestFails(d)
  <2>1. queue[d] # <<>> /\ nextId' = nextId /\ SyncFails(d, "error")
    BY <1>6 DEF SyncRequestFails, ChainInv
  <2>2. zone' = zone \/ (at[d] = "patch" /\ zone' = Repaired(d))
    BY <1>6 DEF SyncRequestFails
  <2>3. \A e \in Db : e # d => zone'[e] = zone[e]
    BY <2>2, RepairedType
  <2>4. Changes(d)
    <3>1. CASE zone' = zone
      BY <2>1, <3>1 DEF Changes
    <3>2. CASE at[d] = "patch" /\ zone' = Repaired(d) /\ ~Is(d, seen[d])
      BY <2>1, <3>2, RepairedType DEF Changes
    <3>3. CASE at[d] = "patch" /\ zone' = Repaired(d) /\ Is(d, seen[d])
      <4>1. seen[d] = zone[d].id
        BY <3>3 DEF Is
      <4>2. Own(d)' /\ zone'[d].id = seen[d]
        BY <3>3, RepairedType DEF Own
      <4> QED BY <2>1, <3>3, <4>1, <4>2 DEF Changes
    <3> QED BY <2>2, <3>1, <3>2, <3>3
  <2> QED BY <2>1, <2>3, <2>4, SyncFailsDoes
<1> QED BY <1>1, <1>2, <1>3, <1>4, <1>5, <1>6

\* Each step of remove(), and of the end of a sync whose row has vanished.
LEMMA RemoveDoes ==
  ASSUME TypeOK, ChainInv, NEW d \in Db,
         RemoveBegins(d) \/ LookupAnswered(d) \/ GetAnswered(d) \/ Deleted(d)
           \/ RemoveRequestFails(d)
  PROVE  queue[d] # <<>> /\ Elsewhere(d) /\ (GoesOn(d) \/ Finishes(d)) /\ Changes(d)
<1>1. CASE RemoveBegins(d)
  <2>1. queue[d] # <<>> /\ Head(queue[d]).op = "remove" /\ zone' = zone /\ nextId' = nextId
    BY <1>1 DEF RemoveBegins, Waiting, zoneVars
  <2> DEFINE id == IF Exists(d) THEN recordId[d] ELSE call[Head(queue[d]).by].id
             request == IF id = None THEN "lookup" ELSE "get"
  <2>2. Waits(d, request, id)
    BY <1>1 DEF RemoveBegins
  <2>3. request \in {"lookup", "get"}
    OBVIOUS
  <2> HIDE DEF id, request
  <2> QED BY <2>1, <2>2, <2>3, WaitsDoes DEF Elsewhere, GoesOn, Changes
<1>2. CASE LookupAnswered(d)
  <2>1. queue[d] # <<>> /\ Head(queue[d]).op = "remove" /\ zone' = zone /\ nextId' = nextId
    BY <1>2 DEF LookupAnswered, Waiting, ChainInv, zoneVars
  <2>2. CASE Own(d)
    <3>1. Waits(d, "get", zone[d].id)
      BY <1>2, <2>2 DEF LookupAnswered
    <3> QED BY <2>1, <3>1, WaitsDoes DEF Elsewhere, GoesOn, Changes
  <2>3. CASE ~Own(d)
    <3>1. RemoveEnds(d, FALSE)
      BY <1>2, <2>3 DEF LookupAnswered
    <3> QED BY <2>1, <3>1, RemoveEndsDoes DEF Elsewhere, Finishes, Changes
  <2> QED BY <2>2, <2>3
<1>3. CASE GetAnswered(d)
  <2>1. queue[d] # <<>> /\ at[d] = "get" /\ zone' = zone /\ nextId' = nextId
    BY <1>3 DEF GetAnswered, Waiting, zoneVars
  <2>2. Changes(d)
    BY <2>1 DEF Changes
  <2>3. CASE Ends(d, FALSE) \/ Ends(d, TRUE)
    BY <2>1, <2>2, <2>3, EndsDoes
  <2>4. CASE Is(d, seen[d]) /\ Own(d) /\ Waits(d, "delete", seen[d])
    <3>1. seen[d] = zone[d].id
      BY <2>4 DEF Is
    <3> QED BY <2>1, <2>2, <2>4, <3>1, WaitsDoes DEF Elsewhere, GoesOn
  <2> QED BY <1>3, <2>3, <2>4 DEF GetAnswered
<1>4. CASE Deleted(d)
  <2>1. queue[d] # <<>> /\ at[d] = "delete" /\ zone' = Removed(d) /\ nextId' = nextId
    BY <1>4 DEF Deleted, Waiting
  <2>2. \A e \in Db : e # d => zone'[e] = zone[e]
    BY <2>1, RemovedType
  <2>3. Changes(d)
    BY <2>1, RemovedType DEF Changes
  <2> QED BY <1>4, <2>1, <2>2, <2>3, EndsDoes DEF Deleted
<1>5. CASE RemoveRequestFails(d)
  <2>1. queue[d] # <<>> /\ nextId' = nextId /\ Ends(d, TRUE)
    BY <1>5 DEF RemoveRequestFails, ChainInv
  <2>2. zone' = zone \/ (at[d] = "delete" /\ zone' = Removed(d))
    BY <1>5 DEF RemoveRequestFails
  <2>3. \A e \in Db : e # d => zone'[e] = zone[e]
    BY <2>2, RemovedType
  <2>4. Changes(d)
    BY <2>1, <2>2, RemovedType DEF Changes
  <2> QED BY <2>1, <2>3, <2>4, EndsDoes
<1> QED BY <1>1, <1>2, <1>3, <1>4, <1>5

\* A request of the API, or reconcileAll(), at most adds to the chains.
AddsOnly ==
  /\ UNCHANGED <<recordId, dnsStatus, zone, nextId, at, seen, overtaken, used>>
  /\ \A d \in Db :
       /\ status'[d] = status[d] \/ status'[d] \in {"starting", "live", "deleting"}
       /\ \/ queue'[d] = queue[d]
          \/ \E o \in Op : /\ queue'[d] = Append(queue[d], o)
                           /\ status'[d] # "absent"
                           /\ o.op = "remove" => call'[o.by].at = "removing"
                                /\ call'[o.by].kind = "delete" /\ call'[o.by].db = d

\* Enqueue, chain by chain.
LEMMA EnqueueDoes ==
  ASSUME TypeOK, NEW d \in Db, NEW op, NEW by, Enqueue(d, op, by)
  PROVE  /\ queue'[d] = Append(queue[d], [op |-> op, by |-> by])
         /\ \A e \in Db : e # d => queue'[e] = queue[e]
BY DEF TypeOK, Enqueue

LEMMA ApiDoes ==
  ASSUME TypeOK, StoppingInv,
         \/ \E d \in Db : Create(d) \/ StartEnds(d) \/ BootVisits(d)
         \/ \E k \in Call, d \in Db : RequestSync(k, d) \/ RequestDelete(k, d)
         \/ \E k \in Call : DeleteRemoves(k)
  PROVE  AddsOnly
<1>1. ASSUME NEW d \in Db, Create(d)
      PROVE  AddsOnly
  BY <1>1 DEF Create, AddsOnly, TypeOK, zoneVars, opVars
<1>2. ASSUME NEW d \in Db, NEW by \in Call \cup {"create", "boot"}, Enqueue(d, "sync", by),
             status'[d] \in {"starting", "live", "deleting"},
             \A e \in Db : e # d => status'[e] = status[e],
             UNCHANGED <<recordId, dnsStatus, zone, nextId, at, seen, overtaken, used>>
      PROVE  AddsOnly
  <2>1. [op |-> "sync", by |-> by] \in Op
    BY DEF Op
  <2> QED BY <1>2, <2>1, EnqueueDoes DEF AddsOnly
<1>3. ASSUME NEW d \in Db, StartSucceeds(d)
      PROVE  AddsOnly
  BY <1>2, <1>3 DEF StartSucceeds, TypeOK, zoneVars
<1>4. ASSUME NEW d \in Db, StartFails(d)
      PROVE  AddsOnly
  BY <1>4 DEF StartFails, AddsOnly, TypeOK, zoneVars, opVars
<1>5. ASSUME NEW d \in Db, BootVisits(d)
      PROVE  AddsOnly
  <2>1. CASE Exists(d) /\ dnsStatus[d] # "active"
    BY <1>2, <1>5, <2>1 DEF BootVisits, Exists, rowVars, zoneVars
  <2>2. CASE ~(Exists(d) /\ dnsStatus[d] # "active")
    BY <1>5, <2>2 DEF BootVisits, AddsOnly, rowVars, zoneVars
  <2> QED BY <2>1, <2>2
<1>6. ASSUME NEW k \in Call, NEW d \in Db, RequestSync(k, d)
      PROVE  AddsOnly
  BY <1>2, <1>6 DEF RequestSync, Exists, rowVars, zoneVars
<1>7. ASSUME NEW k \in Call, NEW d \in Db, RequestDelete(k, d)
      PROVE  AddsOnly
  BY <1>7 DEF RequestDelete, AddsOnly, TypeOK, zoneVars, opVars
<1>8. ASSUME NEW k \in Call, DeleteRemoves(k)
      PROVE  AddsOnly
  <2> DEFINE o == [op |-> "remove", by |-> k]
  <2>1. call[k].kind = "delete" /\ call[k].db \in Db /\ status[call[k].db] # "absent"
    BY <1>8 DEF DeleteRemoves, StoppingInv
  <2>2. call[k] \in Request
    BY DEF TypeOK
  <2>3. call'[k] = [call[k] EXCEPT !.at = "removing"]
    BY <1>8 DEF DeleteRemoves, TypeOK
  <2>4. call'[k].at = "removing" /\ call'[k].kind = "delete" /\ call'[k].db = call[k].db
    BY <2>1, <2>2, <2>3 DEF Request
  <2>5. o \in Op
    BY DEF Op
  <2>6. /\ queue'[call[k].db] = Append(queue[call[k].db], o)
        /\ \A e \in Db : e # call[k].db => queue'[e] = queue[e]
    BY <1>8, <2>1, EnqueueDoes DEF DeleteRemoves
  <2> QED BY <1>8, <2>1, <2>4, <2>5, <2>6 DEF DeleteRemoves, AddsOnly, rowVars, zoneVars
<1> QED BY <1>1, <1>3, <1>4, <1>5, <1>6, <1>7, <1>8 DEF StartEnds

\* What an operator takes away by hand is counted.
LEMMA GoneCounts ==
  ASSUME TypeOK, NEW e \in DOMAIN Limit, Happens(e)
  PROVE  used'["gone"] = IF e = "gone" THEN used["gone"] + 1 ELSE used["gone"]
<1>1. "gone" \in DOMAIN Limit
  BY DEF Limit
<1> QED BY <1>1 DEF Happens, TypeOK

\* Cloudflare and an operator change one record, and only an operator, by
\* hand, takes one of ours away.
LEMMA ZoneDoes ==
  ASSUME TypeOK, NEW d \in Db, ZoneStep(d)
  PROVE  /\ UNCHANGED <<rowVars, queue, at, seen, retried, callVars>>
         /\ \A e \in Db : e # d => zone'[e] = zone[e] /\ overtaken'[e] = overtaken[e]
         /\ \/ zone'[d] = zone[d] /\ nextId' = nextId /\ overtaken'[d] = overtaken[d]
            \/ zone[d] = None /\ zone'[d] # None /\ zone'[d].id = nextId /\ nextId' = nextId + 1
            \/ Own(d) /\ Own(d)' /\ zone'[d].id = zone[d].id /\ nextId' = nextId
            \/ /\ Own(d) /\ nextId' = nextId /\ used'["gone"] > 0
               /\ \/ zone'[d] = None
                  \/ /\ zone'[d] # None /\ zone'[d].id = zone[d].id
                     /\ at[d] \in {"patch", "delete"} /\ Is(d, seen[d]) => overtaken'[d]
         /\ used'["gone"] >= used["gone"]
<1>1. ASSUME NEW own \in BOOLEAN, zone[d] = None, Creates(d, own)
      PROVE  /\ zone'[d] # None /\ zone'[d].id = nextId /\ nextId' = nextId + 1
             /\ \A e \in Db : e # d => zone'[e] = zone[e]
  <2>1. [id |-> nextId, own |-> own, good |-> own] \in Record
    BY DEF Record, TypeOK
  <2> QED BY <1>1, <2>1, DnsAssumption DEF Creates, TypeOK
<1>2. used["gone"] \in Nat
  BY DEF TypeOK, Limit
<1>3. CASE LateLands(d)
  <2>1. UNCHANGED <<rowVars, queue, at, seen, retried, overtaken, callVars, used>>
    BY <1>3 DEF LateLands, opVars
  <2>2. CASE zone[d] = None
    <3>1. Creates(d, TRUE)
      BY <1>3, <2>2 DEF LateLands
    <3>2. /\ zone'[d] # None /\ zone'[d].id = nextId /\ nextId' = nextId + 1
          /\ \A e \in Db : e # d => zone'[e] = zone[e]
      BY <1>1, <2>2, <3>1
    <3> QED BY <1>2, <2>1, <2>2, <3>2
  <2>3. CASE zone[d] # None
    BY <1>2, <1>3, <2>1, <2>3 DEF LateLands
  <2> QED BY <2>2, <2>3
<1>4. CASE HandRemoves(d)
  <2>1. used'["gone"] > 0 /\ used'["gone"] >= used["gone"]
    BY <1>2, <1>4, GoneCounts DEF Limit, HandRemoves
  <2>2. zone'[d] = None /\ \A e \in Db : e # d => zone'[e] = zone[e]
    BY <1>4 DEF HandRemoves, TypeOK
  <2> QED BY <1>4, <2>1, <2>2 DEF HandRemoves, opVars
<1>5. ASSUME Own(d), NEW r \in Record, r.id = zone[d].id, zone' = [zone EXCEPT ![d] = r]
      PROVE  /\ zone'[d] # None /\ zone'[d] = r
             /\ \A e \in Db : e # d => zone'[e] = zone[e]
  BY <1>5, DnsAssumption DEF TypeOK
<1>6. CASE HandDisowns(d)
  <2> DEFINE r == [zone[d] EXCEPT !.own = FALSE]
  <2>1. zone[d] \in Record
    BY <1>6 DEF HandDisowns, Own, TypeOK
  <2>2. r \in Record /\ r.id = zone[d].id
    BY <2>1 DEF Record
  <2>3. zone' = [zone EXCEPT ![d] = r]
    BY <1>6 DEF HandDisowns
  <2> HIDE DEF r
  <2>4. /\ zone'[d] # None /\ zone'[d].id = zone[d].id
        /\ \A e \in Db : e # d => zone'[e] = zone[e]
    BY <1>5, <1>6, <2>2, <2>3 DEF HandDisowns
  <2>5. used'["gone"] > 0 /\ used'["gone"] >= used["gone"]
    BY <1>2, <1>6, GoneCounts DEF Limit, HandDisowns
  <2>6. /\ UNCHANGED <<rowVars, queue, at, seen, retried, callVars>> /\ nextId' = nextId
        /\ \A e \in Db : e # d => overtaken'[e] = overtaken[e]
        /\ at[d] \in {"patch", "delete"} /\ Is(d, seen[d]) => overtaken'[d]
    BY <1>6 DEF HandDisowns, TypeOK
  <2> QED BY <1>6, <2>4, <2>5, <2>6 DEF HandDisowns
<1>7. CASE HandRedirects(d)
  <2> DEFINE r == [zone[d] EXCEPT !.good = FALSE]
  <2>1. zone[d] \in Record
    BY <1>7 DEF HandRedirects, Own, TypeOK
  <2>2. r \in Record /\ r.id = zone[d].id /\ r.own = zone[d].own
    BY <2>1 DEF Record
  <2>3. zone' = [zone EXCEPT ![d] = r]
    BY <1>7 DEF HandRedirects
  <2> HIDE DEF r
  <2>4. /\ Own(d)' /\ zone'[d].id = zone[d].id
        /\ \A e \in Db : e # d => zone'[e] = zone[e]
    BY <1>5, <1>7, <2>2, <2>3 DEF HandRedirects, Own
  <2>5. used'["gone"] >= used["gone"]
    BY <1>2, <1>7, GoneCounts DEF Limit, HandRedirects
  <2> QED BY <1>7, <2>4, <2>5 DEF HandRedirects, opVars
<1>8. CASE HandAdds(d)
  <2>1. used'["gone"] >= used["gone"]
    BY <1>2, <1>8, GoneCounts DEF Limit, HandAdds
  <2>2. /\ zone'[d] # None /\ zone'[d].id = nextId /\ nextId' = nextId + 1
        /\ \A e \in Db : e # d => zone'[e] = zone[e]
    BY <1>1, <1>8 DEF HandAdds
  <2> QED BY <1>8, <2>1, <2>2 DEF HandAdds, opVars
<1> QED BY <1>3, <1>4, <1>6, <1>7, <1>8 DEF ZoneStep

\* What may become of a request: it is made, it comes to remove(), it is done.
Moves(k) ==
  \/ call'[k] = call[k]
  \/ call[k].at = "free" /\ call'[k].at = "syncing"
  \/ /\ call[k].at = "free" /\ call'[k].at = "stopping" /\ call'[k].kind = "delete"
     /\ call'[k].db \in Db /\ status'[call'[k].db] = "deleting"
  \/ /\ call[k].at = "stopping" /\ call'[k].at = "removing"
     /\ call'[k].kind = call[k].kind /\ call'[k].db = call[k].db
  \/ call'[k].at = "done" /\ call'[k].kind = call[k].kind /\ call'[k].db = call[k].db

\* The end of an operation is the end of the request it was for.
Answers ==
  \/ call' = call
  \/ \E k \in Call : call' = [call EXCEPT ![k].at = "done"]
  \/ \E k \in Call, f \in BOOLEAN : call' = [call EXCEPT ![k].at = "done", ![k].failed = f]

LEMMA OpAnswers ==
  ASSUME TypeOK, ChainInv, NEW d \in Db, OpStep(d)
  PROVE  Answers
<1>1. queue[d] # <<>>
  BY SyncDoes, RemoveDoes DEF OpStep
<1>2. ASSUME SyncEnds(d)
      PROVE  Answers
  BY <1>2 DEF SyncEnds, Answers
<1>3. ASSUME NEW id, NEW request, Waits(d, request, id)
      PROVE  Answers
  BY <1>3 DEF Waits, Answers, callVars
<1>4. ASSUME NEW f \in BOOLEAN, Head(queue[d]).op = "remove", RemoveEnds(d, f)
      PROVE  Answers
  BY <1>1, <1>4, HeadType DEF RemoveEnds, Answers
<1>5. ASSUME NEW f \in BOOLEAN, Ends(d, f)
      PROVE  Answers
  BY <1>2, <1>4, <1>5 DEF Ends
<1>6. ASSUME NEW why, SyncFails(d, why)
      PROVE  Answers
  BY <1>2, <1>6 DEF SyncFails
<1>7. ASSUME NEW id, Saves(d, id)
      PROVE  Answers
  BY <1>2, <1>3, <1>7 DEF Saves
<1>8. CASE SyncBegins(d) \/ FindAnswered(d) \/ Posted(d) \/ Patched(d) \/ SyncRequestFails(d)
  BY <1>2, <1>3, <1>6, <1>7, <1>8
     DEF SyncBegins, FindAnswered, Posted, Patched, SyncRequestFails
<1>9. CASE AlreadyExists(d)
  BY <1>6, <1>9 DEF AlreadyExists, Answers, callVars
<1>10. CASE RemoveBegins(d) \/ GetAnswered(d) \/ Deleted(d) \/ RemoveRequestFails(d)
  BY <1>3, <1>5, <1>10 DEF RemoveBegins, GetAnswered, Deleted, RemoveRequestFails
<1>11. CASE LookupAnswered(d)
  BY <1>3, <1>4, <1>11 DEF LookupAnswered, Waiting, ChainInv
<1> QED BY <1>8, <1>9, <1>10, <1>11 DEF OpStep

\* Every step moves every request on, or leaves it where it is.
LEMMA CallsMove ==
  ASSUME TypeOK, ChainInv, [Next]_vars, NEW k \in Call
  PROVE  Moves(k)
<1>0. call \in [Call -> Request] /\ call[k] \in Request
  BY DEF TypeOK
<1>1. ASSUME NEW j \in Call, NEW f \in BOOLEAN,
             \/ call' = [call EXCEPT ![j].at = "done"]
             \/ call' = [call EXCEPT ![j].at = "done", ![j].failed = f]
      PROVE  Moves(k)
  <2>1. CASE j # k
    BY <1>0, <1>1, <2>1 DEF Moves
  <2>2. CASE j = k
    <3>1. \/ call'[k] = [call[k] EXCEPT !.at = "done"]
          \/ call'[k] = [call[k] EXCEPT !.at = "done", !.failed = f]
      BY <1>0, <1>1, <2>2
    <3>2. call'[k].at = "done" /\ call'[k].kind = call[k].kind /\ call'[k].db = call[k].db
      BY <1>0, <3>1 DEF Request
    <3> QED BY <3>2 DEF Moves
  <2> QED BY <2>1, <2>2
<1>2. ASSUME NEW d \in Db, OpStep(d)
      PROVE  Moves(k)
  <2>1. Answers
    BY <1>2, OpAnswers
  <2>2. CASE call' = call
    BY <2>2 DEF Moves
  <2> QED BY <1>1, <2>1, <2>2 DEF Answers
<1>3. ASSUME NEW d \in Db, Create(d) \/ StartEnds(d) \/ BootVisits(d) \/ ZoneStep(d)
      PROVE  Moves(k)
  BY <1>3 DEF Create, StartEnds, StartSucceeds, StartFails, BootVisits, ZoneStep, LateLands,
              HandRemoves, HandDisowns, HandRedirects, HandAdds, callVars, Moves
<1>4. ASSUME NEW j \in Call, NEW d \in Db, RequestSync(j, d)
      PROVE  Moves(k)
  <2>1. CASE j # k
    BY <1>0, <1>4, <2>1 DEF RequestSync, Moves
  <2>2. CASE j = k
    <3>1. call'[k] = [call[k] EXCEPT !.kind = "sync", !.at = "syncing", !.db = d]
      BY <1>0, <1>4, <2>2 DEF RequestSync
    <3>2. call'[k].at = "syncing"
      BY <1>0, <3>1 DEF Request
    <3> QED BY <1>4, <2>2, <3>2 DEF RequestSync, Moves
  <2> QED BY <2>1, <2>2
<1>5. ASSUME NEW j \in Call, NEW d \in Db, RequestDelete(j, d)
      PROVE  Moves(k)
  <2>1. CASE j # k
    BY <1>0, <1>5, <2>1 DEF RequestDelete, Moves
  <2>2. CASE j = k
    <3>1. call'[k] = [call[k] EXCEPT !.kind = "delete", !.at = "stopping", !.db = d,
                                     !.id = recordId[d]]
      BY <1>0, <1>5, <2>2 DEF RequestDelete
    <3>2. call'[k].at = "stopping" /\ call'[k].kind = "delete" /\ call'[k].db = d
      BY <1>0, <3>1 DEF Request
    <3>3. status'[d] = "deleting"
      BY <1>5 DEF RequestDelete, TypeOK
    <3> QED BY <1>5, <2>2, <3>2, <3>3 DEF RequestDelete, Moves
  <2> QED BY <2>1, <2>2
<1>6. ASSUME NEW j \in Call, DeleteRemoves(j)
      PROVE  Moves(k)
  <2>1. CASE j # k
    BY <1>0, <1>6, <2>1 DEF DeleteRemoves, Moves
  <2>2. CASE j = k
    <3>1. call'[k] = [call[k] EXCEPT !.at = "removing"]
      BY <1>0, <1>6, <2>2 DEF DeleteRemoves
    <3>2. call'[k].at = "removing" /\ call'[k].kind = call[k].kind /\ call'[k].db = call[k].db
      BY <1>0, <3>1 DEF Request
    <3> QED BY <1>6, <2>2, <3>2 DEF DeleteRemoves, Moves
  <2> QED BY <2>1, <2>2
<1>7. CASE Restart
  <2>1. CASE call[k].at = "free"
    BY <1>7, <2>1 DEF Restart, Moves
  <2>2. CASE call[k].at # "free"
    <3>1. call'[k] = [call[k] EXCEPT !.at = "done"]
      BY <1>7, <2>2 DEF Restart
    <3>2. call'[k].at = "done" /\ call'[k].kind = call[k].kind /\ call'[k].db = call[k].db
      BY <1>0, <3>1 DEF Request
    <3> QED BY <3>2 DEF Moves
  <2> QED BY <2>1, <2>2
<1>8. CASE UNCHANGED vars
  BY <1>8 DEF vars, callVars, Moves
<1> QED BY <1>2, <1>3, <1>4, <1>5, <1>6, <1>7, <1>8 DEF Next

\* A DELETE that has come to remove() stays one.
LEMMA AsksStable ==
  ASSUME TypeOK, ChainInv, [Next]_vars, NEW k \in Call, NEW d, Asks(k, d)
  PROVE  Asks(k, d)'
BY CallsMove DEF Asks, Moves

LEMMA RemovalAskedStable ==
  ASSUME TypeOK, ChainInv, [Next]_vars, NEW d \in Db, RemovalAsked(d)
  PROVE  RemovalAsked(d)'
<1>1. PICK k \in Call : Asks(k, d)
  BY DEF RemovalAsked, Asks
<1>2. Asks(k, d)'
  BY <1>1, AsksStable
<1> QED BY <1>2 DEF RemovalAsked, Asks

-----------------------------------------------------------------------------
(* The invariant, part by part.                                            *)

\* A request of the API leaves the head of a chain where it is.
LEMMA HeadAppend ==
  ASSUME NEW q \in Seq(Op), NEW o \in Op
  PROVE  /\ Append(q, o) # <<>>
         /\ q # <<>> => Head(Append(q, o)) = Head(q)
         /\ Len(Append(q, o)) = Len(q) + 1
         /\ \A i \in 1..Len(q) : Append(q, o)[i] = q[i]
         /\ Append(q, o)[Len(q) + 1] = o
<1>1. Append(q, o) \in Seq(Op) /\ Append(q, o) # <<>> /\ Len(Append(q, o)) = Len(q) + 1
  BY AppendProperties
<1>2. /\ \A i \in 1..Len(q) : Append(q, o)[i] = q[i]
      /\ Append(q, o)[Len(q) + 1] = o
  BY AppendProperties
<1>3. q # <<>> => Head(Append(q, o)) = Head(q)
  BY <1>1, <1>2
<1> QED BY <1>1, <1>2, <1>3

\* No operation counts as a change by hand.
LEMMA OpGone ==
  ASSUME TypeOK, NEW d \in Db, OpStep(d)
  PROVE  used'["gone"] = used["gone"]
<1>1. CASE SyncRequestFails(d)
  BY <1>1, GoneCounts DEF SyncRequestFails, Limit
<1>2. CASE RemoveRequestFails(d)
  BY <1>2, GoneCounts DEF RemoveRequestFails, Limit
<1> QED BY <1>1, <1>2 DEF OpStep, SyncBegins, FindAnswered, Posted, AlreadyExists, Patched,
           RemoveBegins, LookupAnswered, GetAnswered, Deleted

\* What a restart leaves of the operations and of the rows (Restart).
LEMMA RestartDoes ==
  ASSUME TypeOK, Restart
  PROVE  /\ used'["gone"] = used["gone"] /\ UNCHANGED <<recordId, dnsStatus, nextId>>
         /\ \A d \in Db :
              /\ queue'[d] = <<>> /\ at'[d] = "idle"
              /\ status'[d] = status[d] \/ (status[d] = "starting" /\ status'[d] = "live")
<1>1. used'["gone"] = used["gone"]
  BY GoneCounts DEF Restart, Limit
<1> QED BY <1>1 DEF Restart, TypeOK

\* The kinds of steps there are.
LEMMA Kinds ==
  ASSUME TypeOK, StoppingInv, [Next]_vars
  PROVE  \/ AddsOnly
         \/ \E d \in Db : OpStep(d)
         \/ \E d \in Db : ZoneStep(d)
         \/ Restart
         \/ UNCHANGED vars
BY ApiDoes DEF Next

\* An operation, whichever it is, in the terms above.
LEMMA OpDoes ==
  ASSUME TypeOK, ChainInv, NEW d \in Db, OpStep(d)
  PROVE  queue[d] # <<>> /\ Elsewhere(d) /\ (GoesOn(d) \/ Finishes(d)) /\ Changes(d)
BY SyncDoes, RemoveDoes DEF OpStep

LEMMA ChainStep ==
  ASSUME TypeOK, StoppingInv, ChainInv, [Next]_vars
  PROVE  ChainInv'
<1>1. CASE AddsOnly
  <2>1. ASSUME NEW d \in Db, at'[d] # "idle"
        PROVE  queue'[d] # <<>> /\ Head(queue'[d]) = Head(queue[d]) /\ at'[d] = at[d]
    <3>1. at'[d] = at[d] /\ queue[d] # <<>> /\ queue[d] \in Seq(Op)
      BY <1>1, <2>1 DEF AddsOnly, ChainInv, TypeOK
    <3> QED BY <1>1, <3>1, HeadAppend DEF AddsOnly
  <2> QED BY <2>1 DEF ChainInv
<1>2. ASSUME NEW d \in Db, OpStep(d)
      PROVE  ChainInv'
  <2>1. queue[d] # <<>> /\ Elsewhere(d) /\ (GoesOn(d) \/ Finishes(d))
    BY <1>2, OpDoes
  <2> QED BY <2>1 DEF ChainInv, Elsewhere, GoesOn, Finishes
<1>3. ASSUME NEW d \in Db, ZoneStep(d)
      PROVE  ChainInv'
  <2>1. UNCHANGED <<queue, at>>
    BY <1>3, ZoneDoes
  <2> QED BY <2>1 DEF ChainInv
<1>4. CASE Restart
  BY <1>4, RestartDoes DEF ChainInv
<1>5. CASE UNCHANGED vars
  BY <1>5 DEF ChainInv, vars, opVars
<1> QED BY <1>1, <1>2, <1>3, <1>4, <1>5, Kinds

LEMMA IdStep ==
  ASSUME TypeOK, StoppingInv, ChainInv, IdInv, [Next]_vars
  PROVE  IdInv'
<1>0. nextId \in Nat /\ \A d \in Db : zone[d] # None => zone[d].id \in Nat
  BY ZoneIds DEF TypeOK
<1>1. CASE AddsOnly
  BY <1>1 DEF AddsOnly, IdInv, Is, Own
<1>2. ASSUME NEW d \in Db, OpStep(d)
      PROVE  IdInv'
  <2>1. queue[d] # <<>> /\ Elsewhere(d) /\ (GoesOn(d) \/ Finishes(d)) /\ Changes(d)
    BY <1>2, OpDoes
  <2>2. nextId' \in Nat /\ nextId' >= nextId
    BY <1>0, <2>1 DEF Changes
  <2>3. zone'[d] # None => zone'[d].id < nextId'
    BY <1>0, <2>1 DEF Changes, IdInv, Is, Own
  <2>4. at'[d] \in {"patch", "delete"} =>
          seen'[d] \in Nat /\ seen'[d] < nextId' /\ (Is(d, seen[d])' => Own(d)' \/ overtaken'[d])
    BY <1>0, <2>1 DEF GoesOn, Finishes, IdInv, Own, Is
  <2>5. ASSUME NEW e \in Db, e # d
        PROVE  /\ zone'[e] # None => zone'[e].id < nextId'
               /\ at'[e] \in {"patch", "delete"} =>
                    seen'[e] \in Nat /\ seen'[e] < nextId' /\ (Is(e, seen[e])' => Own(e)' \/ overtaken'[e])
    BY <1>0, <2>1, <2>2, <2>5 DEF Elsewhere, IdInv, Own, Is
  <2> QED BY <2>3, <2>4, <2>5 DEF IdInv
<1>3. ASSUME NEW d \in Db, ZoneStep(d)
      PROVE  IdInv'
  <2>1. /\ at' = at /\ seen' = seen
        /\ \A e \in Db : e # d => zone'[e] = zone[e] /\ overtaken'[e] = overtaken[e]
    BY <1>3, ZoneDoes
  <2>2. \/ zone'[d] = zone[d] /\ nextId' = nextId /\ overtaken'[d] = overtaken[d]
        \/ zone[d] = None /\ zone'[d] # None /\ zone'[d].id = nextId /\ nextId' = nextId + 1
        \/ Own(d) /\ Own(d)' /\ zone'[d].id = zone[d].id /\ nextId' = nextId
        \/ /\ Own(d) /\ nextId' = nextId
           /\ \/ zone'[d] = None
              \/ /\ zone'[d] # None /\ zone'[d].id = zone[d].id
                 /\ at[d] \in {"patch", "delete"} /\ Is(d, seen[d]) => overtaken'[d]
    BY <1>3, ZoneDoes
  <2>3. nextId' \in Nat /\ nextId' >= nextId
    BY <1>0, <2>2
  <2>4. zone'[d] # None => zone'[d].id < nextId'
    BY <1>0, <2>2 DEF IdInv, Own
  <2>5. at'[d] \in {"patch", "delete"} =>
          seen'[d] \in Nat /\ seen'[d] < nextId' /\ (Is(d, seen[d])' => Own(d)' \/ overtaken'[d])
    BY <1>0, <2>1, <2>2, <2>3 DEF IdInv, Own, Is
  <2>6. ASSUME NEW e \in Db, e # d
        PROVE  /\ zone'[e] # None => zone'[e].id < nextId'
               /\ at'[e] \in {"patch", "delete"} =>
                    seen'[e] \in Nat /\ seen'[e] < nextId' /\ (Is(e, seen[e])' => Own(e)' \/ overtaken'[e])
    BY <1>0, <2>1, <2>3, <2>6 DEF IdInv, Own, Is
  <2> QED BY <2>4, <2>5, <2>6 DEF IdInv
<1>4. CASE Restart
  <2>1. ASSUME NEW d \in Db
        PROVE  at'[d] = "idle" /\ (zone'[d] # None => zone'[d].id < nextId')
    <3>1. at'[d] = "idle" /\ nextId' = nextId
      BY <1>4, RestartDoes
    <3>2. CASE zone'[d] = zone[d]
      BY <3>1, <3>2 DEF IdInv
    <3>3. CASE at[d] = "patch" /\ zone'[d] = Repaired(d)[d] /\ Is(d, seen[d])
      BY <3>1, <3>3, RepairedType DEF IdInv
    <3>4. CASE at[d] = "delete" /\ zone'[d] = Removed(d)[d]
      BY <3>1, <3>4, RemovedType DEF IdInv
    <3>5. CASE at[d] = "patch" /\ zone'[d] = Repaired(d)[d] /\ ~Is(d, seen[d])
      BY <3>1, <3>5, RepairedType DEF IdInv
    <3> QED BY <1>4, <3>2, <3>3, <3>4, <3>5, RestartZone
  <2> QED BY <2>1 DEF IdInv
<1>5. CASE UNCHANGED vars
  BY <1>5 DEF IdInv, Own, Is, vars, opVars, zoneVars
<1> QED BY <1>1, <1>2, <1>3, <1>4, <1>5, Kinds

\* A row, once there is one, never becomes one that was never made.
LEMMA StatusSteps ==
  ASSUME TypeOK, StoppingInv, ChainInv, [Next]_vars, NEW d \in Db, status[d] # "absent"
  PROVE  status'[d] # "absent"
<1>1. CASE AddsOnly
  BY <1>1 DEF AddsOnly
<1>2. ASSUME NEW e \in Db, OpStep(e)
      PROVE  status'[d] # "absent"
  BY <1>2, OpDoes DEF Elsewhere, GoesOn, Finishes
<1>3. ASSUME NEW e \in Db, ZoneStep(e)
      PROVE  status'[d] # "absent"
  BY <1>3, ZoneDoes DEF rowVars
<1>4. CASE Restart
  BY <1>4, RestartDoes
<1> QED BY <1>1, <1>2, <1>3, <1>4, Kinds DEF vars, rowVars

LEMMA StoppingStep ==
  ASSUME TypeOK, StoppingInv, ChainInv, [Next]_vars
  PROVE  StoppingInv'
<1> SUFFICES ASSUME NEW k \in Call, call'[k].at = "stopping"
             PROVE  /\ call'[k].kind = "delete" /\ call'[k].db \in Db
                    /\ status'[call'[k].db] # "absent"
  BY DEF StoppingInv
<1>1. Moves(k)
  BY CallsMove
<1>2. CASE call'[k] = call[k]
  BY <1>2, StatusSteps DEF StoppingInv
<1>3. CASE /\ call'[k].kind = "delete" /\ call'[k].db \in Db
           /\ status'[call'[k].db] = "deleting"
  BY <1>3
<1> QED BY <1>1, <1>2, <1>3 DEF Moves

\* A removal in a chain stays one that a DELETE asks for.
LEMMA AsksKept ==
  ASSUME TypeOK, ChainInv, AskedInv, [Next]_vars, NEW d \in Db,
         NEW i \in 1..Len(queue[d]), queue[d][i].op = "remove"
  PROVE  /\ call'[queue[d][i].by].kind = "delete"
         /\ call'[queue[d][i].by].db = d
         /\ call'[queue[d][i].by].at \in {"removing", "done"}
<1>1. queue[d][i] \in Op
  BY DEF TypeOK
<1>2. queue[d][i].by \in Call /\ Asks(queue[d][i].by, d)
  BY <1>1 DEF AskedInv, Op
<1> QED BY <1>2, CallsMove DEF Asks, Moves

\* A removal, or what a vanished row's sync left, is asked for by a DELETE.
LEMMA AskedStep ==
  ASSUME TypeOK, StoppingInv, ChainInv, AskedInv, [Next]_vars
  PROVE  AskedInv'
<1>0. \A d \in Db : queue[d] \in Seq(Op) /\ Len(queue[d]) \in Nat
  BY DEF TypeOK
<1>1. ASSUME NEW d \in Db, queue'[d] = queue[d] \/ queue'[d] = <<>>
      PROVE  \A i \in 1..Len(queue'[d]) :
               queue'[d][i].op = "remove" => Asks(queue[d][i].by, d)'
  BY <1>0, <1>1, AsksKept DEF Asks
<1>2. CASE AddsOnly
  <2>1. ASSUME NEW d \in Db
        PROVE  queue'[d] # <<>> => status'[d] # "absent"
    BY <1>2, StatusSteps DEF AddsOnly, AskedInv
  <2>2. ASSUME NEW d \in Db, status'[d] = "deleted" \/ at'[d] \in {"lookup", "get", "delete"}
        PROVE  RemovalAsked(d)'
    <3>1. RemovalAsked(d)
      BY <1>2, <2>2 DEF AddsOnly, AskedInv
    <3> QED BY <3>1, RemovalAskedStable
  <2>3. ASSUME NEW d \in Db, NEW i \in 1..Len(queue'[d]), queue'[d][i].op = "remove"
        PROVE  Asks(queue[d][i].by, d)'
    <3>1. CASE queue'[d] = queue[d]
      BY <1>1, <2>3, <3>1
    <3>2. ASSUME NEW o \in Op, queue'[d] = Append(queue[d], o),
                 o.op = "remove" => call'[o.by].at = "removing"
                   /\ call'[o.by].kind = "delete" /\ call'[o.by].db = d
          PROVE  Asks(queue[d][i].by, d)'
      <4>1. CASE i = Len(queue[d]) + 1
        <5>1. queue'[d][i] = o
          BY <1>0, <3>2, <4>1, HeadAppend
        <5> QED BY <2>3, <3>2, <5>1 DEF Asks
      <4>2. CASE i # Len(queue[d]) + 1
        <5>1. i \in 1..Len(queue[d])
          BY <1>0, <2>3, <3>2, <4>2, HeadAppend
        <5>2. queue'[d][i] = queue[d][i]
          BY <1>0, <3>2, <5>1, HeadAppend
        <5> QED BY <2>3, <5>1, <5>2, AsksKept DEF Asks
      <4> QED BY <4>1, <4>2
    <3> QED BY <1>2, <3>1, <3>2 DEF AddsOnly
  <2> QED BY <2>1, <2>2, <2>3 DEF AskedInv
<1>3. ASSUME NEW d \in Db, OpStep(d)
      PROVE  AskedInv'
  <2>1. queue[d] # <<>> /\ Elsewhere(d) /\ (GoesOn(d) \/ Finishes(d))
    BY <1>3, OpDoes
  <2>2. Head(queue[d]).op = "remove" => RemovalAsked(d)
    <3>1. 1 \in 1..Len(queue[d]) /\ Head(queue[d]) = queue[d][1]
      BY <1>0, <2>1
    <3>2. queue[d][1] \in Op
      BY <1>0, <3>1
    <3>3. queue[d][1].op = "remove" => queue[d][1].by \in Call /\ Asks(queue[d][1].by, d)
      BY <3>1, <3>2 DEF AskedInv, Op
    <3> QED BY <3>1, <3>3 DEF RemovalAsked, Asks
  <2>3. ~Exists(d) => RemovalAsked(d)
    BY <2>1 DEF AskedInv, Exists, TypeOK
  <2>4. ASSUME status'[d] = "deleted" \/ at'[d] \in {"lookup", "get", "delete"}
        PROVE  RemovalAsked(d)'
    <3>1. RemovalAsked(d)
      BY <2>1, <2>2, <2>3, <2>4 DEF GoesOn, Finishes, AskedInv
    <3> QED BY <3>1, RemovalAskedStable
  <2>5. ASSUME NEW i \in 1..Len(queue'[d]), queue'[d][i].op = "remove"
        PROVE  Asks(queue[d][i].by, d)'
    <3>1. CASE queue'[d] = queue[d]
      BY <1>1, <2>5, <3>1
    <3>2. CASE queue'[d] = Tail(queue[d])
      <4>1. /\ i + 1 \in 1..Len(queue[d]) /\ queue'[d][i] = queue[d][i + 1]
        BY <1>0, <2>1, <2>5, <3>2
      <4> QED BY <2>5, <4>1, AsksKept DEF Asks
    <3> QED BY <2>1, <3>1, <3>2 DEF GoesOn, Finishes
  <2>6. queue'[d] # <<>> => status'[d] # "absent"
    BY <2>1, StatusSteps DEF AskedInv
  <2>7. ASSUME NEW e \in Db, e # d
        PROVE  /\ queue'[e] # <<>> => status'[e] # "absent"
               /\ status'[e] = "deleted" \/ at'[e] \in {"lookup", "get", "delete"}
                    => RemovalAsked(e)'
               /\ \A i \in 1..Len(queue'[e]) :
                    queue'[e][i].op = "remove" => Asks(queue[e][i].by, e)'
    <3>1. queue'[e] = queue[e] /\ at'[e] = at[e] /\ status'[e] = status[e]
      BY <2>1, <2>7 DEF Elsewhere
    <3>2. status'[e] = "deleted" \/ at'[e] \in {"lookup", "get", "delete"} => RemovalAsked(e)'
      BY <3>1, RemovalAskedStable DEF AskedInv
    <3> QED BY <1>1, <3>1, <3>2 DEF AskedInv
  <2> QED BY <2>4, <2>5, <2>6, <2>7 DEF AskedInv
<1>4. ASSUME UNCHANGED <<queue, at, status>>
      PROVE  AskedInv'
  BY <1>1, <1>4, RemovalAskedStable DEF AskedInv
<1>5. ASSUME NEW d \in Db, ZoneStep(d)
      PROVE  AskedInv'
  BY <1>4, <1>5, ZoneDoes DEF rowVars, opVars
<1>6. CASE Restart
  <2>1. ASSUME NEW d \in Db
        PROVE  /\ queue'[d] = <<>> /\ at'[d] = "idle"
               /\ status'[d] = "deleted" => RemovalAsked(d)'
    BY <1>6, RestartDoes, RemovalAskedStable DEF AskedInv
  <2> QED BY <1>1, <2>1 DEF AskedInv
<1>7. CASE UNCHANGED vars
  BY <1>4, <1>7 DEF vars, rowVars, opVars
<1> QED BY <1>2, <1>3, <1>5, <1>6, <1>7, Kinds

\* A row that says "active" keeps its record: only remove() and an operator
\* take it away.
LEMMA ActiveStep ==
  ASSUME IInv, [Next]_vars
  PROVE  ActiveIsPublished'
<1> USE DEF IInv
<1>1. used["gone"] \in Nat
  BY DEF TypeOK, Limit
<1>2. ASSUME NEW d \in Db, dnsStatus[d] = "active", recordId'[d] = recordId[d],
             zone'[d] = zone[d] \/ (Own(d) => Own(d)' /\ zone'[d].id = zone[d].id),
             used["gone"] = 0, ~RemovalAsked(d)'
      PROVE  Own(d)' /\ zone'[d].id = recordId'[d]
  <2>1. Own(d) /\ zone[d].id = recordId[d]
    BY <1>2, RemovalAskedStable DEF ActiveIsPublished
  <2> QED BY <1>2, <2>1 DEF Own
<1>3. CASE AddsOnly
  <2>1. UNCHANGED <<recordId, dnsStatus, zone, used>>
    BY <1>3 DEF AddsOnly
  <2> QED BY <1>2, <2>1 DEF ActiveIsPublished
<1>4. ASSUME NEW d \in Db, OpStep(d)
      PROVE  ActiveIsPublished'
  <2>1. queue[d] # <<>> /\ Elsewhere(d) /\ (GoesOn(d) \/ Finishes(d)) /\ Changes(d)
    BY <1>4, OpDoes
  <2>2. used'["gone"] = used["gone"]
    BY <1>4, OpGone
  <2>3. ASSUME dnsStatus'[d] = "active", used["gone"] = 0, ~RemovalAsked(d)'
        PROVE  Own(d)' /\ zone'[d].id = recordId'[d]
    <3>1. at[d] # "delete"
      BY <2>3, RemovalAskedStable DEF AskedInv
    <3>2. zone'[d] = zone[d] \/ (Own(d) => Own(d)' /\ zone'[d].id = zone[d].id)
      BY <2>1, <3>1 DEF Changes, Own
    <3> QED BY <1>2, <2>1, <2>3, <3>2 DEF GoesOn, Finishes
  <2>4. ASSUME NEW e \in Db, e # d, dnsStatus'[e] = "active", used["gone"] = 0, ~RemovalAsked(e)'
        PROVE  Own(e)' /\ zone'[e].id = recordId'[e]
    BY <1>2, <2>1, <2>4 DEF Elsewhere
  <2> QED BY <2>2, <2>3, <2>4 DEF ActiveIsPublished
<1>5. ASSUME NEW d \in Db, ZoneStep(d)
      PROVE  ActiveIsPublished'
  <2>1. UNCHANGED <<recordId, dnsStatus>> /\ \A e \in Db : e # d => zone'[e] = zone[e]
    BY <1>5, ZoneDoes DEF rowVars
  <2>2. ASSUME used'["gone"] = 0
        PROVE  /\ used["gone"] = 0
               /\ zone'[d] = zone[d] \/ (Own(d) => Own(d)' /\ zone'[d].id = zone[d].id)
    <3>1. used["gone"] = 0
      BY <1>1, <1>5, <2>2, ZoneDoes
    <3>2. \/ zone'[d] = zone[d]
          \/ zone[d] = None
          \/ Own(d) /\ Own(d)' /\ zone'[d].id = zone[d].id
      BY <1>5, <2>2, ZoneDoes
    <3> QED BY <3>1, <3>2 DEF Own
  <2> QED BY <1>2, <2>1, <2>2 DEF ActiveIsPublished
<1>6. CASE Restart
  <2>1. used'["gone"] = used["gone"] /\ UNCHANGED <<recordId, dnsStatus>>
    BY <1>6, RestartDoes
  <2>2. ASSUME NEW d \in Db, ~RemovalAsked(d)'
        PROVE  zone'[d] = zone[d] \/ (Own(d) => Own(d)' /\ zone'[d].id = zone[d].id)
    <3>1. at[d] # "delete"
      BY <2>2, RemovalAskedStable DEF AskedInv
    <3>2. CASE zone'[d] = Repaired(d)[d] /\ Is(d, seen[d])
      BY <3>2, RepairedType DEF Own, Is
    <3>3. CASE zone'[d] = Repaired(d)[d] /\ ~Is(d, seen[d])
      BY <3>3, RepairedType
    <3> QED BY <1>6, <3>1, <3>2, <3>3, RestartZone
  <2> QED BY <1>2, <2>1, <2>2 DEF ActiveIsPublished
<1>7. CASE UNCHANGED vars
  <2>1. UNCHANGED <<recordId, dnsStatus, zone, used>>
    BY <1>7 DEF vars, rowVars, zoneVars
  <2> QED BY <1>2, <2>1 DEF ActiveIsPublished
<1> QED BY <1>3, <1>4, <1>5, <1>6, <1>7, Kinds

-----------------------------------------------------------------------------
(* The theorems.                                                           *)

LEMMA InvInit ==
  Init => IInv
<1> SUFFICES ASSUME Init
             PROVE  IInv
  OBVIOUS
<1>1. TypeOK
  BY TypeInit
<1>2. \A d \in Db : queue[d] = <<>> /\ at[d] = "idle" /\ zone[d] = None
  BY DEF Init
<1>3. /\ \A d \in Db : status[d] = "absent" /\ dnsStatus[d] = "none"
      /\ \A k \in Call : call[k].at = "free"
  BY DEF Init
<1>4. ChainInv /\ IdInv /\ AskedInv
  BY <1>2, <1>3 DEF ChainInv, IdInv, AskedInv
<1>5. StoppingInv /\ ActiveIsPublished
  BY <1>3 DEF StoppingInv, ActiveIsPublished
<1> QED BY <1>1, <1>4, <1>5 DEF IInv

LEMMA InvStep ==
  IInv /\ [Next]_vars => IInv'
<1> SUFFICES ASSUME IInv, [Next]_vars
             PROVE  IInv'
  OBVIOUS
<1>1. TypeOK' /\ ChainInv' /\ IdInv'
  BY TypeStep, ChainStep, IdStep DEF IInv
<1>2. AskedInv' /\ StoppingInv'
  BY AskedStep, StoppingStep DEF IInv
<1> QED BY <1>1, <1>2, ActiveStep DEF IInv

LEMMA Inductive ==
  Spec => []IInv
BY InvInit, InvStep, PTL DEF Spec

\* DnsManager keeps its chains and the rows well formed.
THEOREM TypeCorrect ==
  Spec => []TypeOK
<1>1. IInv => TypeOK
  BY DEF IInv
<1> QED BY <1>1, Inductive, PTL

\* A row that says "active" names the record at its hostname (syncLocked).
THEOREM ActiveAlwaysPublished ==
  Spec => []ActiveIsPublished
<1>1. IInv => ActiveIsPublished
  BY DEF IInv
<1> QED BY <1>1, Inductive, PTL

\* A record whose comment was not this database's when it was read is never
\* changed (cloudflare.ts:6-8).
THEOREM ForeignNeverTouched ==
  Spec => ForeignUntouched
<1>1. ASSUME IInv, [Next]_vars
      PROVE  [\A d \in Db : Foreign(d) /\ ~overtaken[d] => zone'[d] = zone[d]]_vars
  <2> USE <1>1 DEF IInv
  <2> SUFFICES ASSUME NEW d \in Db, Foreign(d), ~overtaken[d]
               PROVE  zone'[d] = zone[d]
    OBVIOUS
  <2>0. zone[d] # None /\ ~Own(d)
    BY DEF Foreign, Own
  <2>1. CASE AddsOnly
    BY <2>1 DEF AddsOnly
  <2>2. ASSUME NEW e \in Db, OpStep(e)
        PROVE  zone'[d] = zone[d]
    <3>1. Elsewhere(e) /\ Changes(e)
      BY <2>2, OpDoes
    <3>2. CASE e # d
      BY <3>1, <3>2 DEF Elsewhere
    <3>3. CASE e = d
      BY <2>0, <3>1, <3>3 DEF Changes, IdInv
    <3> QED BY <3>2, <3>3
  <2>3. ASSUME NEW e \in Db, ZoneStep(e)
        PROVE  zone'[d] = zone[d]
    BY <2>0, <2>3, ZoneDoes
  <2>4. CASE Restart
    <3>1. CASE ~Is(d, seen[d])
      BY <2>4, <3>1, RestartZone, RepairedType, RemovedType
    <3>2. CASE Is(d, seen[d])
      BY <2>0, <2>4, <3>2, RestartZone DEF IdInv
    <3> QED BY <3>1, <3>2
  <2> QED BY <2>1, <2>2, <2>3, <2>4, Kinds DEF vars, zoneVars
<1> QED BY <1>1, Inductive, PTL DEF Spec, ForeignUntouched

----------------------------------------------------------------------------
(* What a DELETE leaves behind.                                            *)

\* deleteOwned() is always about some id.
GetInv == \A d \in Db : at[d] = "get" => seen[d] # None

\* A record that is to be taken back is one Cloudflare named (Saves).
LEMMA SavesNames ==
  ASSUME TypeOK, NEW d \in Db, NEW id \in Nat, Saves(d, id), at'[d] = "get"
  PROVE  seen'[d] # None
<1>1. CASE Exists(d)
  <2>1. SyncEnds(d)
    BY <1>1 DEF Saves
  <2> QED BY <2>1, SyncEndsDoes
<1>2. CASE ~Exists(d)
  <2>1. Waits(d, "get", id)
    BY <1>2 DEF Saves
  <2> QED BY <2>1, WaitsDoes, DnsAssumption
<1> QED BY <1>1, <1>2

\* The requests of an operation name an id before they ask for it.
LEMMA OpNames ==
  ASSUME TypeOK, ChainInv, IdInv, NEW d \in Db, OpStep(d), at'[d] = "get"
  PROVE  seen'[d] # None
<1>z. \A r \in Record : r.id \in Nat
  BY DEF Record
<1>0. (zone[d] # None => zone[d].id \in Nat) /\ nextId \in Nat
  BY <1>z DEF TypeOK
<1>1. ASSUME NEW why \in {"conflict", "error"}, SyncFails(d, why) PROVE FALSE
  <2>1. SyncEnds(d)
    BY <1>1 DEF SyncFails
  <2> QED BY <2>1, SyncEndsDoes
<1>2. ASSUME NEW failed \in BOOLEAN, Ends(d, failed) PROVE FALSE
  <2>1. SyncEnds(d) \/ RemoveEnds(d, failed)
    BY <1>2 DEF Ends
  <2> QED BY <2>1, SyncEndsDoes, RemoveEndsDoes
<1>3. CASE SyncBegins(d)
  <2>1. Waits(d, "find", None) \/ SyncEnds(d)
    BY <1>3 DEF SyncBegins
  <2> QED BY <2>1, WaitsDoes, SyncEndsDoes
<1>4. CASE FindAnswered(d)
  <2>1. \/ Waits(d, "post", None) \/ Waits(d, "patch", zone[d].id)
        \/ SyncFails(d, "conflict")
        \/ zone[d] # None /\ Saves(d, zone[d].id)
    BY <1>4 DEF FindAnswered, Own
  <2> QED BY <1>0, <1>1, <2>1, WaitsDoes, SavesNames
<1>5. CASE Posted(d)
  BY <1>0, <1>5, SavesNames DEF Posted
<1>6. CASE AlreadyExists(d)
  <2>1. SyncFails(d, "error") \/ at' = [at EXCEPT ![d] = "find"]
    BY <1>6 DEF AlreadyExists
  <2> QED BY <1>1, <2>1 DEF TypeOK
<1>7. CASE Patched(d)
  <2>1. SyncFails(d, "error") \/ (Is(d, seen[d]) /\ Saves(d, seen[d]))
    BY <1>7 DEF Patched
  <2>2. Is(d, seen[d]) => seen[d] \in Nat
    BY <1>0 DEF Is
  <2> QED BY <1>1, <2>1, <2>2, SavesNames
<1>8. CASE SyncRequestFails(d)
  BY <1>1, <1>8 DEF SyncRequestFails
<1>9. CASE RemoveBegins(d)
  <2> DEFINE id == IF Exists(d) THEN recordId[d] ELSE call[Head(queue[d]).by].id
  <2>1. Waits(d, IF id = None THEN "lookup" ELSE "get", id)
    BY <1>9 DEF RemoveBegins
  <2> HIDE DEF id
  <2>2. at'[d] = (IF id = None THEN "lookup" ELSE "get") /\ seen'[d] = id
    BY <2>1, WaitsDoes
  <2> QED BY <2>2
<1>10. CASE LookupAnswered(d)
  <2>1. (zone[d] # None /\ Waits(d, "get", zone[d].id)) \/ RemoveEnds(d, FALSE)
    BY <1>10 DEF LookupAnswered, Own
  <2>2. ~RemoveEnds(d, FALSE)
    BY RemoveEndsDoes
  <2>3. seen'[d] = zone[d].id
    BY <2>1, <2>2 DEF Waits, TypeOK
  <2> QED BY <1>0, <2>1, <2>2, <2>3, DnsAssumption
<1>11. CASE GetAnswered(d)
  <2>1. Ends(d, FALSE) \/ Ends(d, TRUE) \/ Waits(d, "delete", seen[d])
    BY <1>11 DEF GetAnswered
  <2>2. ~Waits(d, "delete", seen[d])
    BY WaitsDoes
  <2> QED BY <1>2, <2>1, <2>2
<1>12. CASE Deleted(d)
  <2>1. Ends(d, ~Is(d, seen[d])) /\ (~Is(d, seen[d])) \in BOOLEAN
    BY <1>12 DEF Deleted
  <2> QED BY <1>2, <2>1
<1>13. CASE RemoveRequestFails(d)
  BY <1>2, <1>13 DEF RemoveRequestFails
<1> QED BY <1>3, <1>4, <1>5, <1>6, <1>7, <1>8, <1>9, <1>10, <1>11, <1>12, <1>13 DEF OpStep

\* No step makes deleteOwned() ask about nothing.
LEMMA GetStep == IInv /\ GetInv /\ [Next]_vars => GetInv'
<1> SUFFICES ASSUME IInv, GetInv, [Next]_vars, NEW d \in Db, at'[d] = "get"
             PROVE  seen'[d] # None
  BY DEF GetInv
<1> USE DEF IInv
<1>1. CASE AddsOnly
  BY <1>1 DEF AddsOnly, GetInv
<1>2. ASSUME NEW e \in Db, OpStep(e) PROVE seen'[d] # None
  <2>1. CASE e = d
    BY <1>2, <2>1, OpNames
  <2>2. CASE e # d
    BY <1>2, <2>2, OpDoes DEF Elsewhere, GetInv
  <2> QED BY <2>1, <2>2
<1>3. ASSUME NEW e \in Db, ZoneStep(e) PROVE seen'[d] # None
  BY <1>3, ZoneDoes DEF opVars, GetInv
<1>4. CASE Restart
  BY <1>4, RestartDoes
<1>5. CASE UNCHANGED vars
  BY <1>5 DEF vars, opVars, GetInv
<1> QED BY <1>1, <1>2, <1>3, <1>4, <1>5, Kinds

\* A removal that ends well has seen that nothing of ours is there, has removed
\* what it was about, or was about a record that is not there.
LEMMA RemovalLeaves ==
  ASSUME IInv, GetInv, NEW d \in Db, OpStep(d), Exists(d), status'[d] = "deleted",
         ~call'[Head(queue[d]).by].failed, Own(d)'
  PROVE  seen[d] \notin {None, zone'[d].id}
<1> USE DEF IInv
<1> DEFINE k == Head(queue[d]).by
<1>0. status[d] # "deleted" /\ queue[d] # <<>>
  BY OpDoes DEF Exists
<1>1. ASSUME SyncEnds(d) PROVE FALSE
  BY <1>0, <1>1 DEF SyncEnds
<1>2. ASSUME NEW failed \in BOOLEAN, RemoveEnds(d, failed), Head(queue[d]).op = "remove"
      PROVE  ~failed
  <2>1. k \in Call
    BY <1>0, <1>2, HeadType
  <2>2. call[k] \in Request
    BY <2>1 DEF TypeOK
  <2>c. call' = [call EXCEPT ![k].at = "done", ![k].failed = failed]
    BY <1>2 DEF RemoveEnds
  <2> HIDE DEF k
  <2>3. call'[k] = [call[k] EXCEPT !.at = "done", !.failed = failed]
    BY <2>1, <2>c DEF TypeOK
  <2>4. call'[k].failed = failed
    BY <2>2, <2>3 DEF Request
  <2>5. ~call'[k].failed
    BY DEF k
  <2> QED BY <2>4, <2>5
<1>3. ASSUME NEW failed \in BOOLEAN, Ends(d, failed) PROVE ~failed
  <2>1. CASE Head(queue[d]).op = "remove"
    BY <1>2, <1>3, <2>1 DEF Ends
  <2>2. CASE Head(queue[d]).op # "remove"
    BY <1>1, <1>3, <2>2 DEF Ends
  <2> QED BY <2>1, <2>2
<1>4. ASSUME NEW request, NEW id, Waits(d, request, id) PROVE FALSE
  BY <1>0, <1>4, WaitsDoes
<1>5. ASSUME NEW why, SyncFails(d, why) PROVE FALSE
  BY <1>1, <1>5 DEF SyncFails
<1>6. ASSUME NEW id, Saves(d, id) PROVE FALSE
  BY <1>1, <1>4, <1>6 DEF Saves
<1>7. ~SyncBegins(d) /\ ~FindAnswered(d) /\ ~Posted(d) /\ ~Patched(d) /\ ~SyncRequestFails(d)
  BY <1>1, <1>4, <1>5, <1>6 DEF SyncBegins, FindAnswered, Posted, Patched, SyncRequestFails
<1>8. ~AlreadyExists(d)
  <2> SUFFICES ASSUME AlreadyExists(d) PROVE FALSE
    OBVIOUS
  <2>1. SyncFails(d, "error") \/ status' = status
    BY DEF AlreadyExists, rowVars
  <2> QED BY <1>0, <1>5, <2>1
<1>9. ~RemoveBegins(d)
  BY <1>4 DEF RemoveBegins
<1>10. CASE LookupAnswered(d)
  <2>1. ~Own(d) /\ zone' = zone
    BY <1>4, <1>10 DEF LookupAnswered, zoneVars
  <2> QED BY <2>1 DEF Own
<1>11. CASE GetAnswered(d)
  <2>1. ~Is(d, seen[d]) /\ zone' = zone /\ at[d] = "get"
    BY <1>3, <1>4, <1>11 DEF GetAnswered, Waiting, zoneVars
  <2>2. zone[d] # None
    BY <2>1 DEF Own
  <2> QED BY <2>1, <2>2 DEF Is, GetInv
<1>12. CASE Deleted(d)
  <2>1. zone' = Removed(d) /\ Ends(d, ~Is(d, seen[d])) /\ (~Is(d, seen[d])) \in BOOLEAN
    BY <1>12 DEF Deleted
  <2>2. Is(d, seen[d])
    BY <1>3, <2>1
  <2>3. zone'[d] = None
    BY <2>1, <2>2 DEF Removed, TypeOK
  <2> QED BY <2>3 DEF Own
<1>13. CASE RemoveRequestFails(d)
  BY <1>3, <1>13 DEF RemoveRequestFails
<1> QED BY <1>7, <1>8, <1>9, <1>10, <1>11, <1>12, <1>13 DEF OpStep

\* DELETE leaves no record of ours when each request of its remove() succeeded,
\* not even one whose POST was thought to have failed; unless remove() was
\* pointed at another one, by a saved id that names no record
\* (dns/manager.ts:67-80).
THEOREM DeleteLeavesNoRecord ==
  Spec => LeavesNoRecord
<1>1. Init => GetInv
  BY DEF Init, GetInv
<1>2. Spec => []GetInv
  BY <1>1, GetStep, Inductive, PTL DEF Spec
<1>3. ASSUME IInv, GetInv, [Next]_vars
      PROVE  [\A d \in Db :
               DropsRow(d) /\ ~call'[Head(queue[d]).by].failed /\ Own(d)' =>
                 seen[d] \notin {None, zone'[d].id}]_vars
  <2> USE <1>3 DEF IInv
  <2> SUFFICES ASSUME NEW d \in Db, Exists(d), status'[d] = "deleted",
                      ~call'[Head(queue[d]).by].failed, Own(d)'
               PROVE  seen[d] \notin {None, zone'[d].id}
    BY DEF DropsRow
  <2>0. status[d] # "deleted"
    BY DEF Exists
  <2>1. ~AddsOnly
    BY <2>0 DEF AddsOnly
  <2>2. ASSUME NEW e \in Db, OpStep(e) PROVE e = d
    BY <2>0, <2>2, OpDoes DEF Elsewhere
  <2>3. ~\E e \in Db : ZoneStep(e)
    BY <2>0, ZoneDoes DEF rowVars
  <2>4. ~Restart
    BY <2>0, RestartDoes
  <2>5. vars' # vars
    BY <2>0 DEF vars, rowVars
  <2> QED BY <2>1, <2>2, <2>3, <2>4, <2>5, Kinds, RemovalLeaves
<1> QED BY <1>2, <1>3, Inductive, PTL DEF Spec, LeavesNoRecord
=============================================================================
