-------------------------------- MODULE Dns --------------------------------
(***************************************************************************)
(* The Cloudflare record of each database (dns/manager.ts, DnsManager, and *)
(* dns/cloudflare.ts): sync and remove are chained per database, and each  *)
(* request to Cloudflare may fail, or take effect although its answer is   *)
(* lost.  A hostname belongs to one row, and a name with a CNAME has no    *)
(* other record, so the zone holds at most one record per database.        *)
(***************************************************************************)
EXTENDS Naturals, Sequences

CONSTANTS
  Db,       \* the ids of rows, never reused
  Call,     \* POST /databases/:id/dns/sync and DELETE /databases/:id
  None,     \* no record, no id, no database
  MaxFail,  \* bound: requests to Cloudflare that fail
  MaxBoot,  \* bound: restarts of the server
  MaxGone,  \* bound: records of ours that an operator removes or takes over
  MaxHand   \* bound: other changes an operator makes in the zone

\* A record: its comment is this database's, and it points at the tunnel.
Record == [id : Nat, own : BOOLEAN, good : BOOLEAN]

ASSUME DnsAssumption ==
  /\ None \notin Nat \cup Db \cup Record
  /\ {"create", "boot"} \cap Call = {}

VARIABLES
  status,     \* of the row, if there is one
  recordId,   \* its column dns_record_id
  dnsStatus,  \* its column dns_status
  zone,       \* the record at the row's hostname
  nextId,     \* Cloudflare's next record id
  late,       \* a POST the server no longer waits for may still arrive
  queue,      \* the chain of withLock
  at,         \* the request its head waits for
  seen,       \* the record that request is about
  retried,    \* ensureCname() reads the name for the second time
  overtaken,  \* history: the record was taken over since it was read as ours
  create,     \* the request that made the row
  call,       \* the other requests
  boot,       \* the rows reconcileAll() has still to visit
  used        \* how often each bounded event happened

rowVars == <<status, recordId, dnsStatus>>
zoneVars == <<zone, nextId, late>>
opVars == <<queue, at, seen, retried, overtaken>>
callVars == <<create, call, boot>>
vars == <<rowVars, zoneVars, opVars, callVars, used>>

Limit == [fail |-> MaxFail, boot |-> MaxBoot, gone |-> MaxGone, hand |-> MaxHand]

Happens(e) == used[e] < Limit[e] /\ used' = [used EXCEPT ![e] = @ + 1]

Op == [op : {"sync"}, by : Call \cup {"create", "boot"}] \cup [op : {"remove"}, by : Call]
Request == [kind : {"none", "sync", "delete"},
            at : {"free", "stopping", "syncing", "removing", "done"},
            db : Db \cup {None}, id : Nat \cup {None}, failed : BOOLEAN]

TypeOK ==
  /\ status \in [Db -> {"absent", "starting", "live", "deleting", "deleted"}]
  /\ recordId \in [Db -> Nat \cup {None}]
  /\ dnsStatus \in [Db -> {"none", "active", "conflict", "error"}]
  /\ zone \in [Db -> Record \cup {None}]
  /\ nextId \in Nat
  /\ late \in [Db -> BOOLEAN]
  /\ queue \in [Db -> Seq(Op)]
  /\ at \in [Db -> {"idle", "find", "post", "patch", "lookup", "get", "delete"}]
  /\ seen \in [Db -> Nat \cup {None}]
  /\ retried \in [Db -> BOOLEAN]
  /\ overtaken \in [Db -> BOOLEAN]
  /\ create \in [Db -> {"none", "starting", "syncing", "done"}]
  /\ call \in [Call -> Request]
  /\ boot \in SUBSET Db
  /\ used \in [DOMAIN Limit -> Nat]

Exists(d) == status[d] \in {"starting", "live", "deleting"}

\* The comment of a record is this database's, exactly.
Own(d) == zone[d] # None /\ zone[d].own
Foreign(d) == zone[d] # None /\ ~zone[d].own
Is(d, id) == zone[d] # None /\ zone[d].id = id

Init ==
  /\ status = [d \in Db |-> "absent"]
  /\ recordId = [d \in Db |-> None]
  /\ dnsStatus = [d \in Db |-> "none"]
  /\ zone = [d \in Db |-> None]
  /\ nextId = 0
  /\ late = [d \in Db |-> FALSE]
  /\ queue = [d \in Db |-> <<>>]
  /\ at = [d \in Db |-> "idle"]
  /\ seen = [d \in Db |-> None]
  /\ retried = [d \in Db |-> FALSE]
  /\ overtaken = [d \in Db |-> FALSE]
  /\ create = [d \in Db |-> "none"]
  /\ call = [k \in Call |-> [kind |-> "none", at |-> "free", db |-> None, id |-> None,
                            failed |-> FALSE]]
  /\ boot = {}
  /\ used = [e \in DOMAIN Limit |-> 0]

-----------------------------------------------------------------------------
(* The requests of the API.                                                *)

Enqueue(d, op, by) == queue' = [queue EXCEPT ![d] = Append(@, [op |-> op, by |-> by])]

\* POST databases, restore or import up to startDatabase().
Create(d) ==
  /\ status[d] = "absent"
  /\ status' = [status EXCEPT ![d] = "starting"]
  /\ create' = [create EXCEPT ![d] = "starting"]
  /\ UNCHANGED <<recordId, dnsStatus, zoneVars, opVars, call, boot, used>>

\* A start in flight writes "running" or "failed", over "deleting" too; a
\* successful one is followed by sync().
StartSucceeds(d) ==
  /\ create[d] = "starting"
  /\ status' = [status EXCEPT ![d] = "live"]
  /\ create' = [create EXCEPT ![d] = "syncing"]
  /\ Enqueue(d, "sync", "create")
  /\ UNCHANGED <<recordId, dnsStatus, zoneVars, at, seen, retried, overtaken, call, boot, used>>

StartFails(d) ==
  /\ create[d] = "starting"
  /\ status' = [status EXCEPT ![d] = "live"]
  /\ create' = [create EXCEPT ![d] = "done"]
  /\ UNCHANGED <<recordId, dnsStatus, zoneVars, opVars, call, boot, used>>

RequestSync(k, d) ==
  /\ call[k].at = "free"
  /\ Exists(d)
  /\ call' = [call EXCEPT ![k].kind = "sync", ![k].at = "syncing", ![k].db = d]
  /\ Enqueue(d, "sync", k)
  /\ UNCHANGED <<rowVars, zoneVars, at, seen, retried, overtaken, create, boot, used>>

\* DELETE reads the row, marks it and waits for the process to stop.
RequestDelete(k, d) ==
  /\ call[k].at = "free"
  /\ Exists(d)
  /\ status' = [status EXCEPT ![d] = "deleting"]
  /\ call' = [call EXCEPT ![k].kind = "delete", ![k].at = "stopping", ![k].db = d,
                        ![k].id = recordId[d]]
  /\ UNCHANGED <<recordId, dnsStatus, zoneVars, opVars, create, boot, used>>

\* The process is dead, which waits for a start before it; the files are gone.
DeleteRemoves(k) ==
  /\ call[k].at = "stopping"
  /\ create[call[k].db] # "starting"
  /\ call' = [call EXCEPT ![k].at = "removing"]
  /\ Enqueue(call[k].db, "remove", k)
  /\ UNCHANGED <<rowVars, zoneVars, at, seen, retried, overtaken, create, boot, used>>

\* reconcileAll() at its next row, when its sync() before has ended.
BootVisits(d) ==
  /\ d \in boot
  /\ \A e \in Db : \A i \in DOMAIN queue[e] : queue[e][i].by # "boot"
  /\ boot' = boot \ {d}
  /\ IF Exists(d) /\ dnsStatus[d] # "active"
     THEN Enqueue(d, "sync", "boot")
     ELSE UNCHANGED queue
  /\ UNCHANGED <<rowVars, zoneVars, at, seen, retried, overtaken, create, call, used>>

-----------------------------------------------------------------------------
(* How an operation ends, and its caller goes on in the same turn.         *)

Pops(d) ==
  /\ queue' = [queue EXCEPT ![d] = Tail(@)]
  /\ at' = [at EXCEPT ![d] = "idle"]
  /\ seen' = [seen EXCEPT ![d] = None]
  /\ retried' = [retried EXCEPT ![d] = FALSE]
  /\ overtaken' = [overtaken EXCEPT ![d] = FALSE]

SyncEnds(d) ==
  LET by == Head(queue[d]).by IN
  /\ Pops(d)
  /\ create' = IF by = "create" THEN [create EXCEPT ![d] = "done"] ELSE create
  /\ call' = IF by \in Call THEN [call EXCEPT ![by].at = "done"] ELSE call
  /\ UNCHANGED <<status, boot>>

\* DELETE drops the row whether or not remove() got its way.
RemoveEnds(d, failed) ==
  LET k == Head(queue[d]).by IN
  /\ Pops(d)
  /\ call' = [call EXCEPT ![k].at = "done", ![k].failed = failed]
  /\ status' = [status EXCEPT ![d] = "deleted"]
  /\ recordId' = [recordId EXCEPT ![d] = None]
  /\ dnsStatus' = [dnsStatus EXCEPT ![d] = "none"]
  /\ UNCHANGED <<create, boot>>

Waits(d, request, id) ==
  /\ at' = [at EXCEPT ![d] = request]
  /\ seen' = [seen EXCEPT ![d] = id]
  /\ overtaken' = [overtaken EXCEPT ![d] = FALSE]
  /\ UNCHANGED <<rowVars, queue, retried, callVars>>

\* Mutant of SyncFails: a rejection breaks the chain.
SyncFailsForGood(d, why) ==
  /\ dnsStatus' = [dnsStatus EXCEPT ![d] = why]
  /\ at' = [at EXCEPT ![d] = "idle"]
  /\ UNCHANGED <<status, recordId, queue, seen, retried, overtaken, callVars>>

\* syncLocked() catches: the outcome is on the row, the saved id stays.
SyncFails(d, why) ==
  /\ dnsStatus' = IF Exists(d) THEN [dnsStatus EXCEPT ![d] = why] ELSE dnsStatus
  /\ SyncEnds(d)
  /\ UNCHANGED recordId

\* ensureCname() returned a record: save it, or take it back if the row is gone.
Saves(d, id) ==
  IF Exists(d)
  THEN /\ recordId' = [recordId EXCEPT ![d] = id]
       /\ dnsStatus' = [dnsStatus EXCEPT ![d] = "active"]
       /\ SyncEnds(d)
  ELSE Waits(d, "get", id)

\* deleteOwned() is over.
Ends(d, failed) ==
  IF Head(queue[d]).op = "remove"
  THEN RemoveEnds(d, failed)
  ELSE SyncEnds(d) /\ UNCHANGED <<recordId, dnsStatus>>

-----------------------------------------------------------------------------
(* sync().                                                                 *)

Waiting(d, request) == queue[d] # <<>> /\ at[d] = request

\* The row is read again inside the lock.
SyncBegins(d) ==
  /\ Waiting(d, "idle")
  /\ Head(queue[d]).op = "sync"
  /\ IF Exists(d) /\ status[d] # "deleting"
     THEN Waits(d, "find", None)
     ELSE SyncEnds(d) /\ UNCHANGED <<recordId, dnsStatus>>
  /\ UNCHANGED <<zoneVars, used>>

\* Mutant of FindAnswered: whatever has the name is repaired.
FindAnsweredByName(d) ==
  /\ Waiting(d, "find")
  /\ \/ zone[d] = None /\ Waits(d, "post", None)
     \/ Own(d) /\ zone[d].good /\ Saves(d, zone[d].id)
     \/ Foreign(d) /\ Waits(d, "patch", zone[d].id)
     \/ Own(d) /\ ~zone[d].good /\ Waits(d, "patch", zone[d].id)
  /\ UNCHANGED <<zoneVars, used>>

FindAnswered(d) ==
  /\ Waiting(d, "find")
  /\ \/ zone[d] = None /\ Waits(d, "post", None)
     \/ Foreign(d) /\ SyncFails(d, "conflict")
     \/ Own(d) /\ zone[d].good /\ Saves(d, zone[d].id)
     \/ Own(d) /\ ~zone[d].good /\ Waits(d, "patch", zone[d].id)
  /\ UNCHANGED <<zoneVars, used>>

Creates(d, own) ==
  /\ zone' = [zone EXCEPT ![d] = [id |-> nextId, own |-> own, good |-> own]]
  /\ nextId' = nextId + 1

Posted(d) ==
  /\ Waiting(d, "post")
  /\ zone[d] = None
  /\ Creates(d, TRUE)
  /\ Saves(d, nextId)
  /\ UNCHANGED <<late, used>>

\* Mutant of AlreadyExists: an existing record counts as success.
AlreadyExistsIsFine(d) ==
  /\ Waiting(d, "post")
  /\ zone[d] # None
  /\ Saves(d, zone[d].id)
  /\ UNCHANGED <<zoneVars, used>>

\* Cloudflare refuses a second record: read the name again, once.
AlreadyExists(d) ==
  /\ Waiting(d, "post")
  /\ zone[d] # None
  /\ IF retried[d]
     THEN SyncFails(d, "error")
     ELSE /\ at' = [at EXCEPT ![d] = "find"]
          /\ retried' = [retried EXCEPT ![d] = TRUE]
          /\ UNCHANGED <<rowVars, queue, seen, overtaken, callVars>>
  /\ UNCHANGED <<zoneVars, used>>

Repaired(d) == [zone EXCEPT ![d] = IF Is(d, seen[d]) THEN [@ EXCEPT !.own = TRUE, !.good = TRUE] ELSE @]

Patched(d) ==
  /\ Waiting(d, "patch")
  /\ zone' = Repaired(d)
  /\ IF Is(d, seen[d]) THEN Saves(d, seen[d]) ELSE SyncFails(d, "error")
  /\ UNCHANGED <<nextId, late, used>>

\* No answer, or an error; the request may have taken effect, or will.
SyncRequestFails(d) ==
  /\ at[d] \in {"find", "post", "patch"}
  /\ Happens("fail")
  /\ late' = IF at[d] = "post" THEN [late EXCEPT ![d] = TRUE] ELSE late
  /\ zone' \in (IF at[d] = "patch" THEN {zone, Repaired(d)} ELSE {zone})
  /\ SyncFails(d, "error")
  /\ UNCHANGED nextId

-----------------------------------------------------------------------------
(* remove().                                                               *)

\* Mutant of RemoveBegins: only the saved id is known.
RemoveBeginsById(d) ==
  /\ Waiting(d, "idle")
  /\ Head(queue[d]).op = "remove"
  /\ LET id == IF Exists(d) THEN recordId[d] ELSE call[Head(queue[d]).by].id IN
     IF id = None THEN RemoveEnds(d, FALSE) ELSE Waits(d, "get", id)
  /\ UNCHANGED <<zoneVars, used>>

\* The row as it is now, or as DELETE read it when another one has dropped it.
RemoveBegins(d) ==
  /\ Waiting(d, "idle")
  /\ Head(queue[d]).op = "remove"
  /\ LET id == IF Exists(d) THEN recordId[d] ELSE call[Head(queue[d]).by].id IN
     Waits(d, IF id = None THEN "lookup" ELSE "get", id)
  /\ UNCHANGED <<zoneVars, used>>

\* findOwned(), for an id that was never saved.
LookupAnswered(d) ==
  /\ Waiting(d, "lookup")
  /\ IF Own(d) THEN Waits(d, "get", zone[d].id) ELSE RemoveEnds(d, FALSE)
  /\ UNCHANGED <<zoneVars, used>>

\* deleteOwned(): a missing record is fine, someone else's is left in place.
GetAnswered(d) ==
  /\ Waiting(d, "get")
  /\ \/ ~Is(d, seen[d]) /\ Ends(d, FALSE)
     \/ Is(d, seen[d]) /\ Own(d) /\ Waits(d, "delete", seen[d])
     \/ Is(d, seen[d]) /\ Foreign(d) /\ Ends(d, TRUE)
  /\ UNCHANGED <<zoneVars, used>>

Removed(d) == [zone EXCEPT ![d] = IF Is(d, seen[d]) THEN None ELSE @]

Deleted(d) ==
  /\ Waiting(d, "delete")
  /\ zone' = Removed(d)
  /\ Ends(d, ~Is(d, seen[d]))
  /\ UNCHANGED <<nextId, late, used>>

RemoveRequestFails(d) ==
  /\ at[d] \in {"lookup", "get", "delete"}
  /\ Happens("fail")
  /\ zone' \in (IF at[d] = "delete" THEN {zone, Removed(d)} ELSE {zone})
  /\ Ends(d, TRUE)
  /\ UNCHANGED <<nextId, late>>

-----------------------------------------------------------------------------
(* Cloudflare, its dashboard and restarts.                                 *)

LateLands(d) ==
  /\ late[d]
  /\ late' = [late EXCEPT ![d] = FALSE]
  /\ IF zone[d] = None THEN Creates(d, TRUE) ELSE UNCHANGED <<zone, nextId>>
  /\ UNCHANGED <<rowVars, opVars, callVars, used>>

HandRemoves(d) ==
  /\ Own(d)
  /\ Happens("gone")
  /\ zone' = [zone EXCEPT ![d] = None]
  /\ UNCHANGED <<rowVars, nextId, late, opVars, callVars>>

\* An operator takes the record over by its comment, at any moment: also after
\* its comment was read and before the PATCH or DELETE that follows.
HandDisowns(d) ==
  /\ Own(d)
  /\ Happens("gone")
  /\ zone' = [zone EXCEPT ![d].own = FALSE]
  /\ overtaken' = [overtaken EXCEPT
                     ![d] = at[d] \in {"patch", "delete"} /\ Is(d, seen[d])]
  /\ UNCHANGED <<rowVars, nextId, late, queue, at, seen, retried, callVars>>

HandRedirects(d) ==
  /\ Own(d) /\ zone[d].good
  /\ Happens("hand")
  /\ zone' = [zone EXCEPT ![d].good = FALSE]
  /\ UNCHANGED <<rowVars, nextId, late, opVars, callVars>>

HandAdds(d) ==
  /\ zone[d] = None
  /\ Happens("hand")
  /\ Creates(d, FALSE)
  /\ UNCHANGED <<rowVars, late, opVars, callVars>>

\* A request in flight may have taken effect; a row being started is
\* relaunched, and one being deleted is left as it is.
Restart ==
  /\ Happens("boot")
  /\ \E done \in SUBSET {d \in Db : at[d] \in {"patch", "delete"}} :
       zone' = [d \in Db |-> CASE d \notin done -> zone[d]
                               [] at[d] = "patch" -> Repaired(d)[d]
                               [] OTHER -> Removed(d)[d]]
  /\ late' = [d \in Db |-> late[d] \/ at[d] = "post"]
  /\ status' = [d \in Db |-> IF status[d] = "starting" THEN "live" ELSE status[d]]
  /\ queue' = [d \in Db |-> <<>>]
  /\ at' = [d \in Db |-> "idle"]
  /\ seen' = [d \in Db |-> None]
  /\ retried' = [d \in Db |-> FALSE]
  /\ overtaken' = [d \in Db |-> FALSE]
  /\ create' = [d \in Db |-> IF create[d] = "none" THEN "none" ELSE "done"]
  /\ call' = [k \in Call |-> IF call[k].at = "free" THEN call[k]
                             ELSE [call[k] EXCEPT !.at = "done"]]
  /\ boot' = {d \in Db : Exists(d)}
  /\ UNCHANGED <<recordId, dnsStatus, nextId>>

-----------------------------------------------------------------------------
OpStep(d) ==
  \/ SyncBegins(d) \/ FindAnswered(d) \/ Posted(d) \/ AlreadyExists(d) \/ Patched(d)
  \/ SyncRequestFails(d)
  \/ RemoveBegins(d) \/ LookupAnswered(d) \/ GetAnswered(d) \/ Deleted(d)
  \/ RemoveRequestFails(d)

StartEnds(d) == StartSucceeds(d) \/ StartFails(d)

ZoneStep(d) ==
  LateLands(d) \/ HandRemoves(d) \/ HandDisowns(d) \/ HandRedirects(d) \/ HandAdds(d)

Next ==
  \/ \E d \in Db : Create(d) \/ StartEnds(d) \/ BootVisits(d) \/ OpStep(d) \/ ZoneStep(d)
  \/ \E k \in Call, d \in Db : RequestSync(k, d) \/ RequestDelete(k, d)
  \/ \E k \in Call : DeleteRemoves(k)
  \/ Restart

Spec == Init /\ [][Next]_vars

(* Every request ends, by its timeout (15 s) if not by an answer.          *)
Fairness ==
  /\ \A d \in Db : WF_vars(OpStep(d)) /\ WF_vars(StartEnds(d)) /\ WF_vars(BootVisits(d))
  /\ \A k \in Call : WF_vars(DeleteRemoves(k))

FairSpec == Spec /\ Fairness

-----------------------------------------------------------------------------
(* Safety.                                                                 *)

\* A record whose comment was not exactly this database's when the server read
\* it is never modified or deleted: records replaced, added or removed by hand
\* between the read and the PATCH or DELETE, late POSTs, lost answers and restarts
\* included.  The exception is the very record that was read as ours, taken over
\* by its comment after that (OnlyOursAreChanged, below).
ForeignUntouched ==
  [][\A d \in Db : Foreign(d) /\ ~overtaken[d] => zone'[d] = zone[d]]_vars

\* DELETE of a row, when each request of its remove() succeeded, leaves no
\* record of ours, not even one whose POST was thought to have failed; unless
\* remove() was pointed at another one, by a saved id that names no record.
DropsRow(d) == Exists(d) /\ status'[d] = "deleted"

LeavesNoRecord ==
  [][\A d \in Db :
       DropsRow(d) /\ ~call'[Head(queue[d]).by].failed /\ Own(d)' =>
         seen[d] \notin {None, zone'[d].id}]_vars

\* A row that says "active" names the record at its hostname, until a DELETE
\* comes to it or somebody takes the record away by hand.
RemovalAsked(d) ==
  \E k \in Call : call[k].kind = "delete" /\ call[k].db = d /\ call[k].at \in {"removing", "done"}

ActiveIsPublished ==
  \A d \in Db :
    dnsStatus[d] = "active" /\ used["gone"] = 0 /\ ~RemovalAsked(d)
      => Own(d) /\ zone[d].id = recordId[d]

-----------------------------------------------------------------------------
(* Liveness, under Fairness.                                               *)

\* Every sync and every DELETE returns, whatever Cloudflare answers: a failed
\* operation does not hold up the ones chained behind it.
CallsReturn ==
  \A k \in Call : call[k].at \in {"stopping", "syncing", "removing"} ~> call[k].at = "done"

-----------------------------------------------------------------------------
(* What a comment says and the code does not do (README, 6).               *)

\* cloudflare.ts:6-8: no record is modified or deleted whose comment is not
\* exactly this database's.
OnlyOursAreChanged == [][\A d \in Db : Foreign(d) => zone'[d] = zone[d]]_vars
=============================================================================
