------------------------------- MODULE Access -------------------------------
(***************************************************************************)
(* Who reaches which database: the ports (supervisor/ports.ts), the key    *)
(* files and tokens (auth/tokens.ts), and the gateway, which checks a      *)
(* token with a cached key (auth/verify.ts) and forwards to a port         *)
(* (gateway/gateway.ts).  A handler runs alone between two awaits, so each *)
(* action is one stretch of a handler up to its next await.                *)
(***************************************************************************)
EXTENDS Naturals, FiniteSets

CONSTANTS
  Db,       \* the ids of rows, never reused
  Req,      \* slots of API requests, used again and again
  Fwd,      \* slots of gateway requests
  Tok,      \* the tokens ever issued
  Lo, Hi,   \* SQLITEND_PORT_RANGE
  Held,     \* ports another program listens on
  None,
  Torn,     \* a file opened for writing and not written
  Bounds    \* how many requests of each kind, and crashes, one behaviour has

ASSUME AccessAssumption ==
  /\ Lo \in Nat /\ Hi \in Nat
  /\ Held \subseteq Lo..Hi
  /\ Bounds \subseteq [{"create", "start", "mint", "delete", "forward", "crash"} -> Nat]
  /\ {None, Torn} \cap [db : Db, n : Nat] = {}
  /\ None # Torn /\ None \notin Db \cup Req

Port == Lo..Hi

\* A key pair: the two halves of one generateKeyPair().
Key == [db : Db, n : Nat]
File == Key \cup {None, Torn}

VARIABLES
  row,       \* status of the row; "stopped" is any status without a sqld
  ports,     \* the pair the row was given
  sqld,      \* the public key the database's sqld runs with, None without one
  reserved,  \* the allocator's set
  alloc,     \* the allocation under way: chain lets in one at a time
  key, pub,  \* keys/<id>.key and keys/<id>.pub
  made,      \* key pairs generated so far
  spoilt,    \* history: what befell the key files of the database
  token,     \* the tokens table, and the JWTs clients hold
  cache,     \* the verifier's cache; a rejected import stays in it
  h,         \* the API requests
  g,         \* the gateway requests
  left       \* of the bounds of this behaviour

portVars == <<ports, reserved, alloc>>
fileVars == <<key, pub, made, spoilt>>
gateVars == <<cache, g>>
vars == <<row, portVars, sqld, fileVars, token, gateVars, h, left>>

Idle == [op |-> "none", db |-> None, pc |-> "idle", key |-> None, legs |-> 0]
NoAlloc == [by |-> None, next |-> Lo, seen |-> {}, free |-> {}]
NoFwd == [at |-> "idle", db |-> None, tok |-> None, port |-> Lo, by |-> None]

Handler == [op : {"none", "create", "start", "mint", "delete"}, db : Db \cup {None},
            pc : {"idle", "queued", "lock", "read", "open", "write", "access",
                  "openPub", "writePub", "keyed", "kill", "rmKey", "rmPub", "drop"},
            key : Key \cup {None}, legs : 0..2]

TypeOK ==
  /\ row \in [Db -> {"absent", "starting", "running", "stopped", "deleting", "gone"}]
  /\ ports \in [Db -> SUBSET Port]
  /\ sqld \in [Db -> Key \cup {None}]
  /\ reserved \in SUBSET Port
  /\ alloc \in [by : Req \cup {None}, next : Lo..(Hi + 1), seen : SUBSET Port, free : SUBSET Port]
  /\ key \in [Db -> File] /\ pub \in [Db -> File] /\ cache \in [Db -> File]
  /\ made \in [Db -> Nat]
  /\ spoilt \in [Db -> SUBSET {"race", "cut", "delete"}]
  /\ token \in [Tok -> [db : Db \cup {None}, key : Key \cup {None},
                        st : {"unissued", "live", "dead", "dropped"}]]
  /\ h \in [Req -> Handler]
  /\ g \in [Fwd -> [at : {"idle", "verify", "send", "denied", "served", "refused", "unreachable"},
                    db : Db \cup {None}, tok : Tok \cup {None}, port : Nat, by : Db \cup {None}]]
  /\ left \in [{"create", "start", "mint", "delete", "forward", "crash"} -> Nat]

Init ==
  /\ row = [d \in Db |-> "absent"] /\ ports = [d \in Db |-> {}]
  /\ sqld = [d \in Db |-> None] /\ reserved = {} /\ alloc = NoAlloc
  /\ key = [d \in Db |-> None] /\ pub = [d \in Db |-> None] /\ cache = [d \in Db |-> None]
  /\ made = [d \in Db |-> 0] /\ spoilt = [d \in Db |-> {}]
  /\ token = [t \in Tok |-> [db |-> None, key |-> None, st |-> "unissued"]]
  /\ h = [r \in Req |-> Idle] /\ g = [f \in Fwd |-> NoFwd]
  /\ left \in Bounds

Exists(d) == row[d] \notin {"absent", "gone"}

\* A request in its stretch of withLock: from the row check to the launch.
InLock(r) == h[r].op \in {"create", "start"}
             /\ h[r].pc \in {"read", "open", "write", "access", "openPub", "writePub", "keyed"}
LockFree(d) == \A r \in Req : ~(h[r].db = d /\ InLock(r))

Happens(e) == left[e] > 0 /\ left' = [left EXCEPT ![e] = @ - 1]

Goes(r, pc) == h' = [h EXCEPT ![r].pc = pc]
Ends(r) == h' = [h EXCEPT ![r] = Idle]

-----------------------------------------------------------------------------
(* Ports.                                                                  *)

Persisted == UNION {ports[d] : d \in {e \in Db : Exists(e)}}
Bound == Held \cup UNION {ports[d] : d \in {e \in Db : sqld[e] # None}}

Release(pair) == reserved' = reserved \ pair
Reserve(pair) == reserved' = reserved \cup pair

RequestCreate(r, d) ==
  /\ Happens("create")
  /\ h[r] = Idle /\ row[d] = "absent"
  /\ \A q \in Req : h[q].db # d
  /\ h' = [h EXCEPT ![r] = [Idle EXCEPT !.op = "create", !.db = d, !.pc = "queued"]]
  /\ UNCHANGED <<row, portVars, sqld, fileVars, token, gateVars>>

AllocBegins(r) ==
  /\ h[r].pc = "queued" /\ alloc.by = None
  /\ alloc' = [NoAlloc EXCEPT !.by = r, !.seen = Persisted]
  /\ UNCHANGED <<row, ports, reserved, sqld, fileVars, token, gateVars, h, left>>

Scanning == alloc.by # None /\ Cardinality(alloc.free) < 2

\* Mutant of AllocProbes: only the allocator's own set is asked.
AllocProbesReservedOnly ==
  /\ Scanning /\ alloc.next <= Hi
  /\ alloc' = [alloc EXCEPT !.next = @ + 1,
                            !.free = IF alloc.next \in reserved \cup Bound
                                     THEN @ ELSE @ \cup {alloc.next}]
  /\ UNCHANGED <<row, ports, reserved, sqld, fileVars, token, gateVars, h, left>>

AllocProbes ==
  /\ Scanning /\ alloc.next <= Hi
  /\ alloc' = [alloc EXCEPT !.next = @ + 1,
                            !.free = IF alloc.next \in reserved \cup alloc.seen \cup Bound
                                     THEN @ ELSE @ \cup {alloc.next}]
  /\ UNCHANGED <<row, ports, reserved, sqld, fileVars, token, gateVars, h, left>>

AllocExhausted(r) ==
  /\ alloc.by = r /\ Scanning /\ alloc.next > Hi
  /\ alloc' = NoAlloc
  /\ Ends(r)
  /\ UNCHANGED <<row, ports, reserved, sqld, fileVars, token, gateVars, left>>

\* The pair is reserved and, before anyone else runs, the row inserted with it.
AllocEnds(r) ==
  /\ alloc.by = r /\ ~Scanning
  /\ alloc' = NoAlloc
  /\ Reserve(alloc.free)
  /\ row' = [row EXCEPT ![h[r].db] = "starting"]
  /\ ports' = [ports EXCEPT ![h[r].db] = alloc.free]
  /\ Goes(r, "lock")
  /\ UNCHANGED <<sqld, fileVars, token, gateVars, left>>

\* Mutant of CreateConflicts: the pair stays reserved.
CreateConflictsKeeps(r) ==
  /\ alloc.by = r /\ ~Scanning
  /\ alloc' = NoAlloc
  /\ Reserve(alloc.free)
  /\ Ends(r)
  /\ UNCHANGED <<row, ports, sqld, fileVars, token, gateVars, left>>

\* databases.create() throws: the name is taken in the workspace.
CreateConflicts(r) ==
  /\ alloc.by = r /\ ~Scanning
  /\ alloc' = NoAlloc
  /\ Release(alloc.free)
  /\ Ends(r)
  /\ UNCHANGED <<row, ports, sqld, fileVars, token, gateVars, left>>

-----------------------------------------------------------------------------
(* Key files: ensureDbKey(), shared by a start and a token mint.           *)

\* The row check of startDatabaseLocked().
TakeLock(r) ==
  LET d == h[r].db IN
  /\ h[r].pc = "lock" /\ LockFree(d)
  /\ IF Exists(d) /\ row[d] # "deleting" /\ sqld[d] = None THEN Goes(r, "read") ELSE Ends(r)
  /\ UNCHANGED <<row, portVars, sqld, fileVars, token, gateVars, left>>

\* Another first use of the key has not completed the pair of files.
Completing(q, d) == /\ h[q].db = d /\ pub[d] \notin Key
                    /\ h[q].pc \in {"open", "write", "access", "openPub", "writePub"}
Meets(d) == spoilt' = [spoilt EXCEPT ![d] = IF \E q \in Req : Completing(q, d)
                                            THEN @ \cup {"race"} ELSE @]

\* Mutant of ReadKey: the key that was read is not used.
ReadKeyUnused(r) ==
  LET d == h[r].db IN
  /\ h[r].pc = "read" /\ key[d] \in Key
  /\ h' = [h EXCEPT ![r].pc = "access", ![r].legs = 1,
                    ![r].key = [db |-> d, n |-> made[d] + 1]]
  /\ made' = [made EXCEPT ![d] = @ + 1]
  /\ Meets(d)
  /\ UNCHANGED <<row, portVars, sqld, key, pub, token, gateVars, left>>

ReadKey(r) ==
  LET d == h[r].db IN
  /\ h[r].pc = "read" /\ key[d] \in Key
  /\ h' = [h EXCEPT ![r].pc = "access", ![r].key = key[d], ![r].legs = 1]
  /\ Meets(d)
  /\ UNCHANGED <<row, portVars, sqld, key, pub, made, token, gateVars, left>>

\* JSON.parse() of a cut file throws, and that is not ENOENT.
ReadTorn(r) ==
  /\ h[r].pc = "read" /\ key[h[r].db] = Torn
  /\ Ends(r)
  /\ UNCHANGED <<row, portVars, sqld, fileVars, token, gateVars, left>>

FreshKey(d) == [db |-> d, n |-> made[d] + 1]

ReadAbsent(r) ==
  LET d == h[r].db IN
  /\ h[r].pc = "read" /\ key[d] = None
  /\ h' = [h EXCEPT ![r].pc = "open", ![r].key = FreshKey(d), ![r].legs = 2]
  /\ made' = [made EXCEPT ![d] = @ + 1]
  /\ Meets(d)
  /\ UNCHANGED <<row, portVars, sqld, key, pub, token, gateVars, left>>

OpenKey(r) ==
  /\ h[r].pc = "open"
  /\ key' = [key EXCEPT ![h[r].db] = Torn]
  /\ Goes(r, "write")
  /\ UNCHANGED <<row, portVars, sqld, pub, made, spoilt, token, gateVars, left>>

\* A write to a file that was removed meanwhile is lost, and chmod() throws.
WriteKey(r) ==
  LET d == h[r].db IN
  /\ h[r].pc = "write"
  /\ IF key[d] = None
     THEN Ends(r) /\ UNCHANGED key
     ELSE Goes(r, "access") /\ key' = [key EXCEPT ![d] = h[r].key]
  /\ UNCHANGED <<row, portVars, sqld, pub, made, spoilt, token, gateVars, left>>

\* writePubIfMissing() runs twice after a generation, once after a read.
LegDone(r) == h' = [h EXCEPT ![r].legs = @ - 1,
                             ![r].pc = IF h[r].legs = 1 THEN "keyed" ELSE "access"]

AccessPub(r) ==
  /\ h[r].pc = "access"
  /\ IF pub[h[r].db] = None THEN Goes(r, "openPub") ELSE LegDone(r)
  /\ UNCHANGED <<row, portVars, sqld, fileVars, token, gateVars, left>>

OpenPub(r) ==
  /\ h[r].pc = "openPub"
  /\ pub' = [pub EXCEPT ![h[r].db] = Torn]
  /\ Goes(r, "writePub")
  /\ UNCHANGED <<row, portVars, sqld, key, made, spoilt, token, gateVars, left>>

WritePub(r) ==
  LET d == h[r].db IN
  /\ h[r].pc = "writePub"
  /\ pub' = [pub EXCEPT ![d] = IF @ = None THEN None ELSE h[r].key]
  /\ LegDone(r)
  /\ UNCHANGED <<row, portVars, sqld, key, made, spoilt, token, gateVars, left>>

-----------------------------------------------------------------------------
(* Databases and tokens.                                                   *)

RequestStart(r, d) ==
  /\ Happens("start")
  /\ h[r] = Idle /\ Exists(d) /\ row[d] # "deleting"
  /\ h' = [h EXCEPT ![r] = [Idle EXCEPT !.op = "start", !.db = d, !.pc = "lock"]]
  /\ UNCHANGED <<row, portVars, sqld, fileVars, token, gateVars>>

\* sqld reads its key file once, when it starts; it refuses a cut one.
Launch(r) ==
  LET d == h[r].db IN
  /\ h[r].op \in {"create", "start"} /\ h[r].pc = "keyed" /\ pub[d] \in Key
  /\ sqld' = [sqld EXCEPT ![d] = pub[d]]
  /\ row' = [row EXCEPT ![d] = IF Exists(d) THEN "running" ELSE @]
  /\ Ends(r)
  /\ UNCHANGED <<portVars, fileVars, token, gateVars, left>>

LaunchFails(r) ==
  LET d == h[r].db IN
  /\ h[r].op \in {"create", "start"} /\ h[r].pc = "keyed"
  /\ row' = [row EXCEPT ![d] = IF Exists(d) THEN "stopped" ELSE @]
  /\ Ends(r)
  /\ UNCHANGED <<portVars, sqld, fileVars, token, gateVars, left>>

Stop(d) ==
  /\ Exists(d) /\ row[d] # "deleting" /\ LockFree(d)
  /\ sqld' = [sqld EXCEPT ![d] = None]
  /\ row' = [row EXCEPT ![d] = "stopped"]
  /\ UNCHANGED <<portVars, fileVars, token, gateVars, h, left>>

SqldExits(d) ==
  /\ sqld[d] # None
  /\ sqld' = [sqld EXCEPT ![d] = None]
  /\ row' = [row EXCEPT ![d] = IF @ = "running" THEN "stopped" ELSE @]
  /\ UNCHANGED <<portVars, fileVars, token, gateVars, h, left>>

RequestMint(r, d) ==
  /\ Happens("mint")
  /\ h[r] = Idle /\ Exists(d)
  /\ h' = [h EXCEPT ![r] = [Idle EXCEPT !.op = "mint", !.db = d, !.pc = "read"]]
  /\ UNCHANGED <<row, portVars, sqld, fileVars, token, gateVars>>

\* Signed with the private key this handler holds; the client has the JWT.
Signed(d, k) == [db |-> d, key |-> k, st |-> "live"]

MintInserts(r, t) ==
  LET d == h[r].db IN
  /\ h[r].op = "mint" /\ h[r].pc = "keyed" /\ Exists(d) /\ token[t].st = "unissued"
  /\ token' = [token EXCEPT ![t] = Signed(d, h[r].key)]
  /\ Ends(r)
  /\ UNCHANGED <<row, portVars, sqld, fileVars, gateVars, left>>

\* The row went away meanwhile: the foreign key refuses the insert.
MintRefused(r) ==
  /\ h[r].op = "mint" /\ h[r].pc = "keyed" /\ ~Exists(h[r].db)
  /\ Ends(r)
  /\ UNCHANGED <<row, portVars, sqld, fileVars, token, gateVars, left>>

Dead(t) == token' = [token EXCEPT ![t].st = "dead"]

\* Revoked by the operator, or past its expires_at.
TokenDies(t) ==
  /\ token[t].st = "live"
  /\ Dead(t)
  /\ UNCHANGED <<row, portVars, sqld, fileVars, gateVars, h, left>>

RequestDelete(r, d) ==
  /\ Happens("delete")
  /\ h[r] = Idle /\ Exists(d)
  /\ h' = [h EXCEPT ![r] = [Idle EXCEPT !.op = "delete", !.db = d, !.pc = "kill"]]
  /\ row' = [row EXCEPT ![d] = "deleting"]
  /\ spoilt' = [spoilt EXCEPT ![d] = @ \cup {"delete"}]
  /\ UNCHANGED <<portVars, sqld, key, pub, made, token, gateVars>>

Kill(r) ==
  LET d == h[r].db IN
  /\ h[r].pc = "kill" /\ LockFree(d)
  /\ sqld' = [sqld EXCEPT ![d] = None]
  /\ Goes(r, "rmKey")
  /\ UNCHANGED <<row, portVars, fileVars, token, gateVars, left>>

RemoveKey(r) ==
  /\ h[r].pc = "rmKey"
  /\ key' = [key EXCEPT ![h[r].db] = None]
  /\ Goes(r, "rmPub")
  /\ UNCHANGED <<row, portVars, sqld, pub, made, spoilt, token, gateVars, left>>

RemovePub(r) ==
  /\ h[r].pc = "rmPub"
  /\ pub' = [pub EXCEPT ![h[r].db] = None]
  /\ Goes(r, "drop")
  /\ UNCHANGED <<row, portVars, sqld, key, made, spoilt, token, gateVars, left>>

\* The pair read with the row at the start; tokens go with their row.
DropRow(r) ==
  LET d == h[r].db IN
  /\ h[r].pc = "drop"
  /\ Release(ports[d])
  /\ row' = [row EXCEPT ![d] = "gone"]
  /\ token' = [t \in Tok |-> IF token[t].db = d THEN [token[t] EXCEPT !.st = "dropped"] ELSE token[t]]
  /\ Ends(r)
  /\ UNCHANGED <<ports, alloc, sqld, fileVars, gateVars, left>>

-----------------------------------------------------------------------------
(* The gateway.                                                            *)

\* The row is found by id or slug; a row that is not "running" is not served.
Found(d) == Exists(d) /\ row[d] = "running"

\* checkToken(), read together with the row.
Allowed(t, d) == token[t].db = d /\ token[t].st = "live"

\* The lower port of the pair serves HTTP.
HttpPort(d) == CHOOSE p \in ports[d] : \A q \in ports[d] : p <= q

Arrive(f, d, t) ==
  /\ Happens("forward")
  /\ g[f] = NoFwd /\ Found(d) /\ Allowed(t, d)
  /\ g' = [g EXCEPT ![f] = [at |-> "verify", db |-> d, tok |-> t, port |-> HttpPort(d), by |-> None]]
  /\ UNCHANGED <<row, portVars, sqld, fileVars, token, cache, h>>

\* keyFor(): a key, or a failed import, is cached; a missing file is not.
Verify(f) ==
  LET d == g[f].db
      k == IF cache[d] # None THEN cache[d] ELSE pub[d] IN
  /\ g[f].at = "verify"
  /\ cache' = [cache EXCEPT ![d] = k]
  /\ g' = [g EXCEPT ![f].at = IF k = token[g[f].tok].key THEN "send" ELSE "denied"]
  /\ UNCHANGED <<row, portVars, sqld, fileVars, token, h, left>>

Listening(p) == {d \in Db : sqld[d] # None /\ HttpPort(d) = p}

\* Mutant of Send: sqld runs without --auth-jwt-key-file and serves everyone.
SendTrusting(f) ==
  /\ g[f].at = "send"
  /\ \/ /\ Listening(g[f].port) = {}
        /\ g' = [g EXCEPT ![f].at = "unreachable"]
     \/ \E d \in Listening(g[f].port) : g' = [g EXCEPT ![f].at = "served", ![f].by = d]
  /\ UNCHANGED <<row, portVars, sqld, fileVars, token, cache, h, left>>

\* After the body: whoever listens on that port now, and checks the JWT itself.
Send(f) ==
  /\ g[f].at = "send"
  /\ \/ /\ Listening(g[f].port) = {}
        /\ g' = [g EXCEPT ![f].at = "unreachable"]
     \/ \E d \in Listening(g[f].port) :
          g' = [g EXCEPT ![f].at = IF sqld[d] = token[g[f].tok].key THEN "served" ELSE "refused",
                         ![f].by = d]
  /\ UNCHANGED <<row, portVars, sqld, fileVars, token, cache, h, left>>

Answer(f) ==
  /\ g[f].at \in {"denied", "served", "refused", "unreachable"}
  /\ g' = [g EXCEPT ![f] = NoFwd]
  /\ UNCHANGED <<row, portVars, sqld, fileVars, token, cache, h, left>>

-----------------------------------------------------------------------------
(* A crash: what was in memory is lost, files stay as far as written, each *)
(* sqld lives on or not.  reconcile() reserves the ports of every row; its *)
(* relaunches are start requests here.                                     *)
Cut(d) == \E r \in Req : h[r].db = d /\ h[r].pc \in {"write", "access", "openPub", "writePub"}

Crash ==
  /\ Happens("crash")
  /\ \E S \in SUBSET {d \in Db : sqld[d] # None /\ Exists(d)} :
       /\ sqld' = [d \in Db |-> IF d \in S THEN sqld[d] ELSE None]
       /\ row' = [d \in Db |-> IF Exists(d) /\ d \notin S /\ row[d] # "deleting"
                               THEN "stopped" ELSE row[d]]
  /\ reserved' = Persisted
  /\ alloc' = NoAlloc
  /\ spoilt' = [d \in Db |-> IF Cut(d) THEN spoilt[d] \cup {"cut"} ELSE spoilt[d]]
  /\ cache' = [d \in Db |-> None]
  /\ h' = [r \in Req |-> Idle]
  /\ g' = [f \in Fwd |-> NoFwd]
  /\ UNCHANGED <<ports, key, pub, made, token>>

KeyStep(r) == ReadKey(r) \/ ReadTorn(r) \/ ReadAbsent(r) \/ OpenKey(r) \/ WriteKey(r)
              \/ AccessPub(r) \/ OpenPub(r) \/ WritePub(r)

Next ==
  \/ AllocProbes
  \/ \E r \in Req : \/ \E d \in Db : RequestCreate(r, d) \/ RequestStart(r, d)
                                    \/ RequestMint(r, d) \/ RequestDelete(r, d)
                   \/ AllocBegins(r) \/ AllocExhausted(r) \/ AllocEnds(r) \/ CreateConflicts(r)
                   \/ TakeLock(r) \/ KeyStep(r) \/ Launch(r) \/ LaunchFails(r)
                   \/ MintRefused(r) \/ (\E t \in Tok : MintInserts(r, t))
                   \/ Kill(r) \/ RemoveKey(r) \/ RemovePub(r) \/ DropRow(r)
  \/ \E d \in Db : Stop(d) \/ SqldExits(d)
  \/ \E t \in Tok : TokenDies(t)
  \/ \E f \in Fwd : \/ \E d \in Db, t \in Tok : Arrive(f, d, t)
                   \/ Verify(f) \/ Send(f) \/ Answer(f)
  \/ Crash

Spec == Init /\ [][Next]_vars

-----------------------------------------------------------------------------
(* Safety.                                                                 *)

\* Two rows never hold the same port, although a second DELETE of one
\* database releases its pair after another database was given it
\* (routes.ts: DELETE and reserveDatabase; ports.ts: allocatePair).
PortsExclusive == \A d, e \in Db : Exists(d) /\ Exists(e) /\ d # e => ports[d] \cap ports[e] = {}

\* No port is lost to the pool: what the allocator holds back is a row's,
\* whichever way a creation or a deletion ended (reserveDatabase's catch).
PortsReturn == reserved \subseteq Persisted

\* A request the gateway let through on one database's token is never served
\* by another database, also when the port it looked up changed hands while
\* it verified the signature and read the body (gateway.ts).
ServedAtHome == \A f \in Fwd : g[f].at = "served" => g[f].by = g[f].db

Verifies(t) ==
  LET d == token[t].db IN
  /\ pub[d] = token[t].key
  /\ cache[d] \in {None, token[t].key}
  /\ sqld[d] \in {None, token[t].key}

\* A live token is signed with the key that the database's sqld runs with and
\* the gateway has cached, unless two first uses of the key met, a crash cut
\* one short, or DELETE has begun (ensureDbKey, keyFor).
TokensVerify == \A t \in Tok : token[t].st = "live" /\ spoilt[token[t].db] = {} => Verifies(t)

\* The comment of ensureDbKey calls it idempotent: once the first uses that
\* met are over, every token they issued would verify.
FirstUsesAgree ==
  \A t \in Tok : /\ token[t].st = "live" /\ spoilt[token[t].db] \subseteq {"race"}
                 /\ \A r \in Req : h[r].db # token[t].db
                 => Verifies(t)
=============================================================================
