---------------------------- MODULE LoginProofs -----------------------------
(***************************************************************************)
(* The safety of Login for any number of addresses, log-ins and commands,  *)
(* and any limits.                                                         *)
(***************************************************************************)
EXTENDS Login, FiniteSetTheorems, TLAPS

\* The entries of a list that are not older than t.
Later(times, t) == {e \in times : e[1] >= t}

\* A tick's entries are numbered from 1, so that a new one is new.
Packed(times) == \A e \in times : e[2] <= Count(times, e[1])

List == {times \in Times : IsFiniteSet(times) /\ Packed(times)}

\* The log-ins of an address that are under way, by the time they began.
Flying(ip, t) == {a \in InFlight : try[a].ip = ip /\ try[a].at >= t}

ListInv == failures \in [Ip -> List] /\ allFailed \in List /\ denied \in [Ip -> List]

\* reserveFailure() never fills the window beyond the limit.
RoomInv == \A ip \in Ip : Recent(failures[ip]) <= PerIp

\* Until an address logs in, every log-in that failed or may still fail holds
\* one of its reservations, from whatever time on one counts them.
BookInv ==
  \A ip \in Ip \ won, t \in Int :
    Cardinality(Later(denied[ip], t)) + Cardinality(Flying(ip, t))
      <= Cardinality(Later(failures[ip], t))

FlightInv == \A a \in InFlight : try[a].ip \in Ip

\* A step that the current secret's owner has used is not later than the last one.
CodeInv ==
  \A s \in Step :
    claims[s] <= 1 /\ (claims[s] # 0 => admin.last \in Nat /\ s <= admin.last)

\* Log-ins under way read the credentials that are still valid, or are late.
ReadInv ==
  \A a \in InFlight :
    try[a].late \/ (try[a].row.pw = admin.pw /\ try[a].row.sec = admin.sec)

Books == ListInv /\ RoomInv /\ BookInv /\ FlightInv

IInv ==
  /\ TypeOK
  /\ Books
  /\ CodeInv
  /\ ReadInv /\ SessionsFollowCredentials

-----------------------------------------------------------------------------
(* Lists of times.                                                         *)

LEMMA Numbers ==
  /\ Time \subseteq Nat /\ Step \subseteq Nat /\ Time \subseteq Step
  /\ Window \in Nat /\ PerIp \in Nat /\ IdleFor \in Nat /\ LiveFor \in Nat
  /\ None \notin Nat /\ Bad \notin Nat /\ None \notin Ip /\ None # Bad
  /\ IsFiniteSet(Try)
  BY LoginAssumption DEF Time, Step

LEMMA EmptyList == {} \in List
  BY FS_EmptySet DEF List, Times, Packed

LEMMA ListParts ==
  ASSUME NEW times \in List, NEW S \in SUBSET times
  PROVE  IsFiniteSet(S) /\ Cardinality(S) \in Nat /\ Cardinality(S) <= Cardinality(times)
  BY FS_Subset, FS_CardinalityType DEF List

LEMMA ListElement ==
  ASSUME NEW times \in List, NEW e \in times
  PROVE  e = <<e[1], e[2]>> /\ e[1] \in Time /\ e[2] \in Nat \ {0}
  BY DEF List, Times

LEMMA CountType ==
  ASSUME NEW times \in List, NEW t \in Time
  PROVE  Count(times, t) \in Nat
  BY ListParts DEF Count

\* One more entry, counted from any time that is not later than its own.
LEMMA PushList ==
  ASSUME NEW times \in List, NEW t \in Time
  PROVE  /\ Push(times, t) \in List
         /\ \A u \in Int : Cardinality(Later(Push(times, t), u)) =
              Cardinality(Later(times, u)) + (IF u <= t THEN 1 ELSE 0)
<1> DEFINE new == <<t, Count(times, t) + 1>>
           pushed == Push(times, t)
<1>0. Count(times, t) \in Nat /\ t \in Nat /\ times \in Times /\ IsFiniteSet(times)
  BY CountType, Numbers DEF List
<1>1. new \notin times
  <2>1. new[1] = t /\ new[2] = Count(times, t) + 1
    OBVIOUS
  <2>2. \A e \in times : e[2] <= Count(times, e[1])
    BY DEF List, Packed
  <2> HIDE DEF new
  <2> QED BY <1>0, <2>1, <2>2
<1>2. pushed = times \cup {new} /\ pushed \in Times /\ IsFiniteSet(pushed)
  <2>1. IsFiniteSet(times \cup {new})
    BY <1>0, FS_AddElement
  <2>2. new \in Time \X (Nat \ {0})
    BY <1>0
  <2> QED BY <1>0, <2>1, <2>2 DEF Push, Times
<1>3. ASSUME NEW u \in Int
      PROVE  Cardinality(Later(pushed, u)) =
               Cardinality(Later(times, u)) + (IF u <= t THEN 1 ELSE 0)
  <2>1. IsFiniteSet(Later(times, u)) /\ Cardinality(Later(times, u)) \in Nat
    BY ListParts DEF Later
  <2>2. CASE u <= t
    <3>1. Later(pushed, u) = Later(times, u) \cup {new} /\ new \notin Later(times, u)
      BY <1>0, <1>1, <1>2, <2>2 DEF Later
    <3> QED BY <2>1, <2>2, <3>1, FS_AddElement
  <2>3. CASE ~(u <= t)
    <3>1. Later(pushed, u) = Later(times, u)
      BY <1>0, <1>1, <1>2, <2>3 DEF Later
    <3> QED BY <2>1, <2>3, <3>1
  <2> QED BY <2>2, <2>3
<1>4. Packed(pushed)
  <2> SUFFICES ASSUME NEW e \in pushed PROVE e[2] <= Count(pushed, e[1])
    BY DEF Packed
  <2>1. CASE e[1] = t
    <3>1. {f \in pushed : f[1] = t} = {f \in times : f[1] = t} \cup {new}
      BY <1>2
    <3>2. IsFiniteSet({f \in times : f[1] = t}) /\ new \notin {f \in times : f[1] = t}
      BY <1>1, ListParts
    <3>3. Count(pushed, t) = Count(times, t) + 1
      BY <3>1, <3>2, FS_AddElement DEF Count
    <3>4. CASE e \in times
      <4>1. e[2] \in Nat /\ e[2] <= Count(times, t)
        BY <2>1, <3>4, ListElement DEF List, Packed
      <4> QED BY <1>0, <2>1, <3>3, <4>1
    <3>5. CASE e = new
      BY <1>0, <2>1, <3>3, <3>5
    <3> QED BY <1>2, <3>4, <3>5
  <2>2. CASE e[1] # t
    <3>1. {f \in pushed : f[1] = e[1]} = {f \in times : f[1] = e[1]} /\ e \in times
      BY <1>2, <2>2
    <3> QED BY <3>1 DEF List, Packed, Count
  <2> QED BY <2>1, <2>2
<1> QED BY <1>2, <1>3, <1>4 DEF List

\* At most one entry less, and only where the times are not later than its own.
LEMMA LessList ==
  ASSUME NEW times \in List, NEW t \in Time
  PROVE  /\ Less(times, t) \in List /\ Less(times, t) \subseteq times
         /\ \A u \in Int : Cardinality(Later(Less(times, t), u)) >=
              Cardinality(Later(times, u)) - (IF u <= t THEN 1 ELSE 0)
<1> DEFINE old == <<t, Count(times, t)>>
           less == Less(times, t)
<1>0. Count(times, t) \in Nat /\ t \in Nat /\ times \in Times /\ IsFiniteSet(times)
  BY CountType, Numbers DEF List
<1>1. less = times \ {old} /\ less \in Times /\ IsFiniteSet(less)
  BY <1>0, FS_RemoveElement DEF Less, Times
<1>2. ASSUME NEW u \in Int
      PROVE  Cardinality(Later(less, u)) >=
               Cardinality(Later(times, u)) - (IF u <= t THEN 1 ELSE 0)
  <2>1. IsFiniteSet(Later(times, u)) /\ Cardinality(Later(times, u)) \in Nat
    BY ListParts DEF Later
  <2>2. CASE u <= t
    <3>1. Later(less, u) = Later(times, u) \ {old}
      BY <1>1 DEF Later
    <3>2. Cardinality(Later(times, u) \ {old}) \in
            {Cardinality(Later(times, u)), Cardinality(Later(times, u)) - 1}
      BY <2>1, FS_RemoveElement
    <3> QED BY <2>1, <2>2, <3>1, <3>2
  <2>3. CASE ~(u <= t)
    <3>1. Later(less, u) = Later(times, u)
      BY <1>0, <1>1, <2>3 DEF Later
    <3> QED BY <2>1, <2>3, <3>1
  <2> QED BY <2>2, <2>3
<1>3. Packed(less)
  <2> SUFFICES ASSUME NEW e \in less PROVE e[2] <= Count(less, e[1])
    BY DEF Packed
  <2>0. e \in times /\ e # old /\ e = <<e[1], e[2]>> /\ e[2] \in Nat /\ e[2] <= Count(times, e[1])
    BY <1>1, ListElement DEF List, Packed
  <2>1. CASE e[1] = t
    <3>1. {f \in less : f[1] = t} = {f \in times : f[1] = t} \ {old}
      BY <1>1
    <3>2. IsFiniteSet({f \in times : f[1] = t})
      BY ListParts
    <3>3. Count(less, t) \in {Count(times, t), Count(times, t) - 1}
      BY <3>1, <3>2, FS_RemoveElement DEF Count
    <3>4. e[2] # Count(times, t)
      BY <2>0, <2>1
    <3>5. e[2] <= Count(times, t)
      BY <2>0, <2>1
    <3> HIDE DEF less
    <3> QED BY <1>0, <2>0, <2>1, <3>3, <3>4, <3>5
  <2>2. CASE e[1] # t
    <3>1. {f \in less : f[1] = e[1]} = {f \in times : f[1] = e[1]}
      BY <1>1, <2>2
    <3> QED BY <2>0, <3>1 DEF Count
  <2> QED BY <2>1, <2>2
<1> QED BY <1>1, <1>2, <1>3 DEF List

-----------------------------------------------------------------------------
(* Log-ins under way.                                                      *)

LEMMA TryParts ==
  ASSUME TypeOK, NEW a \in Try
  PROVE  /\ try[a].ip \in Ip \cup {None} /\ try[a].at \in Time /\ try[a].at \in Nat
         /\ try[a].right \in BOOLEAN /\ try[a].code \in Step \cup {None, Bad}
         /\ try[a].late \in BOOLEAN /\ try[a].row \in Admin
         /\ clock \in Nat /\ InFlight \subseteq Try
<1>1. try[a] \in Attempt /\ clock \in Time
  BY DEF TypeOK
<1> QED BY <1>1, Numbers DEF Attempt, InFlight

LEMMA FlyingType ==
  ASSUME NEW ip, NEW t
  PROVE  IsFiniteSet(Flying(ip, t)) /\ Cardinality(Flying(ip, t)) \in Nat
<1>1. Flying(ip, t) \subseteq Try
  BY DEF Flying, InFlight
<1> QED BY <1>1, Numbers, FS_Subset, FS_CardinalityType

\* Only the log-in that is answered leaves.
LEMMA Landing ==
  ASSUME TypeOK, NEW a \in InFlight, LoginOver(a), NEW ip, NEW t \in Int
  PROVE  Cardinality(Flying(ip, t))' =
           Cardinality(Flying(ip, t)) - (IF ip = try[a].ip /\ t <= try[a].at THEN 1 ELSE 0)
<1>0. a \in Try /\ try[a] # NoTry /\ try[a].at \in Nat
  BY TryParts DEF InFlight
<1>1. \A b \in Try : try'[b] = IF b = a THEN NoTry ELSE try[b]
  BY <1>0 DEF LoginOver, TypeOK
<1>2. Flying(ip, t)' = Flying(ip, t) \ {a}
  BY <1>0, <1>1 DEF Flying, InFlight
<1>3. a \in Flying(ip, t) <=> ip = try[a].ip /\ t <= try[a].at
  BY <1>0 DEF Flying
<1>4. Cardinality(Flying(ip, t) \ {a}) =
        IF a \in Flying(ip, t) THEN Cardinality(Flying(ip, t)) - 1 ELSE Cardinality(Flying(ip, t))
  BY FlyingType, FS_RemoveElement
<1> QED BY <1>2, <1>3, <1>4, FlyingType

\* Only the log-in that begins is added.
LEMMA TakingOff ==
  ASSUME TypeOK, NEW a \in Try, try[a] = NoTry, NEW r, r # NoTry, r.at = clock,
         try' = [try EXCEPT ![a] = r], NEW ip, NEW t \in Int
  PROVE  Cardinality(Flying(ip, t))' =
           Cardinality(Flying(ip, t)) + (IF ip = r.ip /\ t <= clock THEN 1 ELSE 0)
<1>0. clock \in Nat
  BY TryParts
<1>1. \A b \in Try : try'[b] = IF b = a THEN r ELSE try[b]
  BY DEF TypeOK
<1>2. a \notin Flying(ip, t)
  BY DEF Flying, InFlight
<1>3. CASE ip = r.ip /\ t <= clock
  <2>1. Flying(ip, t)' = Flying(ip, t) \cup {a}
    BY <1>0, <1>1, <1>2, <1>3 DEF Flying, InFlight
  <2> QED BY <1>2, <1>3, <2>1, FlyingType, FS_AddElement
<1>4. CASE ~(ip = r.ip /\ t <= clock)
  <2>1. Flying(ip, t)' = Flying(ip, t)
    BY <1>0, <1>1, <1>2, <1>4 DEF Flying, InFlight
  <2> QED BY <1>4, <2>1, FlyingType
<1> QED BY <1>3, <1>4

\* A command marks the log-ins under way, and changes neither who they are nor when
\* they began.
LEMMA Overtaking ==
  ASSUME TypeOK, try' = try \/ Overtakes
  PROVE  /\ try' \in [Try -> Attempt]
         /\ \A a \in Try : /\ try'[a].ip = try[a].ip /\ try'[a].at = try[a].at
                           /\ try'[a].row = try[a].row
                           /\ (try'[a] # NoTry <=> try[a] # NoTry)
         /\ Overtakes => \A a \in InFlight : try'[a].late
<1>1. CASE Overtakes
  <2>1. ASSUME NEW a \in Try
        PROVE  /\ try'[a] \in Attempt
               /\ try'[a].ip = try[a].ip /\ try'[a].at = try[a].at /\ try'[a].row = try[a].row
               /\ (try'[a] # NoTry <=> try[a] # NoTry)
               /\ a \in InFlight => try'[a].late
    <3>1. try[a] \in Attempt
      BY DEF TypeOK
    <3>2. CASE a \notin InFlight
      BY <1>1, <3>1, <3>2 DEF Overtakes, InFlight
    <3>3. CASE a \in InFlight
      <4>1. try'[a] = [try[a] EXCEPT !.late = TRUE]
        BY <1>1, <3>3 DEF Overtakes
      <4>2. /\ try'[a] \in Attempt /\ try'[a].late = TRUE
            /\ try'[a].ip = try[a].ip /\ try'[a].at = try[a].at /\ try'[a].row = try[a].row
        BY <3>1, <4>1 DEF Attempt
      <4>3. NoTry.late = FALSE
        BY DEF NoTry
      <4>4. try'[a] # NoTry /\ try[a] # NoTry
        BY <3>3, <4>2, <4>3 DEF InFlight
      <4> QED BY <4>2, <4>4
    <3> QED BY <3>2, <3>3
  <2>2. try' = [a \in Try |-> try'[a]]
    BY <1>1 DEF Overtakes
  <2> QED BY <2>1, <2>2 DEF InFlight
<1>2. CASE try' = try
  <2>1. Overtakes => \A a \in InFlight : try'[a].late
    <3>1. SUFFICES ASSUME Overtakes, NEW a \in InFlight PROVE try'[a].late
      OBVIOUS
    <3>2. a \in Try /\ try[a] \in Attempt
      BY DEF TypeOK, InFlight
    <3>3. try'[a] = [try[a] EXCEPT !.late = TRUE]
      BY <3>1, <3>2 DEF Overtakes
    <3> QED BY <3>2, <3>3 DEF Attempt
  <2> QED BY <1>2, <2>1 DEF TypeOK
<1> QED BY <1>1, <1>2

-----------------------------------------------------------------------------
(* The throttle.                                                           *)

LEMMA RecentIsLater ==
  ASSUME TypeOK, NEW times \in List
  PROVE  Recent(times) = Cardinality(Later(times, clock - Window + 1)) /\ Recent(times) \in Nat
<1>1. \A e \in times : e[1] \in Nat
  BY ListElement, Numbers
<1>2. clock \in Nat /\ Window \in Nat
  BY Numbers DEF TypeOK
<1>3. {e \in times : e[1] + Window > clock} = Later(times, clock - Window + 1)
  BY <1>1, <1>2 DEF Later
<1> QED BY <1>3, ListParts DEF Recent

LEMMA LaterType ==
  ASSUME NEW times \in List, NEW t
  PROVE  Cardinality(Later(times, t)) \in Nat
  BY ListParts DEF Later

LEMMA FewerRecent ==
  ASSUME NEW times \in List, NEW less \in SUBSET times
  PROVE  Recent(less) <= Recent(times)
<1>1. /\ {e \in less : e[1] + Window > clock} \subseteq {e \in times : e[1] + Window > clock}
      /\ IsFiniteSet({e \in times : e[1] + Window > clock})
  BY ListParts
<1> QED BY <1>1, FS_Subset DEF Recent

\* What a step has to say of the lists for the books to balance.
LEMMA Balance ==
  ASSUME TypeOK, Books, TypeOK', ListInv',
         NEW W \in SUBSET Ip, won' = W,
         \A ip \in Ip : Recent(failures[ip])' <= PerIp,
         \A ip \in Ip \ W, t \in Int :
           /\ ip \notin won
           /\ Cardinality(Later(denied[ip], t))' + Cardinality(Flying(ip, t))'
                - Cardinality(Later(failures[ip], t))'
                <= Cardinality(Later(denied[ip], t)) + Cardinality(Flying(ip, t))
                     - Cardinality(Later(failures[ip], t)),
         FlightInv'
  PROVE  Books'
<1>1. ASSUME NEW ip \in Ip \ W, NEW t \in Int
      PROVE  Cardinality(Later(denied[ip], t))' + Cardinality(Flying(ip, t))'
               <= Cardinality(Later(failures[ip], t))'
  <2>1. /\ denied[ip] \in List /\ failures[ip] \in List
        /\ denied'[ip] \in List /\ failures'[ip] \in List
    BY DEF Books, ListInv
  <2>2. /\ Cardinality(Later(denied[ip], t)) \in Nat
        /\ Cardinality(Later(failures[ip], t)) \in Nat
        /\ Cardinality(Later(denied[ip], t))' \in Nat
        /\ Cardinality(Later(failures[ip], t))' \in Nat
    BY <2>1, LaterType DEF Later
  <2>3. Cardinality(Flying(ip, t)) \in Nat
    BY FlyingType
  <2>4. Cardinality(Flying(ip, t))' \in Nat
    <3>1. Flying(ip, t)' \subseteq Try
      BY DEF Flying, InFlight
    <3> QED BY <3>1, Numbers, FS_Subset, FS_CardinalityType
  <2>5. Cardinality(Later(denied[ip], t)) + Cardinality(Flying(ip, t))
          <= Cardinality(Later(failures[ip], t))
    BY DEF Books, BookInv
  <2> QED BY <2>2, <2>3, <2>4, <2>5
<1>2. BookInv'
  BY <1>1 DEF BookInv
<1> QED BY <1>2 DEF Books, RoomInv

LEMMA BeginsBooks ==
  ASSUME TypeOK, Books, TypeOK', NEW a \in Try, NEW ip \in Ip, NEW right, NEW code,
         LoginBegins(a, ip, right, code)
  PROVE  Books'
<1> DEFINE r == [ip |-> ip, at |-> clock, right |-> right, code |-> code,
                 late |-> FALSE, row |-> admin]
<1>0. /\ clock \in Time /\ clock \in Nat /\ failures[ip] \in List /\ allFailed \in List
      /\ denied \in [Ip -> List] /\ failures \in [Ip -> List] /\ won \subseteq Ip
  BY Numbers DEF TypeOK, Books, ListInv
<1>1. /\ try[a] = NoTry /\ try' = [try EXCEPT ![a] = r]
      /\ clock' = clock /\ denied' = denied /\ won' = won
      /\ failures' = [failures EXCEPT ![ip] = Push(failures[ip], clock)]
      /\ allFailed' = Push(allFailed, clock)
      /\ Recent(failures[ip]) < PerIp
  <2>1. Recent(failures[ip]) \in Nat /\ PerIp \in Nat
    BY <1>0, RecentIsLater, Numbers
  <2> QED BY <2>1 DEF LoginBegins, Reserve, histVars, Throttled
<1>2. /\ r.ip = ip /\ r.at = clock
      /\ r # NoTry
  <2>1. NoTry.ip = None
    BY DEF NoTry
  <2> QED BY <2>1, Numbers
<1>3. /\ Push(failures[ip], clock) \in List /\ Push(allFailed, clock) \in List
      /\ \A t \in Int : Cardinality(Later(Push(failures[ip], clock), t)) =
           Cardinality(Later(failures[ip], t)) + (IF t <= clock THEN 1 ELSE 0)
  BY <1>0, PushList
<1>4. ListInv'
  BY <1>0, <1>1, <1>3 DEF ListInv
<1>5. ASSUME NEW i \in Ip PROVE Recent(failures[i])' <= PerIp
  <2>1. CASE i = ip
    <3> DEFINE u == clock - Window + 1
    <3>1. u \in Int /\ u <= clock
      BY <1>0, LoginAssumption
    <3>2. Recent(Push(failures[ip], clock)) = Recent(failures[ip]) + 1
      BY <1>0, <1>3, <3>1, RecentIsLater
    <3>3. Recent(failures[ip])' = Recent(Push(failures[ip], clock))
      BY <1>0, <1>1 DEF Recent
    <3>4. Recent(failures[ip]) \in Nat /\ PerIp \in Nat
      BY <1>0, RecentIsLater, Numbers
    <3> QED BY <1>1, <2>1, <3>2, <3>3, <3>4
  <2>2. CASE i # ip
    BY <1>0, <1>1, <2>2 DEF Recent, Books, RoomInv
  <2> QED BY <2>1, <2>2
<1>6. ASSUME NEW i \in Ip \ won, NEW t \in Int
      PROVE  Cardinality(Later(denied[i], t))' + Cardinality(Flying(i, t))'
                - Cardinality(Later(failures[i], t))'
                <= Cardinality(Later(denied[i], t)) + Cardinality(Flying(i, t))
                     - Cardinality(Later(failures[i], t))
  <2>1. Cardinality(Flying(i, t))' =
          Cardinality(Flying(i, t)) + (IF i = ip /\ t <= clock THEN 1 ELSE 0)
    <3> HIDE DEF r
    <3> QED BY <1>1, <1>2, TakingOff
  <2>2. Cardinality(Later(failures[i], t))' =
          Cardinality(Later(failures[i], t)) + (IF i = ip /\ t <= clock THEN 1 ELSE 0)
    <3>1. CASE i = ip
      <4>1. Later(failures[i], t)' = Later(Push(failures[ip], clock), t)
        BY <1>0, <1>1, <3>1 DEF Later
      <4> QED BY <1>3, <3>1, <4>1
    <3>2. CASE i # ip
      <4>1. Later(failures[i], t)' = Later(failures[i], t)
        BY <1>0, <1>1, <3>2 DEF Later
      <4>2. Cardinality(Later(failures[i], t)) \in Nat
        BY <1>0, LaterType
      <4> QED BY <3>2, <4>1, <4>2
    <3> QED BY <3>1, <3>2
  <2>3. Later(denied[i], t)' = Later(denied[i], t)
    BY <1>1 DEF Later
  <2>4. /\ Cardinality(Flying(i, t)) \in Nat /\ Cardinality(Later(failures[i], t)) \in Nat
        /\ Cardinality(Later(denied[i], t)) \in Nat
    BY <1>0, FlyingType, LaterType
  <2> QED BY <2>1, <2>2, <2>3, <2>4
<1>7. FlightInv'
  BY <1>1, <1>2 DEF Books, FlightInv, InFlight, TypeOK
<1> HIDE DEF r
<1> QED BY <1>0, <1>1, <1>4, <1>5, <1>6, <1>7, Balance

\* A log-in is answered, and its reservation is given back.
LEMMA RefundBooks ==
  ASSUME TypeOK, Books, TypeOK', NEW a \in InFlight, Refund(a), LoginOver(a),
         clock' = clock, denied' = denied, won' = won
  PROVE  Books'
<1> DEFINE ip == try[a].ip
           at == try[a].at
<1>0. /\ clock \in Nat /\ ip \in Ip /\ at \in Time /\ at \in Nat
      /\ denied \in [Ip -> List] /\ failures \in [Ip -> List] /\ allFailed \in List
      /\ failures[ip] \in List /\ won \subseteq Ip
  BY TryParts DEF Books, FlightInv, ListInv, TypeOK, InFlight
<1>1. /\ failures' = [failures EXCEPT ![ip] = Less(failures[ip], at)]
      /\ allFailed' = Less(allFailed, at)
  BY DEF Refund
<1> HIDE DEF ip, at
<1>3. /\ Less(failures[ip], at) \in List /\ Less(allFailed, at) \in List
      /\ Less(failures[ip], at) \subseteq failures[ip]
      /\ \A t \in Int : Cardinality(Later(Less(failures[ip], at), t)) >=
           Cardinality(Later(failures[ip], t)) - (IF t <= at THEN 1 ELSE 0)
  BY <1>0, LessList
<1>4. ListInv'
  BY <1>0, <1>1, <1>3 DEF ListInv
<1>5. ASSUME NEW i \in Ip PROVE Recent(failures[i])' <= PerIp
  <2>0. failures[i] \in List /\ failures'[i] \subseteq failures[i] /\ Recent(failures[i]) <= PerIp
    BY <1>0, <1>1, <1>3 DEF Books, RoomInv
  <2>1. Recent(failures[i])' = Recent(failures'[i])
    BY DEF Recent
  <2>2. Recent(failures'[i]) <= Recent(failures[i])
    BY <2>0, FewerRecent
  <2>3. Recent(failures[i]) \in Nat /\ Recent(failures'[i]) \in Nat /\ PerIp \in Nat
    <3>1. failures'[i] \in List
      BY <1>4 DEF ListInv
    <3> QED BY <2>0, <3>1, RecentIsLater, Numbers
  <2> QED BY <2>0, <2>1, <2>2, <2>3
<1>6. ASSUME NEW i \in Ip \ won, NEW t \in Int
      PROVE  Cardinality(Later(denied[i], t))' + Cardinality(Flying(i, t))'
                - Cardinality(Later(failures[i], t))'
                <= Cardinality(Later(denied[i], t)) + Cardinality(Flying(i, t))
                     - Cardinality(Later(failures[i], t))
  <2>1. Cardinality(Flying(i, t))' =
          Cardinality(Flying(i, t)) - (IF i = ip /\ t <= at THEN 1 ELSE 0)
    BY Landing DEF ip, at
  <2>2. Cardinality(Later(failures[i], t))' >=
          Cardinality(Later(failures[i], t)) - (IF i = ip /\ t <= at THEN 1 ELSE 0)
    <3>1. CASE i = ip
      <4>1. Later(failures[i], t)' = Later(Less(failures[ip], at), t)
        BY <1>0, <1>1, <3>1 DEF Later
      <4> QED BY <1>3, <3>1, <4>1
    <3>2. CASE i # ip
      <4>1. Later(failures[i], t)' = Later(failures[i], t)
        BY <1>0, <1>1, <3>2 DEF Later
      <4>2. Cardinality(Later(failures[i], t)) \in Nat
        BY <1>0, LaterType
      <4> QED BY <3>2, <4>1, <4>2
    <3> QED BY <3>1, <3>2
  <2>3. Later(denied[i], t)' = Later(denied[i], t)
    BY DEF Later
  <2>4. /\ Cardinality(Flying(i, t)) \in Nat /\ Cardinality(Later(failures[i], t)) \in Nat
        /\ Cardinality(Later(denied[i], t)) \in Nat
        /\ Cardinality(Later(failures[i], t))' \in Nat
    <3>1. failures'[i] \in List
      BY <1>4 DEF ListInv
    <3>2. Cardinality(Later(failures'[i], t)) \in Nat
      BY <3>1, LaterType
    <3> QED BY <1>0, <3>2, FlyingType, LaterType DEF Later
  <2> QED BY <2>1, <2>2, <2>3, <2>4
<1>7. FlightInv'
  BY DEF Books, FlightInv, InFlight, TypeOK, LoginOver
<1> QED BY <1>0, <1>4, <1>5, <1>6, <1>7, Balance

\* A log-in that fails keeps its reservation, and is counted instead.
LEMMA InvalidBooks ==
  ASSUME TypeOK, Books, TypeOK', NEW a \in Try, LoginInvalid(a)
  PROVE  Books'
<1> DEFINE ip == try[a].ip
           at == try[a].at
<1>0. /\ clock \in Nat /\ ip \in Ip /\ at \in Time /\ at \in Nat /\ a \in InFlight
      /\ denied \in [Ip -> List] /\ failures \in [Ip -> List] /\ allFailed \in List
      /\ denied[ip] \in List /\ won \subseteq Ip
  BY TryParts DEF Books, FlightInv, ListInv, TypeOK, InFlight, LoginInvalid
<1>1. /\ denied' = [denied EXCEPT ![ip] = Push(denied[ip], at)]
      /\ failures' = failures /\ allFailed' = allFailed /\ won' = won /\ clock' = clock
      /\ LoginOver(a)
  BY DEF LoginInvalid
<1> HIDE DEF ip, at
<1>3. /\ Push(denied[ip], at) \in List
      /\ \A t \in Int : Cardinality(Later(Push(denied[ip], at), t)) =
           Cardinality(Later(denied[ip], t)) + (IF t <= at THEN 1 ELSE 0)
  BY <1>0, PushList
<1>4. ListInv'
  BY <1>0, <1>1, <1>3 DEF ListInv
<1>5. ASSUME NEW i \in Ip PROVE Recent(failures[i])' <= PerIp
  BY <1>1 DEF Books, RoomInv, Recent
<1>6. ASSUME NEW i \in Ip \ won, NEW t \in Int
      PROVE  Cardinality(Later(denied[i], t))' + Cardinality(Flying(i, t))'
                - Cardinality(Later(failures[i], t))'
                <= Cardinality(Later(denied[i], t)) + Cardinality(Flying(i, t))
                     - Cardinality(Later(failures[i], t))
  <2>1. Cardinality(Flying(i, t))' =
          Cardinality(Flying(i, t)) - (IF i = ip /\ t <= at THEN 1 ELSE 0)
    BY <1>0, <1>1, Landing DEF ip, at
  <2>2. Cardinality(Later(denied[i], t))' =
          Cardinality(Later(denied[i], t)) + (IF i = ip /\ t <= at THEN 1 ELSE 0)
    <3>1. CASE i = ip
      <4>1. Later(denied[i], t)' = Later(Push(denied[ip], at), t)
        BY <1>0, <1>1, <3>1 DEF Later
      <4> QED BY <1>3, <3>1, <4>1
    <3>2. CASE i # ip
      <4>1. Later(denied[i], t)' = Later(denied[i], t)
        BY <1>0, <1>1, <3>2 DEF Later
      <4>2. Cardinality(Later(denied[i], t)) \in Nat
        BY <1>0, LaterType
      <4> QED BY <3>2, <4>1, <4>2
    <3> QED BY <3>1, <3>2
  <2>3. Later(failures[i], t)' = Later(failures[i], t)
    BY <1>1 DEF Later
  <2>4. /\ Cardinality(Flying(i, t)) \in Nat /\ Cardinality(Later(failures[i], t)) \in Nat
        /\ Cardinality(Later(denied[i], t)) \in Nat
    BY <1>0, FlyingType, LaterType
  <2> QED BY <2>1, <2>2, <2>3, <2>4
<1>7. FlightInv'
  BY <1>1 DEF Books, FlightInv, InFlight, TypeOK, LoginOver
<1> QED BY <1>0, <1>1, <1>4, <1>5, <1>6, <1>7, Balance

\* A log-in that succeeds clears its address, for which nothing is claimed any more.
LEMMA SucceedsBooks ==
  ASSUME TypeOK, Books, TypeOK', NEW a \in Try, LoginSucceeds(a)
  PROVE  Books'
<1> DEFINE ip == try[a].ip
           at == try[a].at
<1>0. /\ clock \in Nat /\ ip \in Ip /\ at \in Time /\ at \in Nat /\ a \in InFlight
      /\ denied \in [Ip -> List] /\ failures \in [Ip -> List] /\ allFailed \in List
      /\ won \subseteq Ip
  BY TryParts DEF Books, FlightInv, ListInv, TypeOK, InFlight, LoginSucceeds
<1>1. /\ failures' = [failures EXCEPT ![ip] = {}] /\ allFailed' = Less(allFailed, at)
      /\ denied' = denied /\ won' = won \cup {ip} /\ clock' = clock
      /\ LoginOver(a)
  BY DEF LoginSucceeds
<1> HIDE DEF ip, at
<1>4. ListInv'
  BY <1>0, <1>1, EmptyList, LessList DEF ListInv
<1>5. ASSUME NEW i \in Ip PROVE Recent(failures[i])' <= PerIp
  <2>1. CASE i = ip
    <3>1. {e \in failures'[i] : e[1] + Window > clock'} = {}
      BY <1>0, <1>1, <2>1
    <3> QED BY <3>1, FS_EmptySet, Numbers DEF Recent
  <2>2. CASE i # ip
    BY <1>0, <1>1, <2>2 DEF Books, RoomInv, Recent
  <2> QED BY <2>1, <2>2
<1>6. ASSUME NEW i \in Ip \ (won \cup {ip}), NEW t \in Int
      PROVE  /\ i \notin won
             /\ Cardinality(Later(denied[i], t))' + Cardinality(Flying(i, t))'
                - Cardinality(Later(failures[i], t))'
                <= Cardinality(Later(denied[i], t)) + Cardinality(Flying(i, t))
                     - Cardinality(Later(failures[i], t))
  <2>1. Cardinality(Flying(i, t))' = Cardinality(Flying(i, t))
    <3>1. Cardinality(Flying(i, t))' =
            Cardinality(Flying(i, t)) - (IF i = ip /\ t <= at THEN 1 ELSE 0)
      BY <1>0, <1>1, Landing DEF ip, at
    <3> QED BY <3>1, FlyingType
  <2>2. Later(denied[i], t)' = Later(denied[i], t) /\ Later(failures[i], t)' = Later(failures[i], t)
    BY <1>0, <1>1 DEF Later
  <2>3. /\ Cardinality(Flying(i, t)) \in Nat /\ Cardinality(Later(failures[i], t)) \in Nat
        /\ Cardinality(Later(denied[i], t)) \in Nat
    BY <1>0, FlyingType, LaterType
  <2> QED BY <2>1, <2>2, <2>3
<1>7. FlightInv'
  BY <1>1 DEF Books, FlightInv, InFlight, TypeOK, LoginOver
<1> QED BY <1>0, <1>1, <1>4, <1>5, <1>6, <1>7, Balance

\* As time passes, the window lets go of entries; a command changes no list.
LEMMA OtherBooks ==
  ASSUME TypeOK, Books, TypeOK', UNCHANGED <<failures, allFailed, denied, won>>,
         clock' \in {clock, clock + 1}, try' = try \/ Overtakes
  PROVE  Books'
<1>0. /\ clock \in Nat /\ clock' \in Nat /\ clock' >= clock /\ Window \in Nat /\ PerIp \in Nat
      /\ failures \in [Ip -> List]
  BY Numbers DEF TypeOK, Books, ListInv
<1>1. InFlight' = InFlight /\ \A ip, t : Flying(ip, t)' = Flying(ip, t)
  BY Overtaking DEF Flying, InFlight
<1>2. ASSUME NEW ip \in Ip PROVE Recent(failures[ip])' <= PerIp
  <2> DEFINE held == {e \in failures[ip] : e[1] + Window > clock}
             kept == {e \in failures[ip] : e[1] + Window > clock'}
  <2>1. failures[ip] \in List /\ \A e \in failures[ip] : e[1] \in Nat
    BY <1>0, ListElement, Numbers
  <2>2. kept \subseteq held
    BY <1>0, <2>1
  <2>3. IsFiniteSet(held)
    BY <2>1, ListParts
  <2>4. Cardinality(kept) <= Cardinality(held) /\ Cardinality(kept) \in Nat
        /\ Cardinality(held) \in Nat
    <3> HIDE DEF kept, held
    <3> QED BY <2>2, <2>3, FS_Subset, FS_CardinalityType
  <2>5. Cardinality(held) <= PerIp
    BY DEF Books, RoomInv, Recent
  <2> QED BY <1>0, <2>4, <2>5 DEF Recent
<1>3. FlightInv'
  BY <1>1, Overtaking DEF Books, FlightInv, InFlight
<1>4. BookInv'
  BY <1>1 DEF Books, BookInv, Later
<1> QED BY <1>2, <1>3, <1>4 DEF Books, ListInv, RoomInv

\* After a restart nothing is reserved and nothing counted.
LEMMA FreshBooks ==
  /\ failures = [ip \in Ip |-> {}] /\ allFailed = {} /\ denied = [ip \in Ip |-> {}]
  /\ try = [a \in Try |-> NoTry]
  => Books
<1> SUFFICES ASSUME failures = [ip \in Ip |-> {}], allFailed = {}, denied = [ip \in Ip |-> {}],
                    try = [a \in Try |-> NoTry]
             PROVE  Books
  OBVIOUS
<1>1. ListInv
  BY EmptyList DEF ListInv
<1>2. InFlight = {}
  BY DEF InFlight
<1>3. Cardinality({}) = 0
  BY FS_EmptySet
<1>4. RoomInv
  <2>1. ASSUME NEW ip \in Ip PROVE {e \in failures[ip] : e[1] + Window > clock} = {}
    OBVIOUS
  <2> QED BY <1>3, <2>1, Numbers DEF RoomInv, Recent
<1>5. BookInv
  <2>1. ASSUME NEW ip \in Ip, NEW t \in Int
        PROVE  Later(denied[ip], t) = {} /\ Later(failures[ip], t) = {} /\ Flying(ip, t) = {}
    BY <1>2 DEF Later, Flying
  <2> QED BY <1>3, <2>1 DEF BookInv
<1>6. FlightInv
  BY <1>2 DEF FlightInv
<1> QED BY <1>1, <1>4, <1>5, <1>6 DEF Books

-----------------------------------------------------------------------------
(* Types, and what a step changes of the credentials.                      *)

LEMMA NullTry == NoTry \in Attempt /\ NoTry.ip = None
  <1>1. 0 \in Time
    BY LoginAssumption DEF Time
  <1> QED BY <1>1 DEF NoTry, Attempt, Admin

LEMMA ListTypes ==
  ASSUME Books
  PROVE  /\ \A ip \in Ip, t \in Time : Push(failures[ip], t) \in Times /\ Less(failures[ip], t) \in Times
         /\ \A ip \in Ip, t \in Time : Push(denied[ip], t) \in Times
         /\ \A t \in Time : Push(allFailed, t) \in Times /\ Less(allFailed, t) \in Times
<1>1. \A times \in List, t \in Time : Push(times, t) \in Times /\ Less(times, t) \in Times
  BY PushList, LessList DEF List
<1> QED BY <1>1 DEF Books, ListInv

\* A bounded event only counts.
LEMMA HappensType ==
  ASSUME TypeOK, NEW b \in {"login", "cli", "boot"}, Happens(b)
  PROVE  used' \in [{"login", "cli", "boot"} -> Nat]
  BY DEF TypeOK, Happens

LEMMA BeginsType ==
  ASSUME TypeOK, Books, NEW a \in Try, NEW ip \in Ip, NEW right \in BOOLEAN,
         NEW code \in Codes(right), LoginBegins(a, ip, right, code)
  PROVE  TypeOK'
<1> DEFINE r == [ip |-> ip, at |-> clock, right |-> right, code |-> code,
                 late |-> FALSE, row |-> admin]
<1>1. code \in Step \cup {None, Bad}
  BY DEF Codes
<1>2. r \in Attempt
  BY <1>1 DEF Attempt, TypeOK
<1>3. try' = [try EXCEPT ![a] = r] /\ UNCHANGED <<clock, admin, sessions, denied, won, claims>>
  BY DEF LoginBegins, histVars
<1>4. try' \in [Try -> Attempt]
  <2> HIDE DEF r
  <2> QED BY <1>2, <1>3 DEF TypeOK
<1>5. failures' \in [Ip -> Times] /\ allFailed' \in Times
  BY ListTypes DEF LoginBegins, Reserve, TypeOK
<1>6. used' \in [{"login", "cli", "boot"} -> Nat]
  BY HappensType DEF LoginBegins
<1> QED BY <1>3, <1>4, <1>5, <1>6 DEF TypeOK

LEMMA EndsType ==
  ASSUME TypeOK, Books, NEW a \in Try, LoginUncounted(a) \/ LoginInvalid(a)
  PROVE  TypeOK'
<1>1. try' \in [Try -> Attempt] /\ a \in InFlight /\ try[a].ip \in Ip /\ try[a].at \in Time
  BY NullTry, TryParts DEF TypeOK, LoginUncounted, LoginInvalid, LoginOver, Books, FlightInv
<1>2. /\ failures' \in [Ip -> Times] /\ allFailed' \in Times
      /\ denied' \in [Ip -> Times]
  BY <1>1, ListTypes DEF TypeOK, LoginUncounted, LoginInvalid, Refund, histVars
<1> QED BY <1>1, <1>2 DEF TypeOK, LoginUncounted, LoginInvalid, histVars

\* What Claim writes.
LEMMA ClaimWrites ==
  ASSUME TypeOK, NEW a \in Try, Claim(a), SecondFactor(a)
  PROVE  \/ /\ admin' = admin /\ claims' = claims
            /\ try[a].row.sec = 0
         \/ /\ try[a].code \in Step /\ try[a].row.sec # 0 /\ Claimable(try[a].code)
            /\ admin' = [pw |-> admin.pw, sec |-> admin.sec, last |-> try[a].code]
            /\ \/ claims' = claims
               \/ claims' = [claims EXCEPT ![try[a].code] = claims[try[a].code] + 1]
<1>1. CASE try[a].row.sec = 0
  BY <1>1 DEF Claim
<1>2. CASE try[a].row.sec # 0
  <2>1. try[a].code \in Step /\ Claimable(try[a].code)
    BY <1>2 DEF SecondFactor, Matches
  <2>2. admin' = [pw |-> admin.pw, sec |-> admin.sec, last |-> try[a].code]
    BY <1>2 DEF Claim, TypeOK, Admin
  <2>3. claims' = claims \/ claims' = [claims EXCEPT ![try[a].code] = claims[try[a].code] + 1]
    BY <1>2 DEF Claim
  <2> QED BY <1>2, <2>1, <2>2, <2>3
<1> QED BY <1>1, <1>2

LEMMA SucceedsType ==
  ASSUME TypeOK, Books, NEW a \in Try, LoginSucceeds(a)
  PROVE  TypeOK'
<1>1. /\ try' \in [Try -> Attempt] /\ a \in InFlight
      /\ try[a].ip \in Ip /\ try[a].at \in Time /\ try[a].at \in Nat
      /\ try[a].late \in BOOLEAN /\ try[a].row \in Admin
  BY NullTry, TryParts DEF TypeOK, LoginSucceeds, LoginOver, Books, FlightInv
<1>2. /\ failures' \in [Ip -> Times] /\ allFailed' \in Times
      /\ won' \subseteq Ip /\ UNCHANGED <<clock, denied, used>>
  <2>1. {} \in Times
    BY DEF Times
  <2> QED BY <1>1, <2>1, ListTypes DEF TypeOK, LoginSucceeds
<1>3. admin' \in Admin /\ claims' \in [Step -> Nat]
  <2>1. Claim(a) /\ SecondFactor(a)
    BY DEF LoginSucceeds
  <2>2. admin.pw \in Nat /\ admin.sec \in Nat
    BY DEF TypeOK, Admin
  <2>3. CASE admin' = admin /\ claims' = claims
    BY <2>3 DEF TypeOK
  <2>4. CASE /\ try[a].code \in Step
             /\ admin' = [pw |-> admin.pw, sec |-> admin.sec, last |-> try[a].code]
             /\ \/ claims' = claims
                \/ claims' = [claims EXCEPT ![try[a].code] = claims[try[a].code] + 1]
    <3>1. admin' \in Admin
      BY <2>2, <2>4, Numbers DEF Admin
    <3>2. claims \in [Step -> Nat] /\ claims[try[a].code] + 1 \in Nat
      BY <2>4 DEF TypeOK
    <3>3. claims' \in [Step -> Nat]
      BY <2>4, <3>2
    <3> QED BY <3>1, <3>3
  <2> QED BY <2>1, <2>3, <2>4, ClaimWrites
<1>4. Session(a) \in SessionRow
  BY <1>1, Numbers DEF Session, SessionRow, Admin
<1>5. sessions' \subseteq SessionRow
  BY <1>4 DEF LoginSucceeds, TypeOK
<1> QED BY <1>1, <1>2, <1>3, <1>5 DEF TypeOK

LEMMA GateType ==
  ASSUME TypeOK, NEW s \in sessions, Gate(s) \/ Logout(s)
  PROVE  TypeOK' /\ UNCHANGED <<clock, admin, memVars, histVars>>
         /\ \A n \in sessions' : n \in sessions \/ (n.late = s.late /\ n.pw = s.pw /\ n.sec = s.sec)
<1>1. s \in SessionRow /\ clock \in Time
  BY DEF TypeOK
<1>2. Touched(s) \in SessionRow /\ Touched(s).late = s.late /\ Touched(s).pw = s.pw
      /\ Touched(s).sec = s.sec
  BY <1>1 DEF SessionRow, Touched
<1>3. sessions' \subseteq sessions \cup {Touched(s)}
  BY DEF Gate, Logout, Validate, DeleteSession
<1>4. UNCHANGED <<clock, admin, memVars, histVars, used>>
  BY DEF Gate, Logout
<1> HIDE DEF Touched
<1> QED BY <1>2, <1>3, <1>4 DEF TypeOK, memVars, histVars

LEMMA CommandType ==
  ASSUME TypeOK, SetPassword \/ RevokeSessions \/ \E sec \in Secrets : SetTotpSecret(sec)
  PROVE  TypeOK'
<1>1. CASE SetPassword
  <2>1. try' \in [Try -> Attempt] /\ used' \in [{"login", "cli", "boot"} -> Nat]
    BY <1>1, Overtaking, HappensType DEF SetPassword
  <2> QED BY <1>1, <2>1 DEF SetPassword, TypeOK, Admin, histVars
<1>2. CASE RevokeSessions
  BY <1>2 DEF RevokeSessions, TypeOK, memVars, histVars
<1>3. ASSUME NEW sec \in Secrets, SetTotpSecret(sec) PROVE TypeOK'
  <2>1. try' \in [Try -> Attempt] /\ used' \in [{"login", "cli", "boot"} -> Nat]
    BY <1>3, Overtaking, HappensType DEF SetTotpSecret
  <2>2. sec \in Nat
    BY DEF Secrets, TypeOK
  <2> QED BY <1>3, <2>1, <2>2 DEF SetTotpSecret, TypeOK, Admin
<1> QED BY <1>1, <1>2, <1>3

LEMMA TickType == ASSUME TypeOK, Tick PROVE TypeOK'
<1>1. clock' \in Time
  BY LoginAssumption DEF TypeOK, Tick, Time
<1>2. \A s \in sessions : s \in SessionRow
  BY DEF TypeOK
<1> QED BY <1>1, <1>2 DEF TypeOK, Tick, memVars, histVars

LEMMA RestartType == ASSUME TypeOK, Restart PROVE TypeOK'
<1>1. {} \in Times
  BY DEF Times
<1>2. used' \in [{"login", "cli", "boot"} -> Nat]
  BY HappensType DEF Restart
<1> QED BY <1>1, <1>2, NullTry DEF TypeOK, Restart

-----------------------------------------------------------------------------
(* Codes and sessions.                                                     *)

\* A claim is for a step later than every claimed one.
LEMMA SucceedsCodes ==
  ASSUME TypeOK, CodeInv, NEW a \in Try, LoginSucceeds(a)
  PROVE  CodeInv' /\ admin'.pw = admin.pw /\ admin'.sec = admin.sec
<1>0. Claim(a) /\ SecondFactor(a)
  BY DEF LoginSucceeds
<1>1. CASE admin' = admin /\ claims' = claims
  BY <1>1 DEF CodeInv
<1>2. ASSUME NEW step \in Step, step = try[a].code, Claimable(step),
             admin' = [pw |-> admin.pw, sec |-> admin.sec, last |-> step],
             \/ claims' = claims
             \/ claims' = [claims EXCEPT ![step] = claims[step] + 1]
      PROVE  CodeInv' /\ admin'.pw = admin.pw /\ admin'.sec = admin.sec
  <2>1. admin'.last = step /\ step \in Nat /\ admin'.pw = admin.pw /\ admin'.sec = admin.sec
    BY <1>2, Numbers
  <2>2. claims[step] = 0
    <3>1. admin.last \in Nat => admin.last # None
      BY Numbers
    <3>2. claims[step] # 0 => admin.last \in Nat /\ step <= admin.last
      BY DEF CodeInv
    <3> QED BY <1>2, <2>1, <3>1, <3>2 DEF Claimable
  <2>3. ASSUME NEW s \in Step
        PROVE  claims'[s] <= 1 /\ (claims'[s] # 0 => s <= step)
    <3>0. /\ s \in Nat /\ claims[s] <= 1 /\ claims \in [Step -> Nat]
          /\ (claims[s] # 0 => admin.last \in Nat /\ s <= admin.last)
      BY Numbers DEF CodeInv, TypeOK
    <3>1. claims[s] # 0 => s <= step
      <4>1. admin.last \in Nat => admin.last < step
        BY <1>2, Numbers DEF Claimable
      <4> QED BY <2>1, <3>0, <4>1
    <3>2. s # step => claims'[s] = claims[s]
      BY <1>2, <3>0
    <3>3. s = step => claims'[s] \in {0, 1}
      BY <1>2, <2>2, <3>0
    <3> QED BY <2>1, <3>0, <3>1, <3>2, <3>3
  <2> QED BY <2>1, <2>3 DEF CodeInv
<1> QED BY <1>0, <1>1, <1>2, ClaimWrites

LEMMA SucceedsSessions ==
  ASSUME TypeOK, CodeInv, ReadInv, SessionsFollowCredentials, NEW a \in Try, LoginSucceeds(a)
  PROVE  ReadInv' /\ SessionsFollowCredentials'
<1>1. admin'.pw = admin.pw /\ admin'.sec = admin.sec
  BY SucceedsCodes
<1>2. /\ a \in InFlight
      /\ \A b \in Try : try'[b] = IF b = a THEN NoTry ELSE try[b]
      /\ \A s \in sessions' : s \in sessions \/ s = Session(a)
  BY DEF LoginSucceeds, LoginOver, TypeOK
<1>3. /\ Session(a).late = try[a].late /\ Session(a).pw = try[a].row.pw
      /\ Session(a).sec = try[a].row.sec
  BY DEF Session
<1>4. ReadInv'
  BY <1>1, <1>2 DEF ReadInv, InFlight
<1>5. SessionsFollowCredentials'
  <2> SUFFICES ASSUME NEW s \in sessions'
               PROVE  s.late \/ (s.pw = admin'.pw /\ s.sec = admin'.sec)
    BY DEF SessionsFollowCredentials
  <2>1. CASE s \in sessions
    BY <1>1, <2>1 DEF SessionsFollowCredentials
  <2>2. CASE s = Session(a)
    BY <1>1, <1>2, <1>3, <2>2 DEF ReadInv
  <2> QED BY <1>2, <2>1, <2>2
<1> QED BY <1>4, <1>5

\* No command leaves a session, and all log-ins under way are late.
LEMMA CommandCodes ==
  ASSUME TypeOK, CodeInv, ReadInv, SessionsFollowCredentials,
         SetPassword \/ RevokeSessions \/ \E sec \in Secrets : SetTotpSecret(sec)
  PROVE  CodeInv' /\ ReadInv' /\ SessionsFollowCredentials'
<1>0. sessions' = {} /\ (try' = try \/ Overtakes)
  BY DEF SetPassword, RevokeSessions, SetTotpSecret, memVars
<1>1. SessionsFollowCredentials'
  BY <1>0 DEF SessionsFollowCredentials
<1>2. CASE RevokeSessions
  BY <1>1, <1>2 DEF RevokeSessions, memVars, histVars, CodeInv, ReadInv, InFlight
<1>3. CASE Overtakes /\ (SetPassword \/ \E sec \in Secrets : SetTotpSecret(sec))
  <2>1. ReadInv'
    BY <1>3, Overtaking DEF ReadInv, InFlight
  <2>2. CASE SetPassword
    <3>1. admin'.last = admin.last /\ claims' = claims
      BY <2>2 DEF SetPassword, TypeOK, Admin, histVars
    <3> QED BY <1>1, <2>1, <3>1 DEF CodeInv
  <2>3. CASE \E sec \in Secrets : SetTotpSecret(sec)
    <3>1. claims' = [s \in Step |-> 0]
      BY <2>3 DEF SetTotpSecret
    <3> QED BY <1>1, <2>1, <3>1 DEF CodeInv
  <2> QED BY <1>3, <2>2, <2>3
<1> QED BY <1>2, <1>3 DEF SetPassword, SetTotpSecret

-----------------------------------------------------------------------------
LEMMA InitIInv == Init => IInv
<1> SUFFICES ASSUME Init PROVE IInv
  OBVIOUS
<1>1. TypeOK
  <2>1. 0 \in Time /\ {} \in Times
    BY LoginAssumption DEF Time, Times
  <2>2. NoTry.row \in Admin
    BY DEF NoTry, Admin
  <2> QED BY <2>1, <2>2, NullTry DEF Init, TypeOK
<1>2. Books
  BY FreshBooks DEF Init
<1>3. CodeInv /\ ReadInv /\ SessionsFollowCredentials
  BY DEF Init, CodeInv, ReadInv, SessionsFollowCredentials, InFlight
<1> QED BY <1>1, <1>2, <1>3 DEF IInv

LEMMA IInvNext == ASSUME IInv, [Next]_vars PROVE IInv'
<1> USE DEF IInv
<1>1. ASSUME NEW a \in Try, NEW ip \in Ip, NEW right \in BOOLEAN, NEW code \in Codes(right),
             LoginBegins(a, ip, right, code)
      PROVE  IInv'
  <2>1. TypeOK'
    BY <1>1, BeginsType
  <2>2. Books'
    BY <1>1, <2>1, BeginsBooks
  <2>3. UNCHANGED <<admin, sessions, claims>>
    BY <1>1 DEF LoginBegins, histVars
  <2>4. CodeInv' /\ SessionsFollowCredentials'
    BY <2>3 DEF CodeInv, SessionsFollowCredentials
  <2>5. ReadInv'
    <3>1. /\ try'[a].row = admin
          /\ \A b \in Try : b # a => try'[b] = try[b]
      BY <1>1 DEF LoginBegins, TypeOK
    <3> QED BY <2>3, <3>1 DEF ReadInv, InFlight
  <2> QED BY <2>1, <2>2, <2>4, <2>5
<1>2. ASSUME NEW a \in Try, LoginUncounted(a) \/ LoginInvalid(a)
      PROVE  IInv'
  <2>1. TypeOK'
    BY <1>2, EndsType
  <2>2. Books'
    <3>1. CASE LoginUncounted(a)
      BY <2>1, <3>1, RefundBooks DEF LoginUncounted, histVars
    <3>2. CASE LoginInvalid(a)
      BY <2>1, <3>2, InvalidBooks
    <3> QED BY <1>2, <3>1, <3>2
  <2>3. UNCHANGED <<admin, sessions, claims>> /\ \A b \in Try : try'[b] \in {try[b], NoTry}
    BY <1>2 DEF LoginUncounted, LoginInvalid, histVars, LoginOver, TypeOK
  <2>4. CodeInv' /\ SessionsFollowCredentials' /\ ReadInv'
    BY <2>3 DEF CodeInv, SessionsFollowCredentials, ReadInv, InFlight
  <2> QED BY <2>1, <2>2, <2>4
<1>3. ASSUME NEW a \in Try, LoginSucceeds(a)
      PROVE  IInv'
  <2>1. TypeOK'
    BY <1>3, SucceedsType
  <2> QED BY <1>3, <2>1, SucceedsBooks, SucceedsCodes, SucceedsSessions
<1>4. ASSUME NEW s \in sessions, Gate(s) \/ Logout(s)
      PROVE  IInv'
  <2>1. TypeOK' /\ UNCHANGED <<clock, admin, memVars, histVars>>
    BY <1>4, GateType
  <2>2. Books'
    BY <2>1, OtherBooks DEF memVars, histVars
  <2>3. CodeInv' /\ ReadInv'
    BY <2>1 DEF CodeInv, ReadInv, InFlight, memVars, histVars
  <2>4. SessionsFollowCredentials'
    BY <1>4, <2>1, GateType DEF SessionsFollowCredentials
  <2> QED BY <2>1, <2>2, <2>3, <2>4
<1>5. CASE SetPassword \/ RevokeSessions \/ \E sec \in Secrets : SetTotpSecret(sec)
  <2>1. TypeOK'
    BY <1>5, CommandType
  <2>2. /\ UNCHANGED <<clock, failures, allFailed, denied, won>>
        /\ try' = try \/ Overtakes
    BY <1>5 DEF SetPassword, RevokeSessions, SetTotpSecret, memVars, histVars
  <2>3. Books'
    BY <2>1, <2>2, OtherBooks
  <2> QED BY <1>5, <2>1, <2>3, CommandCodes
<1>6. CASE Tick
  <2>1. TypeOK' /\ clock' = clock + 1 /\ UNCHANGED <<admin, sessions, memVars, histVars>>
    BY <1>6, TickType DEF Tick
  <2>2. Books'
    BY <2>1, OtherBooks DEF memVars, histVars
  <2>3. CodeInv' /\ ReadInv' /\ SessionsFollowCredentials'
    BY <2>1 DEF CodeInv, ReadInv, InFlight, SessionsFollowCredentials, memVars, histVars
  <2> QED BY <2>1, <2>2, <2>3
<1>7. CASE Restart
  <2>1. TypeOK'
    BY <1>7, RestartType
  <2>2. Books'
    <3>1. (/\ failures = [ip \in Ip |-> {}] /\ allFailed = {} /\ denied = [ip \in Ip |-> {}]
           /\ try = [a \in Try |-> NoTry])'
      BY <1>7 DEF Restart
    <3> QED BY <3>1, FreshBooks, PTL
  <2>3. CodeInv' /\ ReadInv' /\ SessionsFollowCredentials'
    BY <1>7 DEF Restart, CodeInv, ReadInv, InFlight, SessionsFollowCredentials
  <2> QED BY <2>1, <2>2, <2>3
<1>8. CASE UNCHANGED vars
  <2>1. UNCHANGED <<clock, admin, sessions, failures, allFailed, try, denied, won, claims, used>>
    BY <1>8 DEF vars, memVars, histVars
  <2>2. TypeOK'
    BY <2>1 DEF TypeOK
  <2>3. Books'
    BY <2>1, <2>2, OtherBooks
  <2> QED BY <2>1, <2>2, <2>3 DEF CodeInv, ReadInv, InFlight, SessionsFollowCredentials
<1> QED BY <1>1, <1>2, <1>3, <1>4, <1>5, <1>6, <1>7, <1>8 DEF Next

\* The strengthening holds in every reachable state.
THEOREM LoginInvariant == Spec => []IInv
BY InitIInv, IInvNext, PTL DEF Spec

\* Every variable keeps its type, whatever the limits and bounds.
THEOREM TypeCorrect == Spec => []TypeOK
<1>1. IInv => TypeOK
  BY DEF IInv
<1> QED BY <1>1, LoginInvariant, PTL

\* A burst of log-ins gets no more attempts out of one window than the limit,
\* however many run at once (session.ts: reserveFailure and its refund).
THEOREM BurstsAlwaysBounded == Spec => []BurstsBounded
<1>1. IInv => BurstsBounded
  <2> SUFFICES ASSUME IInv, NEW ip \in Ip \ won
               PROVE  Recent(denied[ip])
                        + Cardinality({a \in InFlight : try[a].ip = ip /\ try[a].at + Window > clock})
                        <= PerIp
    BY DEF BurstsBounded
  <2> DEFINE from == clock - Window + 1
  <2>1. /\ TypeOK /\ denied[ip] \in List /\ failures[ip] \in List
        /\ Recent(failures[ip]) <= PerIp /\ clock \in Nat /\ Window \in Nat
    BY Numbers DEF IInv, Books, ListInv, RoomInv, TypeOK
  <2>2. /\ Recent(denied[ip]) = Cardinality(Later(denied[ip], from)) /\ Recent(denied[ip]) \in Nat
        /\ Recent(failures[ip]) = Cardinality(Later(failures[ip], from))
        /\ Recent(failures[ip]) \in Nat /\ PerIp \in Nat
    BY <2>1, RecentIsLater, Numbers
  <2>3. {a \in InFlight : try[a].ip = ip /\ try[a].at + Window > clock} = Flying(ip, from)
    <3>1. \A a \in InFlight : try[a].at \in Nat
      BY <2>1, TryParts DEF InFlight
    <3> QED BY <2>1, <3>1 DEF Flying
  <2>4. Cardinality(Later(denied[ip], from)) + Cardinality(Flying(ip, from))
          <= Cardinality(Later(failures[ip], from))
    BY <2>1 DEF IInv, Books, BookInv
  <2>5. Cardinality(Flying(ip, from)) \in Nat
    BY FlyingType
  <2>6. Recent(denied[ip]) + Cardinality(Flying(ip, from)) <= PerIp
    <3> DEFINE d == Recent(denied[ip])
               f == Recent(failures[ip])
               n == Cardinality(Flying(ip, from))
    <3>1. d \in Nat /\ f \in Nat /\ n \in Nat /\ PerIp \in Nat /\ f <= PerIp
      BY <2>1, <2>2, <2>5
    <3>2. d + n <= f
      BY <2>2, <2>4
    <3> HIDE DEF d, f, n
    <3>3. d + n <= PerIp
      BY <3>1, <3>2
    <3> QED BY <3>3 DEF d, n
  <2> QED BY <2>3, <2>6
<1> QED BY <1>1, LoginInvariant, PTL

\* A code opens one session at most, whichever log-ins present it together or
\* after a restart (repos/auth.ts: claimTotpStep).
THEOREM CodesUsedOnce == Spec => []CodesSingleUse
<1>1. IInv => CodesSingleUse
  BY DEF IInv, CodeInv, CodesSingleUse
<1> QED BY <1>1, LoginInvariant, PTL

\* A session belongs to the password and the second factor that are valid, unless
\* its log-in was overtaken by their change (repos/auth.ts: setPassword, setTotpSecret).
THEOREM SessionsAlwaysFollow == Spec => []SessionsFollowCredentials
<1>1. IInv => SessionsFollowCredentials
  BY DEF IInv
<1> QED BY <1>1, LoginInvariant, PTL
=============================================================================
