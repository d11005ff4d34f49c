------------------------------- MODULE Login --------------------------------
(***************************************************************************)
(* The operator's log-in (auth/session.ts AuthService, http/auth-routes.ts,*)
(* repos/auth.ts) next to the commands that change the password or the     *)
(* second factor from another process (cli.ts).  A log-in reads the admin  *)
(* row, then awaits a slow password check, then acts on what it read.      *)
(***************************************************************************)
EXTENDS Integers, FiniteSets

CONSTANTS
  Ip,           \* client addresses; the map keeps 10 000, more than there are
  Try,          \* slots of log-ins, used again and again
  None,
  Bad,          \* a code that is none of the accepted steps'
  PerIp,        \* perIpFailures
  Global,       \* globalFailures
  MaxInFlight,  \* verifies at a time while not slowed
  Window,       \* windowMs, in ticks; a tick is one TOTP step
  IdleFor,      \* idleMs
  LiveFor,      \* absoluteMs
  MaxClock,     \* bound: ticks
  MaxLogin,     \* bound: log-ins begun
  MaxCli,       \* bound: commands that change the credentials
  MaxBoot       \* bound: restarts of the server

ASSUME LoginAssumption ==
  /\ {PerIp, Global, MaxInFlight, Window, IdleFor, LiveFor} \subseteq Nat \ {0}
  /\ {MaxClock, MaxLogin, MaxCli, MaxBoot} \subseteq Nat
  /\ None # Bad /\ {None, Bad} \cap (Nat \cup Ip) = {}
  /\ IsFiniteSet(Try)

VARIABLES
  clock,
  admin,     \* the admin row: versions of password and secret, last TOTP step
  sessions,  \* the sessions table
  failures,  \* per address, the list of its reservations' times
  allFailed, \* the same for all addresses together
  try,       \* the log-ins under way
  denied,    \* history: answers "invalid", by address and the log-in's tick
  won,       \* history: addresses that logged in since the server started
  claims,    \* history: how often the current secret's steps were accepted
  used       \* of the bounds

memVars == <<failures, allFailed, try>>
histVars == <<denied, won, claims>>
vars == <<clock, admin, sessions, memVars, histVars, used>>

\* A list of times, whose order is theirs, is the set of its entries: <<t, i>> is
\* the i-th of tick t.
Time == 0..MaxClock
Times == SUBSET (Time \X (Nat \ {0}))
Step == 0..(MaxClock + 1)

\* The row as it is read; pw 0 stands for no row at all.
Admin == [pw : Nat, sec : Nat, last : Nat \cup {None}]
NoTry == [ip |-> None, at |-> 0, right |-> FALSE, code |-> None, late |-> FALSE,
          row |-> [pw |-> 0, sec |-> 0, last |-> None]]

Attempt == [ip : Ip \cup {None}, at : Time, right : BOOLEAN,
            code : Step \cup {None, Bad}, late : BOOLEAN, row : Admin]
SessionRow == [pw : Nat, sec : Nat, seen : Time, expires : Nat, late : BOOLEAN]

TypeOK ==
  /\ clock \in Time
  /\ admin \in Admin
  /\ sessions \subseteq SessionRow
  /\ failures \in [Ip -> Times]
  /\ allFailed \in Times
  /\ try \in [Try -> Attempt]
  /\ denied \in [Ip -> Times]
  /\ won \in SUBSET Ip
  /\ claims \in [Step -> Nat]
  /\ used \in [{"login", "cli", "boot"} -> Nat]

Init ==
  /\ clock = 0
  /\ admin = NoTry.row
  /\ sessions = {}
  /\ failures = [ip \in Ip |-> {}] /\ allFailed = {}
  /\ try = [a \in Try |-> NoTry]
  /\ denied = [ip \in Ip |-> {}] /\ won = {} /\ claims = [s \in Step |-> 0]
  /\ used = [b \in {"login", "cli", "boot"} |-> 0]

Limit == [login |-> MaxLogin, cli |-> MaxCli, boot |-> MaxBoot]
Happens(b) == used[b] < Limit[b] /\ used' = [used EXCEPT ![b] = @ + 1]

-----------------------------------------------------------------------------
(* Throttling.                                                             *)

\* How many of a list of times the window still holds.
Recent(times) == Cardinality({e \in times : e[1] + Window > clock})

\* How often it holds t; push(), and lastIndexOf() with splice(): one entry of
\* that time goes, whoever put it there.
Count(times, t) == Cardinality({e \in times : e[1] = t})
Push(times, t) == times \cup {<<t, Count(times, t) + 1>>}
Less(times, t) == times \ {<<t, Count(times, t)>>}

Throttled(ip) == Recent(failures[ip]) >= PerIp
GloballySlowed == Recent(allFailed) >= Global
InFlight == {a \in Try : try[a] # NoTry}

Reserve(ip) ==
  /\ failures' = [failures EXCEPT ![ip] = Push(@, clock)]
  /\ allFailed' = Push(allFailed, clock)

Refund(a) ==
  /\ failures' = [failures EXCEPT ![try[a].ip] = Less(@, try[a].at)]
  /\ allFailed' = Less(allFailed, try[a].at)

-----------------------------------------------------------------------------
(* login().                                                                *)

LoginBegins(a, ip, right, code) ==
  /\ Happens("login")
  /\ try[a] = NoTry
  /\ ~Throttled(ip)
  /\ Cardinality(InFlight) < (IF GloballySlowed THEN 1 ELSE MaxInFlight)
  /\ Reserve(ip)
  /\ try' = [try EXCEPT ![a] = [ip |-> ip, at |-> clock, right |-> right, code |-> code,
                                late |-> FALSE, row |-> admin]]
  /\ UNCHANGED <<clock, admin, sessions, histVars>>

\* The request is answered; the next attempt is another log-in.
LoginOver(a) == try' = [try EXCEPT ![a] = NoTry]

\* No admin row, or the code is still to come: not counted.
LoginUncounted(a) ==
  /\ a \in InFlight
  /\ \/ try[a].row.pw = 0
     \/ try[a].right /\ try[a].row.sec # 0 /\ try[a].code = None
  /\ Refund(a)
  /\ LoginOver(a)
  /\ UNCHANGED <<clock, admin, sessions, histVars, used>>

\* matchTotp() with the secret and the time of the beginning.
Matches(a) == try[a].code \in {s \in Step : s + 1 >= try[a].at /\ s <= try[a].at + 1}

\* Mutant of Claimable: the last accepted step is accepted again.
ClaimableAgain(step) == admin.last # None => admin.last <= step

\* claimTotpStep(): one UPDATE of the row as it is now.
Claimable(step) == admin.last # None => admin.last < step

Passes(a) == try[a].row.pw # 0 /\ try[a].right
SecondFactor(a) == try[a].row.sec # 0 => Matches(a) /\ Claimable(try[a].code)

\* Mutant of LoginInvalid: every answer refunds the reservation.
LoginInvalidRefunds(a) ==
  /\ a \in InFlight
  /\ \/ try[a].row.pw # 0 /\ ~try[a].right
     \/ Passes(a) /\ try[a].code # None /\ ~SecondFactor(a)
  /\ denied' = [denied EXCEPT ![try[a].ip] = Push(@, try[a].at)]
  /\ Refund(a)
  /\ LoginOver(a)
  /\ UNCHANGED <<clock, admin, sessions, won, claims, used>>

LoginInvalid(a) ==
  /\ a \in InFlight
  /\ \/ try[a].row.pw # 0 /\ ~try[a].right
     \/ Passes(a) /\ try[a].code # None /\ ~SecondFactor(a)
  /\ denied' = [denied EXCEPT ![try[a].ip] = Push(@, try[a].at)]
  /\ LoginOver(a)
  /\ UNCHANGED <<clock, admin, sessions, failures, allFailed, won, claims, used>>

Claim(a) ==
  IF try[a].row.sec = 0 THEN UNCHANGED <<admin, claims>>
  ELSE /\ admin' = [admin EXCEPT !.last = try[a].code]
       /\ claims' = IF try[a].row.sec # admin.sec THEN claims
                    ELSE [claims EXCEPT ![try[a].code] = @ + 1]

\* pruneSessions() compares with the time the log-in began.
Kept(s, now) == s.expires > now /\ s.seen + IdleFor > now

\* createSession(): what it opens, with the credentials it was let in by.
Session(a) == [pw |-> try[a].row.pw, sec |-> try[a].row.sec, seen |-> try[a].at,
               expires |-> try[a].at + LiveFor, late |-> try[a].late]

LoginSucceeds(a) ==
  LET ip == try[a].ip at == try[a].at IN
  /\ a \in InFlight /\ Passes(a) /\ SecondFactor(a)
  /\ Claim(a)
  /\ allFailed' = Less(allFailed, at)
  /\ failures' = [failures EXCEPT ![ip] = {}]
  /\ sessions' = {s \in sessions : Kept(s, at)} \cup {Session(a)}
  /\ won' = won \cup {ip}
  /\ LoginOver(a)
  /\ UNCHANGED <<clock, denied, used>>

-----------------------------------------------------------------------------
(* Sessions.                                                               *)

DeleteSession(s) == sessions' = sessions \ {s}

\* The idle window slides, but is written at most once a minute, two ticks.
Touched(s) == [s EXCEPT !.seen = IF clock > @ + 2 THEN clock ELSE @]

\* An expired session goes.
Validate(s) ==
  IF Kept(s, clock) THEN sessions' = (sessions \ {s}) \cup {Touched(s)} ELSE DeleteSession(s)

\* Any request of a browser that has the cookie, once a password is set.
Gate(s) ==
  /\ s \in sessions /\ admin.pw # 0
  /\ Validate(s)
  /\ UNCHANGED <<clock, admin, memVars, histVars, used>>

Logout(s) ==
  /\ s \in sessions
  /\ DeleteSession(s)
  /\ UNCHANGED <<clock, admin, memVars, histVars, used>>

-----------------------------------------------------------------------------
(* The commands, each one transaction.                                     *)

\* Log-ins under way go on with the row they read.
Overtakes == try' = [a \in Try |-> IF a \in InFlight THEN [try[a] EXCEPT !.late = TRUE] ELSE try[a]]

SetPassword ==
  /\ Happens("cli")
  /\ admin' = [admin EXCEPT !.pw = @ + 1]
  /\ sessions' = {}
  /\ Overtakes
  /\ UNCHANGED <<clock, failures, allFailed, histVars>>

\* Mutant of SetTotpSecret: sessions opened without the new factor go on.
SetTotpSecretOnly(sec) ==
  /\ Happens("cli")
  /\ admin.pw # 0
  /\ admin' = [admin EXCEPT !.sec = sec, !.last = None]
  /\ Overtakes
  /\ claims' = [s \in Step |-> 0]
  /\ UNCHANGED <<clock, sessions, failures, allFailed, denied, won>>

\* A new secret, or none: odd versions are secrets, 0 is none.
SetTotpSecret(sec) ==
  /\ Happens("cli")
  /\ admin.pw # 0
  /\ admin' = [admin EXCEPT !.sec = sec, !.last = None]
  /\ sessions' = {}
  /\ Overtakes
  /\ claims' = [s \in Step |-> 0]
  /\ UNCHANGED <<clock, failures, allFailed, denied, won>>

RevokeSessions ==
  /\ sessions # {}
  /\ sessions' = {}
  /\ UNCHANGED <<clock, admin, memVars, histVars, used>>

Tick ==
  /\ clock < MaxClock
  /\ clock' = clock + 1
  /\ UNCHANGED <<admin, sessions, memVars, histVars, used>>

\* The throttle is in memory only; sessions and the last step are not.
Restart ==
  /\ Happens("boot")
  /\ failures' = [ip \in Ip |-> {}] /\ allFailed' = {}
  /\ try' = [a \in Try |-> NoTry]
  /\ denied' = [ip \in Ip |-> {}] /\ won' = {}
  /\ UNCHANGED <<clock, admin, sessions, claims>>

Secrets == {0, used["cli"] + 1}

\* What a client may send, as far as the answer can depend on it; a code is the
\* step that totpAt() makes it of.
Codes(right) ==
  IF right /\ admin.sec # 0 THEN {None, Bad} \cup {s \in Step : s + 1 >= clock /\ s <= clock + 1}
  ELSE {None}

Next ==
  \/ \E a \in Try, ip \in Ip, right \in BOOLEAN :
       \E code \in Codes(right) : LoginBegins(a, ip, right, code)
  \/ \E a \in Try : LoginUncounted(a) \/ LoginInvalid(a) \/ LoginSucceeds(a)
  \/ \E s \in sessions : Gate(s) \/ Logout(s)
  \/ SetPassword \/ RevokeSessions \/ \E sec \in Secrets : SetTotpSecret(sec)
  \/ Tick
  \/ Restart

Spec == Init /\ [][Next]_vars

-----------------------------------------------------------------------------
(* Safety.                                                                 *)

\* An address that never logged in has at most PerIp log-ins in a window that
\* failed or may still fail, however many of them run at once (reserveFailure).
BurstsBounded ==
  \A ip \in Ip \ won :
    Recent(denied[ip]) + Cardinality({a \in InFlight : try[a].ip = ip /\ try[a].at + Window > clock})
      <= PerIp

\* A code opens one session at most, whatever log-ins present it at the same
\* time or after a restart, unless the secret changed under a log-in (claimTotpStep).
CodesSingleUse == \A s \in Step : claims[s] <= 1

\* A change of password or second factor ends every session, but for those of
\* log-ins that were under way (setPassword, setTotpSecret).
SessionsFollowCredentials ==
  \A s \in sessions : s.late \/ (s.pw = admin.pw /\ s.sec = admin.sec)

\* What setPassword's comment says: a password change must log everyone out.
EveryoneIsLoggedOut == \A s \in sessions : s.pw = admin.pw
=============================================================================
