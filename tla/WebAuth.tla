------------------------------- MODULE WebAuth -------------------------------
(****************************************************************************)
(* Logging in to the web UI: the limiter of failed logins, the password     *)
(* check against the shadow file, the signed token in the browser's cookie, *)
(* and the secret that signs it, which lives in the configuration that the  *)
(* bot, another process, reads and writes as well.                          *)
(*                                                                          *)
(* Every request runs in a goroutine of its own.  The limiter's mutex makes *)
(* each of its operations one step; the check of the password lies between  *)
(* them.  Times are kept as ages, which stop growing when they no longer    *)
(* matter.                                                                  *)
(****************************************************************************)
EXTENDS Naturals, FiniteSets

CONSTANTS
    Addresses,    \* addresses logins come from
    Requests,     \* slots for login requests in flight
    Passwords,
    MaxAttempts, Window, Lockout,   \* of the limiter (5, one minute, half a minute)
    Lifetime,     \* of a token and its cookie (a day)
    MaxStarts,    \* bound: times the web UI is started
    None,         \* no entry, request, secret or cookie
    NotRead,      \* the bot holds no copy of the configuration
    NoLogin, Odd  \* a locked account; a hash or a file that cannot be read

Keys   == 1..MaxStarts                       \* generated secrets, a new one each time
Hashes == Passwords \cup {NoLogin, Odd}
Old    == Window + Lockout + 1               \* past every deadline of the limiter
Ages   == 0..Old
Counts == 1..(MaxAttempts + Cardinality(Requests) - 1)
Entries == [count : Counts, first : Ages, locked : Ages \cup {None}]
Outcome == {"right", "wrong", "error"}
Inflight == [addr : Addresses, pass : Passwords, is : Outcome \cup {None}]

\* Wrong passwords within the time of a lockout: those that fill one window and those that
\* fill the next but for one each, and those in flight with them.
MostWrong  == 2 * (MaxAttempts - 1) + 2 * (Cardinality(Requests) - 1)
Remembered == MostWrong + 1

ASSUME BoundAssumption ==
    /\ {MaxAttempts, Window, Lockout, Lifetime, MaxStarts} \subseteq Nat \ {0}
    /\ IsFiniteSet(Requests) /\ Requests # {}
ASSUME LimiterAssumption == MaxAttempts >= 2 /\ Lockout <= Window
ASSUME NoneAssumption    == None \notin Nat /\ None \notin Entries

VARIABLES
    attempts,  \* the limiter's entry for each address
    req,       \* the login requests in flight
    shadow,    \* the account's line in the shadow file
    up,        \* the server: "up", "stopping", "down"
    secret,    \* signs tokens, in memory
    stored,    \* jwt_secret in vpn-director.json
    botCopy,   \* the same field in the copy the bot has read and will save
    cookie,    \* the token in the browser
    starts,    \* times the web UI was started
    wrong,     \* history: ages of the last wrong passwords from each address, newest first,
               \* since the web UI was started
    kept       \* history: the secret of the cookie has been in the file ever since

limiter == <<attempts, wrong>>
session == <<secret, stored, botCopy, cookie, kept>>
vars    == <<limiter, req, shadow, up, session, starts>>

NoneWrong == [a \in Addresses |-> [k \in 1..Remembered |-> Old]]

Init ==
    /\ attempts = [a \in Addresses |-> None] /\ wrong = NoneWrong
    /\ req = [r \in Requests |-> None]
    /\ shadow \in Passwords
    /\ up = "down" /\ secret = None /\ stored = None /\ botCopy = NotRead
    /\ cookie = None /\ kept = FALSE /\ starts = 0

-----------------------------------------------------------------------------
(* The limiter.                                                             *)

WindowOver(e) == e.first > Window
LockHolds(e)  == e.locked # None /\ e.locked < Lockout

\* allow: an entry whose lockout or, if it is not locked, window is over is deleted.
Allows(a)     == attempts[a] # None => ~LockHolds(attempts[a])
AfterAllow(a) ==
    LET e == attempts[a] IN
    IF e # None /\ ~LockHolds(e) /\ (e.locked # None \/ WindowOver(e))
    THEN [attempts EXCEPT ![a] = None] ELSE attempts

\* Faulty: the account is locked one failure late.
LockLate(n, was) == IF n > MaxAttempts THEN 0 ELSE was
LockFrom(n, was) == IF n >= MaxAttempts THEN 0 ELSE was

\* Faulty: failures count whenever they were.
AlwaysCounts(e) == e # None
StillCounts(e)  == e # None /\ ~WindowOver(e)

\* record: the failure is counted in the entry, or begins a new one.
Failed(a) ==
    LET e == attempts[a] IN
    /\ attempts' = [attempts EXCEPT ![a] =
           IF StillCounts(e) THEN [e EXCEPT !.count = @ + 1, !.locked = LockFrom(e.count + 1, @)]
                         ELSE [count |-> 1, first |-> 0, locked |-> None]]
    /\ wrong' = [wrong EXCEPT ![a] = [k \in 1..Remembered |-> IF k = 1 THEN 0 ELSE @[k - 1]]]

\* Faulty: an entry that was locked is kept.
NeverLocked(e) == WindowOver(e) /\ e.locked = None
Stale(e)       == WindowOver(e) /\ (e.locked # None => e.locked > Lockout)

\* Every minute, entries past their window and their lockout are removed.
Cleanup ==
    /\ up # "down"
    /\ \E a \in Addresses : attempts[a] # None /\ Stale(attempts[a])
    /\ attempts' = [a \in Addresses |-> IF attempts[a] # None /\ Stale(attempts[a])
                                        THEN None ELSE attempts[a]]
    /\ UNCHANGED <<wrong, req, shadow, up, session, starts>>

-----------------------------------------------------------------------------
(* POST /api/login and /api/logout.                                         *)

Login(r, a, p) ==
    /\ up = "up" /\ req[r] = None
    /\ attempts' = AfterAllow(a)
    /\ req' = IF Allows(a) THEN [req EXCEPT ![r] = [addr |-> a, pass |-> p, is |-> None]] ELSE req
    /\ UNCHANGED <<wrong, shadow, up, session, starts>>

\* The shadow file is read for each login.
Verified(p) == IF shadow = Odd THEN "error" ELSE IF shadow = p THEN "right" ELSE "wrong"
Verify(r) ==
    /\ up # "down" /\ req[r] # None /\ req[r].is = None
    /\ req' = [req EXCEPT ![r].is = Verified(req[r].pass)]
    /\ UNCHANGED <<limiter, shadow, up, session, starts>>

Over(r) == req' = [req EXCEPT ![r] = None]
Fail(r) ==
    /\ up # "down" /\ req[r] # None /\ req[r].is = "wrong"
    /\ Failed(req[r].addr) /\ Over(r)
    /\ UNCHANGED <<shadow, up, session, starts>>
Error(r) ==
    /\ up # "down" /\ req[r] # None /\ req[r].is = "error"
    /\ Over(r)
    /\ UNCHANGED <<limiter, shadow, up, session, starts>>
Token == [key |-> secret, age |-> 0]

\* The failures counted so far stay counted.
Enter(r) ==
    /\ up # "down" /\ req[r] # None /\ req[r].is = "right"
    /\ cookie' = Token /\ kept' = (stored = secret)
    /\ Over(r)
    /\ UNCHANGED <<limiter, shadow, up, secret, stored, botCopy, starts>>

Valid(t) == t.key = secret /\ t.age < Lifetime

\* What the middleware lets through to the other handlers.
Authorized == up = "up" /\ cookie # None /\ Valid(cookie)

Logout ==
    /\ Authorized /\ cookie' = None
    /\ UNCHANGED <<limiter, req, shadow, up, secret, stored, botCopy, kept, starts>>

-----------------------------------------------------------------------------
(* The web UI starts and stops.                                             *)

\* Faulty: a secret is generated at every start.
AlwaysGenerates == TRUE
Generates       == stored = None

NewLimiter == attempts' = [a \in Addresses |-> None] /\ wrong' = NoneWrong

\* A secret is generated when the configuration has none; it is saved, or the web UI goes
\* on with a secret no other start will know.
Start ==
    /\ up = "down" /\ starts < MaxStarts /\ starts' = starts + 1 /\ up' = "up"
    /\ NewLimiter
    /\ IF Generates
       THEN /\ secret' = starts + 1
            /\ \/ stored' = secret' /\ kept' = FALSE
               \/ UNCHANGED <<stored, kept>>
       ELSE secret' = stored /\ UNCHANGED <<stored, kept>>
    /\ UNCHANGED <<req, shadow, botCopy, cookie>>

\* A signal: no request is accepted, those in flight have five seconds.
Stop ==
    /\ up = "up" /\ up' = "stopping"
    /\ UNCHANGED <<limiter, req, shadow, session, starts>>
Exit ==
    /\ up # "down" /\ up' = "down" /\ req' = [r \in Requests |-> None]
    /\ UNCHANGED <<limiter, shadow, session, starts>>

-----------------------------------------------------------------------------
(* The surroundings.                                                        *)

\* The bot saves the whole configuration as it has read it, changes of its own aside.
BotRead ==
    /\ botCopy' = stored
    /\ UNCHANGED <<limiter, req, shadow, up, secret, stored, cookie, kept, starts>>
BotSave ==
    /\ botCopy # NotRead /\ stored' = botCopy /\ botCopy' = NotRead
    /\ kept' = (kept /\ stored' = stored)
    /\ UNCHANGED <<limiter, req, shadow, up, secret, cookie, starts>>

Passwd ==
    /\ shadow' \in Hashes \ {shadow}
    /\ UNCHANGED <<limiter, req, up, session, starts>>

Older(n) == IF n = None \/ n = Old THEN n ELSE n + 1
Tick ==
    /\ attempts' = [a \in Addresses |->
           IF attempts[a] = None THEN None
           ELSE [attempts[a] EXCEPT !.first = Older(@), !.locked = Older(@)]]
    /\ wrong' = [a \in Addresses |-> [k \in 1..Remembered |-> Older(wrong[a][k])]]
    /\ cookie' = IF cookie = None \/ cookie.age + 1 >= Lifetime THEN None
                 ELSE [cookie EXCEPT !.age = @ + 1]
    /\ UNCHANGED <<req, shadow, up, secret, stored, botCopy, kept, starts>>

Next == \/ \E r \in Requests : \/ \E a \in Addresses, p \in Passwords : Login(r, a, p)
                               \/ Verify(r) \/ Fail(r) \/ Error(r) \/ Enter(r)
        \/ Logout \/ Cleanup \/ Start \/ Stop \/ Exit \/ BotRead \/ BotSave \/ Passwd \/ Tick

Spec == Init /\ [][Next]_vars

\* Time passes, the cleaning goroutine's ticker fires, and handlers run to their end.
FairSpec == /\ Spec /\ WF_vars(Tick) /\ WF_vars(Cleanup)
            /\ \A r \in Requests : WF_vars(Verify(r) \/ Fail(r) \/ Error(r) \/ Enter(r))

-----------------------------------------------------------------------------
(* Properties.                                                              *)

\* Every variable keeps its type; in particular the count stays within what logins in
\* flight can add to the limit.
TypeOK ==
    /\ attempts \in [Addresses -> Entries \cup {None}]
    /\ wrong \in [Addresses -> [1..Remembered -> Ages]]
    /\ req \in [Requests -> Inflight \cup {None}]
    /\ shadow \in Hashes /\ up \in {"up", "stopping", "down"}
    /\ secret \in Keys \cup {None} /\ stored \in Keys \cup {None}
    /\ botCopy \in Keys \cup {None, NotRead}
    /\ cookie \in [key : Keys \cup {None}, age : 0..(Lifetime - 1)] \cup {None}
    /\ starts \in 0..MaxStarts /\ kept \in BOOLEAN

\* An address is locked out only for MaxAttempts wrong passwords of its own within one
\* window before the lock: right passwords, a shadow file that cannot be read, other
\* addresses and failures of an earlier window do not add up to a lockout.
NoUndueLockout ==
    \A a \in Addresses : attempts[a] # None /\ attempts[a].locked # None /\ LockHolds(attempts[a]) =>
        LET l == attempts[a].locked
            before == {k \in 1..Remembered : l <= wrong[a][k] /\ wrong[a][k] <= l + Window}
        IN  Cardinality(before) >= MaxAttempts

\* However logins interleave with the clock and with the clean-up, an address gets no
\* more than a known number of wrong passwords in the time a lockout lasts: those that
\* end one window and those that begin the next, and, twice, the ones in flight - those
\* that were let in before the lock are counted after it, and when the last of them
\* comes after the window it begins the next one itself.
Throttled ==
    \A a \in Addresses : Cardinality({k \in 1..Remembered : wrong[a][k] < Lockout}) <= MostWrong

\* A login outlives restarts of the web UI until its token expires, as long as the secret
\* was saved and the bot has not saved an older configuration over it.
StaysLoggedIn == up = "up" /\ cookie # None /\ kept => Authorized

\* The limiter does not keep addresses for ever: one that is not tried any more is
\* forgotten while the web UI runs.
Forgotten == \A a \in Addresses :
    <>[](up = "up" /\ \A r \in Requests : req[r] = None) => []<>(attempts[a] = None)
=============================================================================
