---------------------------- MODULE RateLimiter ----------------------------
(***************************************************************************)
(* auth.RateLimiter and the way login uses it: IsLocked decides whether an *)
(* attempt goes on; it ends with NoteFail, with Reset, or without either   *)
(* when no credential was checked.  Each call holds RateLimiter.mu and is  *)
(* one step; the attempts are goroutines, so several may be between their  *)
(* IsLocked and their NoteFail.                                            *)
(*                                                                         *)
(* Times are kept relative to now: age is time.Since(firstFail), counted   *)
(* up to just past lockWindow; lock is the time until lockedUntil.  An     *)
(* entry with fails = 0 is no entry.                                       *)
(***************************************************************************)
EXTENDS Integers, FiniteSets

CONSTANTS
    Attempts,   \* goroutines serving a login
    IPs,        \* addresses that are limited (not loopback)
    NoIP,       \* no limited attempt in progress
    maxFails,
    lockWindow  \* in clock ticks

ASSUME AttemptsAssumption == IsFiniteSet(Attempts)
ASSUME IPsAssumption == NoIP \notin IPs
ASSUME LimitsAssumption == maxFails \in Nat \ {0} /\ lockWindow \in Nat \ {0}

VARIABLES
    rec,        \* rec[ip]: RateLimiter.m
    admitted,   \* admitted[a]: the address of attempt a, past IsLocked and limited
    promised    \* history: time left of the lock that the last NoteFail installed

limiterVars == <<rec, admitted, promised>>

Rec == [fails : Nat, age : 0 .. lockWindow + 1, lock : 0 .. lockWindow]

NoRec == [fails |-> 0, age |-> 0, lock |-> 0]

LimiterTypeOK ==
    /\ rec \in [IPs -> Rec]
    /\ admitted \in [Attempts -> IPs \cup {NoIP}]
    /\ promised \in [IPs -> 0 .. lockWindow]

LimiterInit ==
    /\ rec = [ip \in IPs |-> NoRec]
    /\ admitted = [a \in Attempts |-> NoIP]
    /\ promised = [ip \in IPs |-> 0]

-----------------------------------------------------------------------------
Locked(ip) == rec[ip].lock > 0

\* IsLocked drops an entry whose first failure is older than the window, after
\* it has read lockedUntil for this call's answer.
Collected(ip) == IF rec[ip].age > lockWindow THEN NoRec ELSE rec[ip]

RefuseCounting(ip) ==
    /\ Locked(ip)
    /\ rec' = [rec EXCEPT ![ip].lock = lockWindow]
    /\ UNCHANGED <<admitted, promised>>

\* The attempt is answered 429.
Refuse(ip) ==
    /\ Locked(ip)
    /\ rec' = [rec EXCEPT ![ip] = Collected(ip)]
    /\ UNCHANGED <<admitted, promised>>

AdmitUnchecked(a, ip) ==
    /\ admitted[a] = NoIP
    /\ rec' = [rec EXCEPT ![ip] = Collected(ip)]
    /\ admitted' = [admitted EXCEPT ![a] = ip]
    /\ UNCHANGED promised

Admit(a, ip) ==
    /\ admitted[a] = NoIP
    /\ ~ Locked(ip)
    /\ rec' = [rec EXCEPT ![ip] = Collected(ip)]
    /\ admitted' = [admitted EXCEPT ![a] = ip]
    /\ UNCHANGED promised

CountedForever(ip) ==
    [fails |-> rec[ip].fails + 1, age |-> rec[ip].age,
     lock |-> IF rec[ip].fails + 1 >= maxFails THEN lockWindow ELSE rec[ip].lock]

CountedOneShort(ip) ==
    LET old == IF rec[ip].fails = 0 \/ rec[ip].age > lockWindow THEN NoRec ELSE rec[ip]
    IN  [fails |-> old.fails + 1, age |-> old.age,
         lock |-> IF old.fails + 1 > maxFails THEN lockWindow ELSE old.lock]

\* The failure counts towards the entry's window, or starts a new entry.
Counted(ip) ==
    LET old == IF rec[ip].fails = 0 \/ rec[ip].age > lockWindow THEN NoRec ELSE rec[ip]
    IN  [fails |-> old.fails + 1, age |-> old.age,
         lock |-> IF old.fails + 1 >= maxFails THEN lockWindow ELSE old.lock]

NoteFail(a) ==
    LET ip == admitted[a]
    IN  /\ ip # NoIP
        /\ rec' = [rec EXCEPT ![ip] = Counted(ip)]
        /\ admitted' = [admitted EXCEPT ![a] = NoIP]
        /\ promised' = [promised EXCEPT ![ip] =
                          IF Counted(ip).fails >= maxFails THEN lockWindow ELSE @]

\* A verified password forgets the address, a lock included.
Reset(a) ==
    LET ip == admitted[a]
    IN  /\ ip # NoIP
        /\ rec' = [rec EXCEPT ![ip] = NoRec]
        /\ admitted' = [admitted EXCEPT ![a] = NoIP]
        /\ promised' = [promised EXCEPT ![ip] = 0]

\* The attempt ends before a credential is checked; the limiter is left alone.
Release(a) ==
    /\ admitted[a] # NoIP
    /\ admitted' = [admitted EXCEPT ![a] = NoIP]
    /\ UNCHANGED <<rec, promised>>

Aged(r) == IF r.fails = 0 THEN r
           ELSE [r EXCEPT !.age = IF @ > lockWindow THEN @ ELSE @ + 1,
                          !.lock = IF @ > 0 THEN @ - 1 ELSE 0]

LimiterTick ==
    /\ rec' = [ip \in IPs |-> Aged(rec[ip])]
    /\ promised' = [ip \in IPs |-> IF promised[ip] > 0 THEN promised[ip] - 1 ELSE 0]
    /\ UNCHANGED admitted

\* "In-memory, process-local": a new process knows no failures.
LimiterRestart ==
    /\ rec' = [ip \in IPs |-> NoRec]
    /\ admitted' = [a \in Attempts |-> NoIP]
    /\ promised' = [ip \in IPs |-> 0]

LimiterNext ==
    \/ \E ip \in IPs : Refuse(ip) \/ \E a \in Attempts : Admit(a, ip)
    \/ \E a \in Attempts : NoteFail(a) \/ Reset(a) \/ Release(a)
    \/ LimiterTick
    \/ LimiterRestart

LimiterSpec == LimiterInit /\ [][LimiterNext]_limiterVars

\* Only the clock is owed progress.
LimiterFairSpec == LimiterSpec /\ WF_limiterVars(LimiterTick)

-----------------------------------------------------------------------------
(* Correctness. *)

InFlight(ip) == {a \in Attempts : admitted[a] = ip}

\* However many logins race, no address has more than maxFails - 1 wrong
\* passwords plus one per concurrent login counted inside one window.
FailsBounded ==
    \A ip \in IPs :
        rec[ip].age < lockWindow =>
            rec[ip].fails + Cardinality(InFlight(ip))
                <= maxFails - 1 + Cardinality(Attempts)

\* The strengthening of FailsBounded: an entry with maxFails failures stays
\* locked at least until its window is over.
LimiterInv ==
    /\ FailsBounded
    /\ \A ip \in IPs :
        /\ rec[ip].fails >= maxFails => rec[ip].lock + rec[ip].age >= lockWindow
        /\ rec[ip].fails = 0 => rec[ip].age = 0 /\ rec[ip].lock = 0

\* A lock ends although its address goes on trying: a refused attempt does not
\* prolong it, and the attempts already past IsLocked are used up.
LockEnds == \A ip \in IPs : []<>(~ Locked(ip))

\* ratelimit.go, line 8: "after 5 failed logins from an IP, lock it for 15
\* minutes": no login from the address gets past IsLocked meanwhile.
LockedForWholeWindow ==
    [][\A a \in Attempts, ip \in IPs :
          admitted[a] = NoIP /\ admitted'[a] = ip => promised[ip] = 0]_limiterVars
=============================================================================
