------------------------------- MODULE Login -------------------------------
(***************************************************************************)
(* POST /api/auth/login end to end: the handler `login` calls the rate     *)
(* limiter, the challenge table, the users table, the limiter again and    *)
(* the sessions table, in this order, while other logins do the same.      *)
(* Each step below is one of these calls; the components' own modules say  *)
(* what it does there.                                                     *)
(*                                                                         *)
(* A client posts a payload that holds a nonce and a password.  Payloads   *)
(* are not bound to a client, so several attempts may post the same one.   *)
(***************************************************************************)
EXTENDS LoginCrypto, RateLimiter, Accounts

CONSTANT
    NoNonce     \* no nonce is held by the attempt

\* The goroutine of an attempt is the one that runs its half of the database work;
\* a token is a string of fixed length.
ASSUME LoginsAssumption == Logins = Attempts
ASSUME LoginSetsAssumption == IsFiniteSet(Tokens) /\ NoNonce \notin Nonces

VARIABLES
    step,       \* step[a]: where attempt a is in the handler
    nonce,      \* nonce[a]: the nonce of the payload attempt a has decrypted
    paidBy      \* history: paidBy[t] is the nonce that opened session t

loginVars == <<step, nonce, paidBy>>
vars == <<challengeVars, limiterVars, accountVars, loginVars>>

Steps == {"idle", "admitted", "decrypted", "rejected", "passed", "reset", "inserted"}

\* The components check their own part of it in their own runs.
LoginTypeOK ==
    /\ ChallengeTypeOK /\ LimiterTypeOK /\ AccountsTypeOK
    /\ step \in [Attempts -> Steps]
    /\ nonce \in [Attempts -> Nonces \cup {NoNonce}]
    /\ paidBy \in [Tokens -> Nonces \cup {NoNonce}]

Init ==
    /\ ChallengeInit /\ LimiterInit /\ AccountsInit
    /\ step = [a \in Attempts |-> "idle"]
    /\ nonce = [a \in Attempts |-> NoNonce]
    /\ paidBy = [t \in Tokens |-> NoNonce]

Goto(a, from, to) == step[a] = from /\ step' = [step EXCEPT ![a] = to]

\* The handler answers.
Answer(a) ==
    /\ step' = [step EXCEPT ![a] = "idle"]
    /\ nonce' = [nonce EXCEPT ![a] = NoNonce]
    /\ UNCHANGED paidBy

-----------------------------------------------------------------------------
\* loginKey: anyone may fetch a key and a challenge, at any time.
FetchKey(ch) ==
    /\ NewChallenge(ch)
    /\ UNCHANGED <<limiterVars, accountVars, loginVars>>

TooManyAttempts(ip) ==
    /\ Refuse(ip)
    /\ UNCHANGED <<challengeVars, accountVars, loginVars>>

PassLimiter(a, ip) ==
    /\ Goto(a, "idle", "admitted")
    /\ Admit(a, ip)
    /\ UNCHANGED <<challengeVars, accountVars, nonce, paidBy>>

\* A loopback client is not limited.
PassFromLoopback(a) ==
    /\ Goto(a, "idle", "admitted")
    /\ UNCHANGED <<challengeVars, limiterVars, accountVars, nonce, paidBy>>

\* What becomes of the limiter when an attempt ends without a verdict.
ReleaseIfLimited(a) ==
    IF admitted[a] = NoIP THEN UNCHANGED limiterVars ELSE Release(a)

\* Decrypt of a payload whose nonce the table still holds.
DecryptPayload(a, ch) ==
    /\ Goto(a, "admitted", "decrypted")
    /\ Redeemable(ch) /\ Consume(ch)
    /\ nonce' = [nonce EXCEPT ![a] = ch]
    /\ UNCHANGED <<limiterVars, accountVars, paidBy>>

\* Decrypt of any other payload: unreadable, or with a nonce that is unknown or
\* past its expiry (and is then dropped).  The limiter is left alone: 400.
BadPayloadCounted(a) ==
    /\ step[a] = "admitted"
    /\ \/ UNCHANGED challengeVars
       \/ \E ch \in Nonces : ~ Redeemable(ch) /\ Consume(ch)
    /\ IF admitted[a] = NoIP THEN UNCHANGED limiterVars ELSE NoteFail(a)
    /\ Answer(a)
    /\ UNCHANGED accountVars

BadPayload(a) ==
    /\ step[a] = "admitted"
    /\ \/ UNCHANGED challengeVars
       \/ \E ch \in Nonces : ~ Redeemable(ch) /\ Consume(ch)
    /\ ReleaseIfLimited(a)
    /\ Answer(a)
    /\ UNCHANGED accountVars

\* GetByUsername and VerifyPassword agree with the payload.
PasswordRight(a, n, p) ==
    /\ Goto(a, "decrypted", "passed")
    /\ Verify(a, n, p)
    /\ UNCHANGED <<challengeVars, limiterVars, nonce, paidBy>>

\* No such user, a disabled one, a wrong password or a database error.
PasswordWrong(a) ==
    /\ Goto(a, "decrypted", "rejected")
    /\ UNCHANGED <<challengeVars, limiterVars, accountVars, nonce, paidBy>>

\* The 401, counted when the client is limited.
Reject(a) ==
    /\ step[a] = "rejected"
    /\ IF admitted[a] = NoIP THEN UNCHANGED limiterVars ELSE NoteFail(a)
    /\ Answer(a)
    /\ UNCHANGED <<challengeVars, accountVars>>

ResetLimiter(a) ==
    /\ Goto(a, "passed", "reset")
    /\ IF admitted[a] = NoIP THEN UNCHANGED limiterVars ELSE Reset(a)
    /\ UNCHANGED <<challengeVars, accountVars, nonce, paidBy>>

OpenSession(a, t) ==
    /\ Goto(a, "reset", "inserted")
    /\ CreateSession(a, t)
    /\ paidBy' = [paidBy EXCEPT ![t] = nonce[a]]
    /\ UNCHANGED <<challengeVars, limiterVars, nonce>>

OpenSessionFails(a) ==
    /\ step[a] = "reset"
    /\ CreateSessionFails(a)
    /\ Answer(a)
    /\ UNCHANGED <<challengeVars, limiterVars>>

FinishLogin(a) ==
    /\ step[a] = "inserted"
    /\ Purge(a)
    /\ Answer(a)
    /\ UNCHANGED <<challengeVars, limiterVars>>

HandlerStep(a) ==
    \/ \E ip \in IPs : PassLimiter(a, ip)
    \/ PassFromLoopback(a)
    \/ \E ch \in Nonces : DecryptPayload(a, ch)
    \/ BadPayload(a)
    \/ \E n \in Names, p \in Passwords : PasswordRight(a, n, p)
    \/ PasswordWrong(a)
    \/ Reject(a)
    \/ ResetLimiter(a)
    \/ \E t \in Tokens : OpenSession(a, t)
    \/ OpenSessionFails(a)
    \/ FinishLogin(a)

\* Everything else that happens to the tables meanwhile.
OtherRequests ==
    /\ \/ \E q \in Requests : RequestStep(q)
       \/ \E t \in Tokens : Logout(t)
       \/ \E n \in Names : CliFind(n)
       \/ \E p \in Passwords : CliSet(p)
    /\ UNCHANGED <<challengeVars, limiterVars, loginVars>>

Tick ==
    /\ ChallengeTick /\ LimiterTick /\ AccountsTick
    /\ UNCHANGED loginVars

Restart ==
    /\ ChallengeRestart /\ LimiterRestart /\ AccountsRestart
    /\ step' = [a \in Attempts |-> "idle"]
    /\ nonce' = [a \in Attempts |-> NoNonce]
    /\ UNCHANGED paidBy

Next ==
    \/ \E ch \in Nonces : FetchKey(ch)
    \/ \E ip \in IPs : TooManyAttempts(ip)
    \/ \E a \in Attempts : HandlerStep(a)
    \/ OtherRequests
    \/ Tick
    \/ Restart

Spec == Init /\ [][Next]_vars

-----------------------------------------------------------------------------
(* Correctness of the handler as a whole. *)

\* A payload posted twice, by the same client or another, one after the other or
\* at once, opens at most one session and gets at most one password checked.
OneLoginPerPayload ==
    /\ \A a, b \in Attempts : nonce[a] = nonce[b] /\ nonce[a] # NoNonce => a = b
    /\ \A s, t \in Tokens : paidBy[s] = paidBy[t] /\ paidBy[s] # NoNonce => s = t
    /\ \A a \in Attempts, t \in Tokens :
          nonce[a] = paidBy[t] /\ nonce[a] # NoNonce => step[a] = "inserted"

Spent == {ch \in Nonces : accepted[ch] > 0}

\* "No credential was checked, so this is not a failed login attempt": every
\* failure the limiter holds, every login past Decrypt and every session cost a
\* challenge of its own, so stale payloads alone never lock an address.
FailuresCostChallenges ==
    \A ip \in IPs :
        rec[ip].fails + Cardinality({a \in Attempts : nonce[a] # NoNonce /\ step[a] # "inserted"})
            + Cardinality({t \in Tokens : paidBy[t] # NoNonce})
        <= Cardinality(Spent)

\* What both rest on: an attempt holds a nonce from Decrypt to its answer, and no
\* nonce that is held, or has paid for a session, can be redeemed again.
LoginInv ==
    /\ LoginTypeOK
    /\ ChallengeInv
    /\ \A a \in Attempts : nonce[a] = NoNonce <=> step[a] \in {"idle", "admitted"}
    /\ \A a \in Attempts : nonce[a] # NoNonce => accepted[nonce[a]] > 0
    /\ \A t \in Tokens : paidBy[t] # NoNonce => accepted[paidBy[t]] > 0
    /\ OneLoginPerPayload
    /\ FailuresCostChallenges
=============================================================================
