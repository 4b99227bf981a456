---------------------------- MODULE LoginCrypto ----------------------------
(***************************************************************************)
(* The challenge table of the login handshake (auth.LoginCrypto): loginKey *)
(* issues a random single-use nonce, Decrypt consumes the one inside a     *)
(* login payload.  NewChallenge and consume each hold LoginCrypto.mu, so   *)
(* each is one step.                                                       *)
(*                                                                         *)
(* A challenge's expiry is kept as the time it has left; -1 is past its    *)
(* expiry, 0 is the last instant at which it is accepted (time.After is    *)
(* strict).                                                                *)
(***************************************************************************)
EXTENDS Integers, FiniteSets

CONSTANTS
    Nonces,         \* the nonces rand.Read may return
    ChallengeTTL,   \* in clock ticks
    maxChallenges   \* hard cap of the table

ASSUME NoncesAssumption == IsFiniteSet(Nonces)
ASSUME TTLAssumption == ChallengeTTL \in Nat
ASSUME CapAssumption == maxChallenges \in Nat \ {0}

VARIABLES
    pending,    \* the keys of the map `challenges`
    left,       \* left[ch]: time until challenges[ch].exp
    seq,        \* seq[ch]: challenges[ch].seq
    nextSeq,    \* LoginCrypto.nextSeq
    issued,     \* history: nonces drawn so far
    accepted    \* history: accepted[ch] is how often consume(ch) said true

challengeVars == <<pending, left, seq, nextSeq, issued, accepted>>

ChallengeTypeOK ==
    /\ pending \in SUBSET Nonces
    /\ left \in [Nonces -> -1 .. ChallengeTTL]
    /\ seq \in [Nonces -> Nat]
    /\ nextSeq \in Nat
    /\ issued \in SUBSET Nonces
    /\ accepted \in [Nonces -> Nat]

ChallengeInit ==
    /\ pending = {}
    /\ left = [ch \in Nonces |-> -1]
    /\ seq = [ch \in Nonces |-> 0]
    /\ nextSeq = 0
    /\ issued = {}
    /\ accepted = [ch \in Nonces |-> 0]

-----------------------------------------------------------------------------
Expired(ch) == left[ch] < 0

\* What the sweep at the start of NewChallenge leaves in the map.
Unexpired == {ch \in pending : ~ Expired(ch)}

Newest(S) == CHOOSE ch \in S : \A other \in S : seq[ch] >= seq[other]

Oldest(S) == CHOOSE ch \in S : \A other \in S : seq[ch] <= seq[other]

\* A full map loses the entry with the lowest seq.
Evicted(S) == IF Cardinality(S) >= maxChallenges THEN {Oldest(S)} ELSE {}

NewChallenge(ch) ==
    /\ ch \in Nonces \ issued
    /\ pending' = (Unexpired \ Evicted(Unexpired)) \cup {ch}
    /\ left' = [left EXCEPT ![ch] = ChallengeTTL]
    /\ nextSeq' = nextSeq + 1
    /\ seq' = [seq EXCEPT ![ch] = nextSeq + 1]
    /\ issued' = issued \cup {ch}
    /\ UNCHANGED accepted

ConsumeKeepingAccepted(ch) ==
    /\ ch \in pending
    /\ pending' = IF Expired(ch) THEN pending \ {ch} ELSE pending
    /\ accepted' = [accepted EXCEPT ![ch] = IF Expired(ch) THEN @ ELSE @ + 1]
    /\ UNCHANGED <<left, seq, nextSeq, issued>>

ConsumeLate(ch) ==
    /\ ch \in pending
    /\ pending' = pending \ {ch}
    /\ accepted' = [accepted EXCEPT ![ch] = @ + 1]
    /\ UNCHANGED <<left, seq, nextSeq, issued>>

\* consume(ch): the entry goes either way, the answer is whether it was in time.
\* A nonce that is not in the map (unknown, used, swept, evicted, empty) is
\* refused and nothing changes.
Consume(ch) ==
    /\ ch \in pending
    /\ pending' = pending \ {ch}
    /\ accepted' = [accepted EXCEPT ![ch] = IF Expired(ch) THEN @ ELSE @ + 1]
    /\ UNCHANGED <<left, seq, nextSeq, issued>>

\* Whether consume(ch) says true now.
Redeemable(ch) == ch \in pending /\ ~ Expired(ch)

ChallengeTick ==
    /\ left' = [ch \in Nonces |-> IF left[ch] >= 0 THEN left[ch] - 1 ELSE -1]
    /\ UNCHANGED <<pending, seq, nextSeq, issued, accepted>>

\* A new process: NewLoginCrypto makes a new key pair and an empty map.
ChallengeRestart ==
    /\ pending' = {}
    /\ nextSeq' = 0
    /\ UNCHANGED <<left, seq, issued, accepted>>

ChallengeNext ==
    \/ \E ch \in Nonces : NewChallenge(ch) \/ Consume(ch)
    \/ ChallengeTick
    \/ ChallengeRestart

ChallengeSpec == ChallengeInit /\ [][ChallengeNext]_challengeVars

-----------------------------------------------------------------------------
(* Correctness. *)

\* A captured login request cannot be replayed: no nonce is accepted twice,
\* whatever is issued, swept, evicted or restarted in between.
SingleUse == \A ch \in Nonces : accepted[ch] <= 1

\* The map never outgrows its cap although the endpoint is unauthenticated.
Bounded == Cardinality(pending) <= maxChallenges

\* The bookkeeping behind SingleUse and the eviction order: only drawn nonces
\* are pending, none that was accepted is, and seq numbers the pending ones.
ChallengeInv ==
    /\ SingleUse
    /\ Bounded
    /\ pending \subseteq issued
    /\ \A ch \in Nonces : accepted[ch] > 0 => ch \in issued \ pending
    /\ \A ch \in pending : seq[ch] \in 1 .. nextSeq
    /\ \A c, d \in pending : seq[c] = seq[d] => c = d

\* Issuing a nonce costs another user's unexpired nonce only when at least
\* maxChallenges - 1 nonces were issued after that one: a browser that posts
\* its login before that many others fetched a key is not turned away.
RecentChallengesSurvive ==
    [][\A ch \in pending \ pending' :
          nextSeq' = nextSeq + 1 =>
              Expired(ch) \/ nextSeq' - seq[ch] >= maxChallenges]_challengeVars

\* loginenc.go, NewChallenge: the table implements single-use tokens.
OneTime == INSTANCE OneTimeTokens WITH
            Tokens <- Nonces,
            live <- {ch \in pending : ~ Expired(ch)},
            spent <- {ch \in Nonces : accepted[ch] > 0}

ImplementsOneTimeTokens == OneTime!Spec
=============================================================================
