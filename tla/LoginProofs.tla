----------------------------- MODULE LoginProofs -----------------------------
(***************************************************************************)
(* The theorems about the login and its components: the challenge table,   *)
(* the rate limiter, the accounts and sessions, and the handler that calls *)
(* them.                                                                   *)
(***************************************************************************)
EXTENDS Login, Lemmas, FiniteSetTheorems

-----------------------------------------------------------------------------
(* The challenge table, for any nonces, TTL and cap. *)

USE TTLAssumption, CapAssumption, NoncesAssumption

\* Every step keeps the table in its type.
THEOREM ChallengeTypeCorrect == ChallengeSpec => []ChallengeTypeOK
<1> USE DEF ChallengeTypeOK
<1>1. ChallengeInit => ChallengeTypeOK
  BY DEF ChallengeInit
<1>2. ChallengeTypeOK /\ [ChallengeNext]_challengeVars => ChallengeTypeOK'
  <2> SUFFICES ASSUME ChallengeTypeOK, [ChallengeNext]_challengeVars
               PROVE  ChallengeTypeOK'
    OBVIOUS
  <2>1. ASSUME NEW ch \in Nonces, NewChallenge(ch) PROVE ChallengeTypeOK'
    BY <2>1 DEF NewChallenge, Unexpired
  <2>2. ASSUME NEW ch \in Nonces, Consume(ch) PROVE ChallengeTypeOK'
    BY <2>2 DEF Consume
  <2>3. CASE ChallengeTick
    BY <2>3 DEF ChallengeTick
  <2>4. CASE ChallengeRestart
    BY <2>4 DEF ChallengeRestart
  <2>5. CASE UNCHANGED challengeVars
    BY <2>5 DEF challengeVars
  <2> QED
    BY <2>1, <2>2, <2>3, <2>4, <2>5 DEF ChallengeNext
<1> QED
  BY <1>1, <1>2, PTL DEF ChallengeSpec

-----------------------------------------------------------------------------
\* The entry that a full table loses: it is one of the table's, and no other
\* has a lower seq.
LEMMA OldestIsLowest ==
    ASSUME NEW S \in SUBSET Nonces, S # {}, ChallengeTypeOK
    PROVE  Oldest(S) \in S /\ \A other \in S : seq[Oldest(S)] <= seq[other]
<1> DEFINE numbers == {seq[ch] : ch \in S}
<1>1. numbers # {} /\ numbers \subseteq Nat
  BY DEF ChallengeTypeOK
<1>2. PICK n \in numbers : \A m \in numbers : n <= m
  <2>1. \E n \in numbers : \A m \in numbers : <<m, n>> \notin OpToRel(<, Nat)
    BY <1>1, NatLessThanWellFounded, WFMin
  <2>2. ASSUME NEW m \in numbers, NEW n \in numbers, <<m, n>> \notin OpToRel(<, Nat)
        PROVE  n <= m
    <3>1. m \in Nat /\ n \in Nat
      BY <1>1
    <3>2. ~ (m < n)
      BY <2>2, <3>1 DEF OpToRel
    <3> QED
      BY <3>1, <3>2
  <2> QED
    BY <2>1, <2>2
<1>3. \E ch \in S : \A other \in S : seq[ch] <= seq[other]
  BY <1>2
<1> QED
  BY <1>3 DEF Oldest

\* Distinct seq numbers in an interval: no more entries than numbers.
LEMMA NumberedSetsAreSmall ==
    ASSUME NEW S \in SUBSET Nonces, NEW a \in Nat, NEW b \in Nat, a <= b + 1,
           \A c \in S : seq[c] \in a .. b,
           \A c, d \in S : seq[c] = seq[d] => c = d
    PROVE  Cardinality(S) <= b - a + 1
<1> DEFINE f == [c \in S |-> seq[c]]
<1>1. f \in Injection(S, a .. b)
  BY DEF Injection, IsInjective
<1>2. IsFiniteSet(a .. b) /\ Cardinality(a .. b) = IF a > b THEN 0 ELSE b - a + 1
  BY FS_Interval
<1>3. Cardinality(S) <= Cardinality(a .. b)
  BY <1>1, <1>2, FS_Injection
<1> QED
  BY <1>2, <1>3

\* Making room: what NewChallenge keeps leaves a place free under the cap.
LEMMA RoomForOne ==
    ASSUME NEW S \in SUBSET Nonces, Cardinality(S) <= maxChallenges, ChallengeTypeOK
    PROVE  Cardinality(S \ Evicted(S)) <= maxChallenges - 1
<1>1. IsFiniteSet(S) /\ Cardinality(S) \in Nat
  BY FS_Subset, FS_CardinalityType
<1>2. CASE Cardinality(S) >= maxChallenges
  <2>1. S # {}
    BY <1>1, <1>2, FS_EmptySet
  <2>2. Oldest(S) \in S
    BY <2>1, OldestIsLowest
  <2>3. Cardinality(S \ {Oldest(S)}) = Cardinality(S) - 1
    BY <1>1, <2>2, FS_RemoveElement
  <2> QED
    BY <1>1, <1>2, <2>3 DEF Evicted
<1>3. CASE Cardinality(S) < maxChallenges
  BY <1>1, <1>3 DEF Evicted
<1> QED
  BY <1>1, <1>2, <1>3

-----------------------------------------------------------------------------
\* The parts of ChallengeInv: each is preserved by every step, given the others.
THEOREM ChallengeInvariance == ChallengeSpec => []ChallengeInv
<1>1. ChallengeInit => ChallengeInv
  BY FS_EmptySet DEF ChallengeInit, ChallengeInv, SingleUse, Bounded
<1>2. ChallengeTypeOK /\ ChallengeInv /\ [ChallengeNext]_challengeVars => ChallengeInv'
  <2> SUFFICES ASSUME ChallengeTypeOK, ChallengeInv, [ChallengeNext]_challengeVars
               PROVE  ChallengeInv'
    OBVIOUS
  <2>1. ASSUME NEW ch \in Nonces, NewChallenge(ch) PROVE ChallengeInv'
    <3> DEFINE kept == Unexpired \ Evicted(Unexpired)
    <3>1. /\ ch \in Nonces \ issued /\ pending' = kept \cup {ch}
          /\ nextSeq' = nextSeq + 1 /\ seq' = [seq EXCEPT ![ch] = nextSeq + 1]
          /\ issued' = issued \cup {ch} /\ accepted' = accepted
      BY <2>1 DEF NewChallenge
    <3>2. kept \subseteq pending /\ Unexpired \subseteq pending /\ ch \notin pending
      BY <3>1 DEF Unexpired, ChallengeInv
    <3>3. Bounded'
      <4>1. IsFiniteSet(pending) /\ IsFiniteSet(Unexpired) /\ IsFiniteSet(kept)
        BY <3>2, FS_Subset DEF ChallengeTypeOK
      <4>2. Cardinality(Unexpired) <= Cardinality(pending)
        BY <3>2, <4>1, FS_Subset
      <4>3. Cardinality(Unexpired) <= maxChallenges
        BY <4>1, <4>2, FS_CardinalityType DEF ChallengeInv, Bounded
      <4>4. Cardinality(kept) <= maxChallenges - 1
        BY <3>2, <4>3, RoomForOne DEF ChallengeTypeOK
      <4>5. Cardinality(kept \cup {ch}) = Cardinality(kept) + 1
        BY <3>2, <4>1, FS_AddElement
      <4> QED
        BY <3>1, <4>1, <4>4, <4>5, FS_CardinalityType DEF Bounded
    <3>4. SingleUse' /\ pending' \subseteq issued'
      BY <3>1, <3>2 DEF ChallengeInv, SingleUse, ChallengeTypeOK
    <3>5. \A c \in Nonces : accepted'[c] > 0 => c \in issued' \ pending'
      BY <3>1, <3>2 DEF ChallengeInv, ChallengeTypeOK
    <3>6. \A c \in pending' : seq'[c] \in 1 .. nextSeq'
      BY <3>1, <3>2 DEF ChallengeInv, ChallengeTypeOK
    <3>7. \A c, d \in pending' : seq'[c] = seq'[d] => c = d
      <4>1. \A c \in kept : seq'[c] = seq[c] /\ seq[c] \in 1 .. nextSeq
        BY <3>1, <3>2 DEF ChallengeInv, ChallengeTypeOK
      <4>2. seq'[ch] = nextSeq + 1
        BY <3>1 DEF ChallengeTypeOK
      <4>3. \A c, d \in kept : seq[c] = seq[d] => c = d
        BY <3>2 DEF ChallengeInv
      <4>4. nextSeq \in Nat
        BY DEF ChallengeTypeOK
      <4> QED
        BY <3>1, <4>1, <4>2, <4>3, <4>4
    <3> QED
      BY <3>3, <3>4, <3>5, <3>6, <3>7 DEF ChallengeInv
  <2>2. ASSUME NEW ch \in Nonces, Consume(ch) PROVE ChallengeInv'
    <3>1. /\ ch \in pending /\ pending' = pending \ {ch}
          /\ accepted' = [accepted EXCEPT ![ch] = IF Expired(ch) THEN @ ELSE @ + 1]
          /\ UNCHANGED <<left, seq, nextSeq, issued>>
      BY <2>2 DEF Consume
    <3>2. accepted[ch] = 0
      BY <3>1 DEF ChallengeInv, ChallengeTypeOK
    <3>3. Bounded'
      <4>1. IsFiniteSet(pending) /\ pending' \subseteq pending
        BY <3>1, FS_Subset DEF ChallengeTypeOK
      <4>2. Cardinality(pending') <= Cardinality(pending) /\ IsFiniteSet(pending')
        BY <4>1, FS_Subset
      <4> QED
        BY <4>1, <4>2, FS_CardinalityType DEF ChallengeInv, Bounded
    <3>4. SingleUse'
      BY <3>1, <3>2 DEF ChallengeInv, SingleUse, ChallengeTypeOK
    <3>5. \A c \in Nonces : accepted'[c] > 0 => c \in issued' \ pending'
      BY <3>1 DEF ChallengeInv, ChallengeTypeOK
    <3> QED
      BY <3>1, <3>3, <3>4, <3>5 DEF ChallengeInv
  <2>3. CASE ChallengeTick
    BY <2>3 DEF ChallengeTick, ChallengeInv, SingleUse, Bounded
  <2>4. CASE ChallengeRestart
    BY <2>4, FS_EmptySet DEF ChallengeRestart, ChallengeInv, SingleUse, Bounded
  <2>5. CASE UNCHANGED challengeVars
    BY <2>5 DEF challengeVars, ChallengeInv, SingleUse, Bounded
  <2> QED
    BY <2>1, <2>2, <2>3, <2>4, <2>5 DEF ChallengeNext
<1> QED
  BY <1>1, <1>2, ChallengeTypeCorrect, PTL DEF ChallengeSpec

\* A nonce that NewChallenge drops before its expiry had at least
\* maxChallenges - 1 nonces issued after it.
THEOREM ChallengeEvictionOrder == ChallengeSpec => RecentChallengesSurvive
<1> DEFINE A == \A ch \in pending \ pending' :
                   nextSeq' = nextSeq + 1 =>
                       Expired(ch) \/ nextSeq' - seq[ch] >= maxChallenges
<1>1. ChallengeTypeOK /\ ChallengeInv /\ [ChallengeNext]_challengeVars
        => [A]_challengeVars
  <2> SUFFICES ASSUME ChallengeTypeOK, ChallengeInv, ChallengeNext,
                      nextSeq' = nextSeq + 1,
                      NEW ch \in pending \ pending', ~ Expired(ch)
               PROVE  nextSeq' - seq[ch] >= maxChallenges
    BY DEF challengeVars
  <2>1. PICK new \in Nonces : NewChallenge(new)
    BY DEF ChallengeNext, Consume, ChallengeTick, ChallengeRestart, ChallengeTypeOK
  <2> DEFINE S == Unexpired
  <2>2. ch \in S /\ S \in SUBSET Nonces /\ S \subseteq pending
    BY DEF Unexpired, ChallengeTypeOK
  <2>3. ch \in Evicted(S)
    BY <2>1, <2>2 DEF NewChallenge
  <2>4. Cardinality(S) >= maxChallenges /\ ch = Oldest(S)
    BY <2>3 DEF Evicted
  <2>5. \A other \in S : seq[ch] <= seq[other]
    BY <2>2, <2>4, OldestIsLowest
  <2>6. \A c \in S : seq[c] \in seq[ch] .. nextSeq
    BY <2>2, <2>5 DEF ChallengeInv, ChallengeTypeOK
  <2>7. \A c, d \in S : seq[c] = seq[d] => c = d
    BY <2>2 DEF ChallengeInv
  <2>8. seq[ch] \in Nat /\ nextSeq \in Nat /\ seq[ch] <= nextSeq + 1
    BY <2>2, <2>6 DEF ChallengeTypeOK
  <2>9. Cardinality(S) <= nextSeq - seq[ch] + 1
    BY <2>2, <2>6, <2>7, <2>8, NumberedSetsAreSmall
  <2>10. Cardinality(S) \in Nat
    BY <2>2, FS_Subset, FS_CardinalityType
  <2> QED
    BY <2>4, <2>8, <2>9, <2>10
<1> QED
  BY <1>1, ChallengeTypeCorrect, ChallengeInvariance, PTL
     DEF ChallengeSpec, RecentChallengesSurvive

-----------------------------------------------------------------------------
\* The table implements single-use tokens: a nonce is live while it is pending
\* and in time, and spent once it was accepted.
THEOREM ChallengeRefinement == ChallengeSpec => ImplementsOneTimeTokens
<1> DEFINE liveBar == {ch \in pending : ~ Expired(ch)}
           spentBar == {ch \in Nonces : accepted[ch] > 0}
<1>1. ChallengeInit => OneTime!Init
  BY DEF ChallengeInit, OneTime!Init
<1>2. ChallengeTypeOK /\ ChallengeInv /\ [ChallengeNext]_challengeVars
        => [OneTime!Next]_(OneTime!vars)
  <2> SUFFICES ASSUME ChallengeTypeOK, ChallengeInv, [ChallengeNext]_challengeVars
               PROVE  OneTime!Next \/ UNCHANGED OneTime!vars
    OBVIOUS
  <2>1. ASSUME NEW ch \in Nonces, NewChallenge(ch) PROVE OneTime!Issue(ch)
    <3>1. ch \notin liveBar \cup spentBar
      BY <2>1 DEF NewChallenge, ChallengeInv
    <3>2. /\ pending' \subseteq pending \cup {ch} /\ ch \in pending'
          /\ \A c \in pending : c # ch => left'[c] = left[c]
          /\ left'[ch] = ChallengeTTL
      BY <2>1 DEF NewChallenge, Unexpired, ChallengeTypeOK
    <3>3. liveBar' \subseteq liveBar \cup {ch} /\ ch \in liveBar'
      BY <3>2 DEF Expired
    <3>4. spentBar' = spentBar
      BY <2>1 DEF NewChallenge
    <3> QED
      BY <3>1, <3>3, <3>4 DEF OneTime!Issue
  <2>2. ASSUME NEW ch \in Nonces, Consume(ch) PROVE OneTime!Redeem(ch) \/ OneTime!Lose
    <3>1. pending' = pending \ {ch} /\ left' = left /\ ch \in pending
      BY <2>2 DEF Consume
    <3>2. liveBar' = liveBar \ {ch}
      BY <3>1 DEF Expired
    <3>3. CASE Expired(ch)
      <4>1. accepted' = accepted
        BY <2>2, <3>3 DEF Consume, ChallengeTypeOK
      <4> QED
        BY <3>2, <4>1 DEF OneTime!Lose
    <3>4. CASE ~ Expired(ch)
      <4>1. accepted' = [accepted EXCEPT ![ch] = accepted[ch] + 1]
        BY <2>2, <3>4 DEF Consume
      <4>2. spentBar' = spentBar \cup {ch}
        BY <4>1 DEF ChallengeTypeOK
      <4>3. ch \in liveBar
        BY <3>1, <3>4
      <4> QED
        BY <3>2, <4>2, <4>3 DEF OneTime!Redeem
    <3> QED
      BY <3>3, <3>4
  <2>3. CASE ChallengeTick
    <3>1. liveBar' \subseteq liveBar /\ spentBar' = spentBar
      BY <2>3 DEF ChallengeTick, Expired, ChallengeTypeOK
    <3> QED
      BY <3>1 DEF OneTime!Next, OneTime!Lose
  <2>4. CASE ChallengeRestart
    <3>1. liveBar' = {} /\ spentBar' = spentBar
      BY <2>4 DEF ChallengeRestart
    <3> QED
      BY <3>1 DEF OneTime!Next, OneTime!Lose
  <2>5. CASE UNCHANGED challengeVars
    <3>1. liveBar' = liveBar /\ spentBar' = spentBar
      BY <2>5 DEF challengeVars, Expired
    <3> QED
      BY <3>1 DEF OneTime!vars
  <2> QED
    BY <2>1, <2>2, <2>3, <2>4, <2>5 DEF ChallengeNext, OneTime!Next
<1> QED
  BY <1>1, <1>2, ChallengeTypeCorrect, ChallengeInvariance, PTL
     DEF ChallengeSpec, ImplementsOneTimeTokens, OneTime!Spec

-----------------------------------------------------------------------------
(* The rate limiter, for any logins, addresses, failures allowed and window. *)

USE AttemptsAssumption, IPsAssumption, LimitsAssumption

\* IsLocked and NoteFail turn an entry into an entry.
LEMMA EntriesStayEntries ==
    ASSUME LimiterTypeOK, NEW ip \in IPs
    PROVE  Collected(ip) \in Rec /\ Counted(ip) \in Rec /\ Aged(rec[ip]) \in Rec
<1>1. rec[ip] \in Rec /\ NoRec \in Rec
  BY DEF LimiterTypeOK, Rec, NoRec
<1>2. Collected(ip) \in Rec
  BY <1>1 DEF Collected
<1>3. Counted(ip) \in Rec
  BY <1>1 DEF Counted, Rec
<1> DEFINE age == IF rec[ip].age > lockWindow THEN rec[ip].age ELSE rec[ip].age + 1
           lock == IF rec[ip].lock > 0 THEN rec[ip].lock - 1 ELSE 0
<1>4. rec[ip].fails # 0 => Aged(rec[ip]) = [fails |-> rec[ip].fails, age |-> age, lock |-> lock]
  BY <1>1 DEF Aged, Rec
<1>5. age \in 0 .. lockWindow + 1 /\ lock \in 0 .. lockWindow /\ rec[ip].fails \in Nat
  BY <1>1 DEF Rec
<1>6. rec[ip].fails # 0 => Aged(rec[ip]) \in Rec
  BY <1>4, <1>5 DEF Rec
<1>7. rec[ip].fails = 0 => Aged(rec[ip]) \in Rec
  BY <1>1 DEF Aged
<1> QED
  BY <1>2, <1>3, <1>6, <1>7

\* Every step keeps the limiter in its type.
THEOREM LimiterTypeCorrect == LimiterSpec => []LimiterTypeOK
<1>1. LimiterInit => LimiterTypeOK
  BY DEF LimiterInit, LimiterTypeOK, Rec, NoRec
<1>2. LimiterTypeOK /\ [LimiterNext]_limiterVars => LimiterTypeOK'
  <2> SUFFICES ASSUME LimiterTypeOK, [LimiterNext]_limiterVars PROVE LimiterTypeOK'
    OBVIOUS
  <2> USE DEF LimiterTypeOK
  <2>1. ASSUME NEW ip \in IPs, Refuse(ip) PROVE LimiterTypeOK'
    BY <2>1, EntriesStayEntries DEF Refuse
  <2>2. ASSUME NEW ip \in IPs, NEW a \in Attempts, Admit(a, ip) PROVE LimiterTypeOK'
    BY <2>2, EntriesStayEntries DEF Admit
  <2>3. ASSUME NEW a \in Attempts, NoteFail(a) PROVE LimiterTypeOK'
    BY <2>3, EntriesStayEntries DEF NoteFail
  <2>4. ASSUME NEW a \in Attempts, Reset(a) PROVE LimiterTypeOK'
    BY <2>4 DEF Reset, NoRec, Rec
  <2>5. ASSUME NEW a \in Attempts, Release(a) PROVE LimiterTypeOK'
    BY <2>5 DEF Release
  <2>6. CASE LimiterTick
    BY <2>6, EntriesStayEntries DEF LimiterTick
  <2>7. CASE LimiterRestart
    BY <2>7 DEF LimiterRestart, NoRec, Rec
  <2>8. CASE UNCHANGED limiterVars
    BY <2>8 DEF limiterVars
  <2> QED
    BY <2>1, <2>2, <2>3, <2>4, <2>5, <2>6, <2>7, <2>8 DEF LimiterNext
<1> QED
  BY <1>1, <1>2, PTL DEF LimiterSpec

-----------------------------------------------------------------------------
\* The attempts in flight are a finite set, no larger than Attempts.
LEMMA InFlightIsFinite ==
    ASSUME NEW ip \in IPs
    PROVE  /\ IsFiniteSet(InFlight(ip)) /\ Cardinality(InFlight(ip)) \in Nat
           /\ Cardinality(Attempts) \in Nat
           /\ Cardinality(InFlight(ip)) <= Cardinality(Attempts)
  BY FS_Subset, FS_CardinalityType DEF InFlight

\* The same of the next state.
LEMMA InFlightIsFiniteNext ==
    ASSUME NEW ip \in IPs
    PROVE  /\ IsFiniteSet(InFlight(ip)') /\ Cardinality(InFlight(ip))' \in Nat
           /\ Cardinality(InFlight(ip))' <= Cardinality(Attempts)
  BY FS_Subset, FS_CardinalityType DEF InFlight

\* An attempt that ends leaves one fewer in flight for its address.
LEMMA EndingAnAttempt ==
    ASSUME LimiterTypeOK, NEW a \in Attempts, NEW mine \in IPs, admitted[a] = mine,
           admitted' = [admitted EXCEPT ![a] = NoIP]
    PROVE  /\ Cardinality(InFlight(mine))' = Cardinality(InFlight(mine)) - 1
           /\ \A ip \in IPs : ip # mine => InFlight(ip)' = InFlight(ip)
<1>1. InFlight(mine)' = InFlight(mine) \ {a} /\ a \in InFlight(mine)
  BY DEF LimiterTypeOK, InFlight
<1>2. Cardinality(InFlight(mine) \ {a}) = Cardinality(InFlight(mine)) - 1
  BY <1>1, InFlightIsFinite, FS_RemoveElement
<1>3. \A ip \in IPs : ip # mine => InFlight(ip)' = InFlight(ip)
  BY DEF LimiterTypeOK, InFlight
<1> QED
  BY <1>1, <1>2, <1>3

\* What LimiterInv says of one address.
Fine(ip) ==
    /\ rec[ip].age < lockWindow =>
          rec[ip].fails + Cardinality(InFlight(ip)) <= maxFails - 1 + Cardinality(Attempts)
    /\ rec[ip].fails >= maxFails => rec[ip].lock + rec[ip].age >= lockWindow
    /\ rec[ip].fails = 0 => rec[ip].age = 0 /\ rec[ip].lock = 0

\* LimiterInv is inductive: an address with maxFails failures is locked for the
\* rest of its window, so while the window is open only attempts that were
\* already past IsLocked can add failures.
THEOREM LimiterInvariance == LimiterSpec => []LimiterInv
<1>0. LimiterInv <=> \A ip \in IPs : Fine(ip)
  BY DEF LimiterInv, FailsBounded, Fine
<1>0p. LimiterInv' <=> \A ip \in IPs : Fine(ip)'
  BY DEF LimiterInv, FailsBounded, Fine
<1>1. LimiterInit => LimiterInv
  <2> SUFFICES ASSUME LimiterInit, NEW ip \in IPs PROVE Fine(ip)
    BY <1>0
  <2>1. rec[ip] = NoRec
    BY DEF LimiterInit
  <2> QED
    BY <2>1, InFlightIsFinite DEF Fine, NoRec
<1>2. LimiterTypeOK /\ LimiterInv /\ [LimiterNext]_limiterVars => LimiterInv'
  <2> SUFFICES ASSUME LimiterTypeOK, LimiterInv, [LimiterNext]_limiterVars,
                      NEW ip \in IPs
               PROVE  Fine(ip)'
    BY <1>0p
  <2>0. /\ Fine(ip) /\ rec[ip] \in Rec
        /\ Cardinality(InFlight(ip)) \in Nat /\ Cardinality(InFlight(ip))' \in Nat
        /\ Cardinality(Attempts) \in Nat
        /\ Cardinality(InFlight(ip)) <= Cardinality(Attempts)
        /\ Cardinality(InFlight(ip))' <= Cardinality(Attempts)
    BY <1>0, InFlightIsFinite, InFlightIsFiniteNext DEF LimiterTypeOK
  \* A call that leaves the entry as it was, or drops it.
  <2>drop. ASSUME rec'[ip] = NoRec PROVE Fine(ip)'
    BY <2>0, <2>drop DEF Fine, NoRec
  <2>1. ASSUME NEW i \in IPs, Refuse(i) PROVE Fine(ip)'
    <3>1. rec'[ip] = rec[ip] \/ rec'[ip] = NoRec
      BY <2>1 DEF Refuse, Collected, LimiterTypeOK
    <3>2. InFlight(ip)' = InFlight(ip)
      BY <2>1 DEF Refuse, InFlight
    <3> QED
      BY <2>0, <3>1, <3>2, <2>drop DEF Fine
  <2>2. ASSUME NEW i \in IPs, NEW a \in Attempts, Admit(a, i) PROVE Fine(ip)'
    <3>1. CASE i # ip
      <4>1. rec'[ip] = rec[ip]
        BY <2>2, <3>1 DEF Admit, LimiterTypeOK
      <4>2. InFlight(ip)' = InFlight(ip)
        BY <2>2, <3>1 DEF Admit, InFlight, LimiterTypeOK
      <4> QED
        BY <2>0, <4>1, <4>2 DEF Fine
    <3>2. CASE i = ip
      <4>1. rec'[ip] = rec[ip] \/ rec'[ip] = NoRec
        BY <2>2, <3>2 DEF Admit, Collected, LimiterTypeOK
      <4>2. rec[ip].lock = 0
        BY <2>0, <2>2, <3>2 DEF Admit, Locked, Rec
      <4>3. rec[ip].age < lockWindow => rec[ip].fails <= maxFails - 1
        BY <2>0, <4>2 DEF Fine, Rec
      <4> QED
        BY <2>0, <4>1, <4>3, <2>drop DEF Fine, Rec
    <3> QED
      BY <3>1, <3>2
  <2>3. ASSUME NEW a \in Attempts, NoteFail(a) PROVE Fine(ip)'
    <3>1. /\ admitted[a] # NoIP /\ admitted' = [admitted EXCEPT ![a] = NoIP]
          /\ rec' = [rec EXCEPT ![admitted[a]] = Counted(admitted[a])]
      BY <2>3 DEF NoteFail
    <3>2. CASE admitted[a] # ip
      <4>0. admitted[a] \in IPs
        BY <3>1 DEF LimiterTypeOK
      <4>1. rec'[ip] = rec[ip] /\ InFlight(ip)' = InFlight(ip)
        BY <3>1, <3>2, <4>0, EndingAnAttempt DEF LimiterTypeOK
      <4> QED
        BY <2>0, <4>1 DEF Fine
    <3>3. CASE admitted[a] = ip
      <4>1. rec'[ip] = Counted(ip)
        BY <3>1, <3>3 DEF LimiterTypeOK
      <4>2. Cardinality(InFlight(ip))' = Cardinality(InFlight(ip)) - 1
        BY <3>1, <3>3, EndingAnAttempt
      <4>3. CASE rec[ip].fails = 0 \/ rec[ip].age > lockWindow
        <5>1. /\ Counted(ip).fails = 1 /\ Counted(ip).age = 0
              /\ Counted(ip).lock = IF 1 >= maxFails THEN lockWindow ELSE 0
          BY <4>3 DEF Counted, NoRec
        <5> QED
          BY <2>0, <4>1, <4>2, <5>1 DEF Fine
      <4>4. CASE ~ (rec[ip].fails = 0 \/ rec[ip].age > lockWindow)
        <5>1. /\ Counted(ip).fails = rec[ip].fails + 1 /\ Counted(ip).age = rec[ip].age
              /\ Counted(ip).lock = IF rec[ip].fails + 1 >= maxFails THEN lockWindow
                                                                    ELSE rec[ip].lock
          BY <4>4 DEF Counted
        <5> QED
          BY <2>0, <4>1, <4>2, <4>4, <5>1 DEF Fine, Rec
      <4> QED
        BY <4>3, <4>4
    <3> QED
      BY <3>2, <3>3
  <2>4. ASSUME NEW a \in Attempts, Reset(a) \/ Release(a) PROVE Fine(ip)'
    <3>1. /\ admitted[a] # NoIP /\ admitted' = [admitted EXCEPT ![a] = NoIP]
          /\ rec'[ip] = rec[ip] \/ rec'[ip] = NoRec
      BY <2>4 DEF Reset, Release, LimiterTypeOK
    <3>2. Cardinality(InFlight(ip))' <= Cardinality(InFlight(ip))
      <4>1. admitted[a] \in IPs
        BY <3>1 DEF LimiterTypeOK
      <4>2. Cardinality(InFlight(ip))' = Cardinality(InFlight(ip)) - 1
              \/ InFlight(ip)' = InFlight(ip)
        BY <3>1, <4>1, EndingAnAttempt
      <4> QED
        BY <2>0, <4>2
    <3> QED
      BY <2>0, <2>drop, <3>1, <3>2 DEF Fine, Rec
  <2>5. CASE LimiterTick
    <3>1. rec'[ip] = Aged(rec[ip]) /\ InFlight(ip)' = InFlight(ip)
      BY <2>5 DEF LimiterTick, InFlight
    <3>2. CASE rec[ip].fails = 0
      BY <2>0, <3>1, <3>2 DEF Fine, Aged
    <3>3. CASE rec[ip].fails # 0
      <4>1. /\ Aged(rec[ip]).fails = rec[ip].fails
            /\ Aged(rec[ip]).age = IF rec[ip].age > lockWindow THEN rec[ip].age
                                                               ELSE rec[ip].age + 1
            /\ Aged(rec[ip]).lock = IF rec[ip].lock > 0 THEN rec[ip].lock - 1 ELSE 0
        BY <2>0, <3>3 DEF Aged, Rec
      <4> QED
        BY <2>0, <3>1, <3>3, <4>1 DEF Fine, Rec
    <3> QED
      BY <3>2, <3>3
  <2>6. CASE LimiterRestart
    BY <2>6, <2>drop DEF LimiterRestart
  <2>7. CASE UNCHANGED limiterVars
    <3>1. rec'[ip] = rec[ip] /\ InFlight(ip)' = InFlight(ip)
      BY <2>7 DEF limiterVars, InFlight
    <3> QED
      BY <2>0, <3>1 DEF Fine
  <2> QED
    BY <2>1, <2>2, <2>3, <2>4, <2>5, <2>6, <2>7 DEF LimiterNext
<1> QED
  BY <1>1, <1>2, LimiterTypeCorrect, PTL DEF LimiterSpec

\* However many logins race, the failures counted against one address inside
\* one window stay below maxFails plus the number of concurrent logins.
THEOREM LimiterFailsBounded == LimiterSpec => []FailsBounded
<1>1. LimiterInv => FailsBounded
  BY DEF LimiterInv
<1> QED
  BY <1>1, LimiterInvariance, PTL

-----------------------------------------------------------------------------
(* The users and sessions tables, for any names, tokens, goroutines and ids. *)

USE AccountSetsAssumption, AccountBoundsAssumption

\* The id SQLite picks is free: no row is at it or above it.
LEMMA NextIdIsFree ==
    ASSUME AccountsTypeOK, NextId <= MaxId
    PROVE  NextId \in Ids /\ ~ Exists(NextId)
<1> DEFINE taken == {0} \cup {u \in Ids : Exists(u)}
<1>1. taken \in SUBSET Nat /\ taken # {} /\ \A n \in taken : n <= MaxId
  BY DEF Ids
<1>2. Max(taken) \in taken /\ \A n \in taken : n <= Max(taken)
  BY <1>1, MaxIsLargest
<1>3. NextId = Max(taken) + 1 /\ Max(taken) \in Nat
  BY <1>1, <1>2 DEF NextId
<1>4. NextId \in Ids
  BY <1>3 DEF Ids
<1> QED
  BY <1>2, <1>3, <1>4

\* The constant rows are of their types.
LEMMA RowsAreTyped ==
    /\ NoUser \in User /\ NoSession \in Session
    /\ IdleLogin \in LoginState /\ IdleRequest \in RequestState
    /\ AnyName \in Names /\ AnyPassword \in Passwords
<1>1. AnyName \in Names /\ AnyPassword \in Passwords
  BY DEF AnyName, AnyPassword
<1> QED
  BY <1>1 DEF NoUser, NoSession, IdleLogin, IdleRequest, User, Session, LoginState, RequestState,
              Accts

-----------------------------------------------------------------------------
\* Every step from a state of AccountsInv leads to a well-typed one.
LEMMA AccountsTypesStay ==
    AccountsInv /\ [AccountsNext]_accountVars => AccountsTypeOK'
<1> SUFFICES ASSUME AccountsInv, [AccountsNext]_accountVars PROVE AccountsTypeOK'
  OBVIOUS
<1>0. AccountsTypeOK /\ WindowsAreTracked
  BY DEF AccountsInv
<1> USE <1>0, RowsAreTyped DEF AccountsTypeOK
<1>1. ASSUME NEW a \in Logins, NEW n \in Names, NEW p \in Passwords, Verify(a, n, p)
      PROVE  AccountsTypeOK'
  BY <1>1 DEF Verify, LoginState, User, Ids
<1>2. ASSUME NEW a \in Logins, NEW t \in Tokens, CreateSession(a, t) PROVE AccountsTypeOK'
  <2>1. login[a].uid \in Ids /\ login[a] \in LoginState
    BY <1>2 DEF CreateSession, WindowsAreTracked, HeldSince
  <2>2. [uid |-> login[a].uid, left |-> SessionTTL, acct |-> users[login[a].uid].acct,
         proved |-> login[a].acct, since |-> login[a].since] \in Session
    BY <2>1 DEF LoginState, Session, User, Ids
  <2>3. [IdleLogin EXCEPT !.pc = "inserted"] \in LoginState
    BY DEF LoginState, IdleLogin, Accts
  <2> QED
    BY <1>2, <2>2, <2>3 DEF CreateSession
<1>3. ASSUME NEW a \in Logins, CreateSessionFails(a) PROVE AccountsTypeOK'
  BY <1>3 DEF CreateSessionFails
<1>4. ASSUME NEW a \in Logins, Purge(a) PROVE AccountsTypeOK'
  BY <1>4 DEF Purge
<1>5. ASSUME NEW q \in Requests, NEW t \in Tokens, ReadSession(q, t) PROVE AccountsTypeOK'
  <2>1. sessions[t] \in Session
    OBVIOUS
  <2>2. /\ [IdleRequest EXCEPT !.pc = "user", !.uid = sessions[t].uid,
                               !.owner = sessions[t].acct, !.since = created] \in RequestState
        /\ [IdleRequest EXCEPT !.pc = "expired", !.tok = t] \in RequestState
    BY <2>1 DEF RequestState, IdleRequest, Session, Accts
  <2> QED
    BY <1>5, <2>2 DEF ReadSession
<1>6. ASSUME NEW q \in Requests, DropExpired(q) PROVE AccountsTypeOK'
  BY <1>6 DEF DropExpired
<1>7. ASSUME NEW q \in Requests, ReadUser(q) PROVE AccountsTypeOK'
  <2>1. request[q].uid \in Ids /\ request[q] \in RequestState
    BY <1>7 DEF ReadUser, WindowsAreTracked, HeldSince
  <2>2. users[request[q].uid].acct \in Accts /\ users[request[q].uid].admin \in BOOLEAN
    BY <2>1 DEF User
  <2>3. \A acct \in Accts, admin \in BOOLEAN :
          [request[q] EXCEPT !.pc = "handler", !.acct = acct, !.admin = admin] \in RequestState
    BY <2>1 DEF RequestState
  <2> QED
    BY <1>7, <2>2, <2>3 DEF ReadUser
<1>8. ASSUME NEW q \in Requests, StayAnonymous(q) PROVE AccountsTypeOK'
  BY <1>8 DEF StayAnonymous
<1>9. ASSUME NEW q \in Requests, NEW n \in Names, NEW p \in Passwords, NEW admin \in BOOLEAN,
             CreateUser(q, n, p, admin)
      PROVE  AccountsTypeOK'
  <2>1. NextId \in Ids /\ created + 1 \in Accts
    BY <1>9, NextIdIsFree DEF CreateUser, Accts
  <2>2. [acct |-> created + 1, name |-> n, pw |-> p, admin |-> admin, enabled |-> TRUE] \in User
    BY <2>1 DEF User
  <2> QED
    BY <1>9, <2>1, <2>2 DEF CreateUser, Done
<1>10. ASSUME NEW q \in Requests, NEW u \in Ids, DeleteUser(q, u) PROVE AccountsTypeOK'
  BY <1>10 DEF DeleteUser, Done
<1>11. ASSUME NEW q \in Requests, NEW u \in Ids, NEW enabled \in BOOLEAN,
              SetEnabled(q, u, enabled)
       PROVE  AccountsTypeOK'
  <2>1. [users[u] EXCEPT !.enabled = enabled] \in User
    BY DEF User
  <2> QED
    BY <1>11, <2>1 DEF SetEnabled, Done
<1>12. ASSUME NEW u \in Ids, NEW p \in Passwords, SetPassword(u, p)
       PROVE  users' \in [Ids -> User]
  <2>1. [users[u] EXCEPT !.pw = p] \in User
    BY DEF User
  <2> QED
    BY <1>12, <2>1 DEF SetPassword
<1>13. ASSUME NEW q \in Requests, NEW u \in Ids, NEW p \in Passwords, ResetPassword(q, u, p)
       PROVE  AccountsTypeOK'
  BY <1>12, <1>13 DEF ResetPassword, Done
<1>14. ASSUME NEW q \in Requests, Respond(q) PROVE AccountsTypeOK'
  BY <1>14 DEF Respond, Done
<1>15. ASSUME NEW t \in Tokens, Logout(t) PROVE AccountsTypeOK'
  BY <1>15 DEF Logout
<1>16. ASSUME NEW n \in Names, CliFind(n) PROVE AccountsTypeOK'
  BY <1>16 DEF CliFind, Ids
<1>17. ASSUME NEW p \in Passwords, CliSet(p) PROVE AccountsTypeOK'
  BY <1>12, <1>17 DEF CliSet, Ids
<1>18. CASE AccountsTick
  <2>1. \A t \in Tokens :
          [sessions[t] EXCEPT !.left = IF @ >= 0 THEN @ - 1 ELSE @] \in Session
    BY DEF Session
  <2> QED
    BY <1>18, <2>1 DEF AccountsTick
<1>19. CASE AccountsRestart
  <2>1. created # MaxAccounts =>
           created + 1 \in Accts /\ Admin(AnyName, AnyPassword, created + 1) \in [Ids -> User]
    BY DEF Admin, Accts, User
  <2> QED
    BY <1>19, <2>1 DEF AccountsRestart
<1>20. CASE UNCHANGED accountVars
  BY <1>20 DEF accountVars
<1> QED
  BY <1>1, <1>2, <1>3, <1>4, <1>5, <1>6, <1>7, <1>8, <1>9, <1>10, <1>11, <1>13, <1>14, <1>15,
     <1>16, <1>17, <1>18, <1>19, <1>20 DEF AccountsNext, LoginStep, RequestStep

-----------------------------------------------------------------------------
\* What a step may do to the users table: rows keep their account or go, and an
\* account that appears is younger than all before it.
YoungerAccountsOnly ==
    /\ created' >= created
    /\ \A u \in Ids :
          \/ users'[u].acct = 0
          \/ users'[u].acct = users[u].acct
          \/ users'[u].acct = created' /\ created' > created /\ ~ Exists(u)

\* A row whose id is given again gets a younger account.
LEMMA AccountsGrowYounger ==
    AccountsInv /\ [AccountsNext]_accountVars => YoungerAccountsOnly
<1> SUFFICES ASSUME AccountsInv, [AccountsNext]_accountVars PROVE YoungerAccountsOnly
  OBVIOUS
<1>0. AccountsTypeOK /\ AccountsTypeOK'
  BY AccountsTypesStay DEF AccountsInv
<1>1. created \in Nat /\ created' \in Nat
  BY <1>0 DEF AccountsTypeOK, Accts
<1>2. CASE UNCHANGED <<users, created>>
  BY <1>1, <1>2 DEF YoungerAccountsOnly
<1>3. ASSUME NEW q \in Requests, NEW n \in Names, NEW p \in Passwords, NEW admin \in BOOLEAN,
             CreateUser(q, n, p, admin)
      PROVE  YoungerAccountsOnly
  <2>1. NextId \in Ids /\ ~ Exists(NextId) /\ created' = created + 1
    BY <1>0, <1>3, NextIdIsFree DEF CreateUser
  <2>2. users'[NextId].acct = created + 1 /\ \A u \in Ids \ {NextId} : users'[u] = users[u]
    BY <1>0, <1>3, <2>1 DEF CreateUser, AccountsTypeOK
  <2> QED
    BY <1>1, <2>1, <2>2 DEF YoungerAccountsOnly
<1>4. ASSUME NEW q \in Requests, NEW u \in Ids, DeleteUser(q, u) PROVE YoungerAccountsOnly
  BY <1>0, <1>1, <1>4 DEF DeleteUser, NoUser, YoungerAccountsOnly, AccountsTypeOK
<1>5. ASSUME NEW q \in Requests, NEW u \in Ids, NEW enabled \in BOOLEAN,
             SetEnabled(q, u, enabled)
      PROVE  YoungerAccountsOnly
  BY <1>0, <1>1, <1>5 DEF SetEnabled, YoungerAccountsOnly, AccountsTypeOK, User
<1>6. ASSUME NEW u \in Ids, NEW p \in Passwords, SetPassword(u, p), UNCHANGED created
      PROVE  YoungerAccountsOnly
  BY <1>0, <1>1, <1>6 DEF SetPassword, YoungerAccountsOnly, AccountsTypeOK, User
<1>7. CASE AccountsRestart
  <2>1. CASE (\E u \in Ids : Exists(u)) \/ created = MaxAccounts
    BY <1>2, <1>7, <2>1 DEF AccountsRestart
  <2>2. CASE ~ (\E u \in Ids : Exists(u)) /\ created # MaxAccounts
    <3>1. users' = Admin(AnyName, AnyPassword, created + 1) /\ created' = created + 1
      BY <1>7, <2>2 DEF AccountsRestart
    <3>2. \A u \in Ids : users'[u].acct \in {0, created + 1}
      BY <3>1 DEF Admin, NoUser
    <3> QED
      BY <1>1, <2>2, <3>1, <3>2 DEF YoungerAccountsOnly
  <2> QED
    BY <2>1, <2>2
<1>8. ASSUME NEW q \in Requests, NEW u \in Ids, NEW p \in Passwords, ResetPassword(q, u, p)
      PROVE  YoungerAccountsOnly
  BY <1>6, <1>8 DEF ResetPassword
<1>9. ASSUME NEW p \in Passwords, CliSet(p) PROVE YoungerAccountsOnly
  BY <1>0, <1>6, <1>9 DEF CliSet, AccountsTypeOK, Ids
<1> QED
  <2>1. ASSUME NEW a \in Logins, LoginStep(a) PROVE UNCHANGED <<users, created>>
    BY <2>1 DEF LoginStep, Verify, CreateSession, CreateSessionFails, Purge
  <2>2. ASSUME NEW q \in Requests, RequestStep(q) PROVE YoungerAccountsOnly
    BY <1>2, <1>3, <1>4, <1>5, <1>8, <2>2
    DEF RequestStep, ReadSession, DropExpired, ReadUser, StayAnonymous, Respond
  <2>3. CASE UNCHANGED accountVars
    BY <1>2, <2>3 DEF accountVars
  <2> QED
    BY <1>2, <1>7, <1>9, <2>1, <2>2, <2>3 DEF AccountsNext, Logout, CliFind, AccountsTick

\* A session's row and its user's go together, whoever deletes which: a step
\* keeps a session as it was, with its user, or deletes it, or creates it for
\* the account that holds the id.
LEMMA SessionsStayWithTheirUsers ==
    AccountsInv /\ [AccountsNext]_accountVars
        => SessionsDieWithTheirUser' /\ AccountsAreNumbered'
<1> SUFFICES ASSUME AccountsInv, [AccountsNext]_accountVars
             PROVE  SessionsDieWithTheirUser' /\ AccountsAreNumbered'
  OBVIOUS
<1>0. /\ AccountsTypeOK /\ AccountsTypeOK' /\ YoungerAccountsOnly
      /\ SessionsDieWithTheirUser /\ AccountsAreNumbered /\ WindowsAreTracked
  BY AccountsTypesStay, AccountsGrowYounger DEF AccountsInv
<1>1. created \in Nat /\ created' \in Nat
  BY <1>0 DEF AccountsTypeOK, Accts
<1>2. \A u \in Ids : users'[u].acct <= created'
  BY <1>0, <1>1 DEF YoungerAccountsOnly, AccountsAreNumbered, AccountsTypeOK, User, Accts
<1> DEFINE Kept(t) == /\ sessions'[t].uid = sessions[t].uid
                      /\ sessions'[t].acct = sessions[t].acct
                      /\ sessions'[t].proved = sessions[t].proved
                      /\ sessions'[t].since = sessions[t].since
                      /\ users'[sessions[t].uid].acct = users[sessions[t].uid].acct
           Numbered(t) == sessions'[t].uid > 0 =>
                        /\ users'[sessions'[t].uid].acct = sessions'[t].acct
                        /\ t \in minted' /\ sessions'[t].acct > 0
                        /\ sessions'[t].since <= created'
                        /\ sessions'[t].acct # sessions'[t].proved
                             => sessions'[t].acct > sessions'[t].since
<1>3. ASSUME NEW t \in Tokens, minted \subseteq minted', sessions'[t] = NoSession \/ Kept(t)
      PROVE  Numbered(t)
  <2>1. CASE sessions'[t] = NoSession
    BY <2>1 DEF NoSession
  <2>2. CASE Kept(t)
    <3>1. sessions[t] \in Session /\ created' >= created
      BY <1>0 DEF AccountsTypeOK, YoungerAccountsOnly
    <3>2. sessions[t].uid > 0 =>
            /\ users[sessions[t].uid].acct = sessions[t].acct
            /\ t \in minted /\ sessions[t].acct > 0 /\ sessions[t].since <= created
            /\ sessions[t].acct # sessions[t].proved => sessions[t].acct > sessions[t].since
      BY <1>0 DEF SessionsDieWithTheirUser, AccountsAreNumbered
    <3>3. sessions[t].since <= created => sessions[t].since <= created'
      BY <1>1, <3>1 DEF Session, Accts
    <3> QED
      BY <1>3, <2>2, <3>2, <3>3
  <2> QED
    BY <1>3, <2>1, <2>2
<1>4. SUFFICES \A t \in Tokens : Numbered(t)
  BY <1>2 DEF SessionsDieWithTheirUser, AccountsAreNumbered
<1>5. CASE UNCHANGED <<users, sessions, minted>>
  BY <1>3, <1>5
<1>6. ASSUME NEW a \in Logins, NEW new \in Tokens, CreateSession(a, new)
      PROVE  \A t \in Tokens : Numbered(t)
  <2>1. \A t \in Tokens \ {new} : Numbered(t)
    BY <1>0, <1>3, <1>6 DEF CreateSession, AccountsTypeOK
  <2>2. /\ sessions'[new] = [uid |-> login[a].uid, left |-> SessionTTL,
                             acct |-> users[login[a].uid].acct,
                             proved |-> login[a].acct, since |-> login[a].since]
        /\ UNCHANGED <<users, created>> /\ new \in minted' /\ Exists(login[a].uid)
        /\ HeldSince(login[a].uid, login[a].acct, login[a].since)
    BY <1>0, <1>6 DEF CreateSession, AccountsTypeOK, WindowsAreTracked
  <2>3. Numbered(new)
    BY <2>2 DEF HeldSince, Exists
  <2> QED
    BY <2>1, <2>3
<1>7. ASSUME NEW a \in Logins, Purge(a) PROVE \A t \in Tokens : Numbered(t)
  BY <1>0, <1>3, <1>7 DEF Purge
<1>8. ASSUME NEW q \in Requests, DropExpired(q) PROVE \A t \in Tokens : Numbered(t)
  BY <1>0, <1>3, <1>8 DEF DropExpired, AccountsTypeOK
<1>9. ASSUME NEW q \in Requests, NEW n \in Names, NEW p \in Passwords, NEW admin \in BOOLEAN,
             CreateUser(q, n, p, admin)
      PROVE  \A t \in Tokens : Numbered(t)
  <2>1. NextId \in Ids /\ ~ Exists(NextId)
    BY <1>0, <1>9, NextIdIsFree DEF CreateUser
  <2>2. \A t \in Tokens : sessions[t].uid > 0 => sessions[t].uid # NextId
    BY <1>0, <2>1 DEF SessionsDieWithTheirUser, AccountsAreNumbered, Exists
  <2>3. \A t \in Tokens : sessions[t].uid > 0 => Kept(t)
    BY <1>0, <1>9, <2>1, <2>2 DEF CreateUser, AccountsTypeOK
  <2>4. UNCHANGED <<sessions, minted>>
    BY <1>9 DEF CreateUser
  <2> QED
    BY <1>3, <2>3, <2>4
<1>10. ASSUME NEW q \in Requests, NEW u \in Ids, DeleteUser(q, u)
       PROVE  \A t \in Tokens : Numbered(t)
  <2>1. \A t \in Tokens : sessions'[t] = IF sessions[t].uid = u THEN NoSession ELSE sessions[t]
    BY <1>10 DEF DeleteUser
  <2>2. \A t \in Tokens : sessions[t].uid # u => Kept(t)
    BY <1>0, <1>10, <2>1 DEF DeleteUser, AccountsTypeOK
  <2> QED
    BY <1>3, <1>10, <2>1, <2>2 DEF DeleteUser
<1>11. ASSUME \A u \in Ids : users'[u].acct = users[u].acct, UNCHANGED <<sessions, minted>>
       PROVE  \A t \in Tokens : Numbered(t)
  <2>1. \A t \in Tokens : sessions[t].uid > 0 => Kept(t)
    BY <1>0, <1>11 DEF AccountsTypeOK, Session, Ids
  <2> QED
    BY <1>3, <1>11, <2>1
<1>12. ASSUME NEW q \in Requests, NEW u \in Ids, NEW enabled \in BOOLEAN,
              SetEnabled(q, u, enabled)
       PROVE  \A t \in Tokens : Numbered(t)
  <2>1. \A v \in Ids : users'[v].acct = users[v].acct
    BY <1>0, <1>12 DEF SetEnabled, AccountsTypeOK, User
  <2> QED
    BY <1>11, <1>12, <2>1 DEF SetEnabled
<1>13. ASSUME NEW u \in Ids, NEW p \in Passwords, SetPassword(u, p), UNCHANGED <<sessions, minted>>
       PROVE  \A t \in Tokens : Numbered(t)
  <2>1. \A v \in Ids : users'[v].acct = users[v].acct
    BY <1>0, <1>13 DEF SetPassword, AccountsTypeOK, User
  <2> QED
    BY <1>11, <1>13, <2>1
<1>14. ASSUME NEW t \in Tokens, Logout(t) PROVE \A s \in Tokens : Numbered(s)
  BY <1>0, <1>3, <1>14 DEF Logout, AccountsTypeOK
<1>15. CASE AccountsTick
  <2>1. ASSUME NEW t \in Tokens PROVE Kept(t)
    <3>1. sessions'[t] = [sessions[t] EXCEPT !.left = IF @ >= 0 THEN @ - 1 ELSE @]
      BY <1>15 DEF AccountsTick
    <3>2. sessions[t] \in Session
      BY <1>0 DEF AccountsTypeOK
    <3> QED
      BY <1>15, <3>1, <3>2 DEF AccountsTick, Session
  <2> QED
    BY <1>3, <1>15, <2>1 DEF AccountsTick
<1>16. CASE AccountsRestart
  <2>1. CASE (\E u \in Ids : Exists(u)) \/ created = MaxAccounts
    BY <1>5, <1>16, <2>1 DEF AccountsRestart
  <2>2. CASE ~ ((\E u \in Ids : Exists(u)) \/ created = MaxAccounts)
    <3>1. \A t \in Tokens : ~ (sessions[t].uid > 0)
      <4> SUFFICES ASSUME NEW t \in Tokens, sessions[t].uid > 0 PROVE FALSE
        OBVIOUS
      <4>1. sessions[t].uid \in Ids
        BY <1>0 DEF AccountsTypeOK, Session, Ids
      <4> QED
        BY <1>0, <2>2, <4>1 DEF SessionsDieWithTheirUser, AccountsAreNumbered, Exists
    <3> QED
      BY <1>16, <3>1 DEF AccountsRestart
  <2> QED
    BY <2>1, <2>2
<1> QED
  <2>1. ASSUME NEW a \in Logins, LoginStep(a) PROVE \A t \in Tokens : Numbered(t)
    BY <1>5, <1>6, <1>7, <2>1 DEF LoginStep, Verify, CreateSessionFails
  <2>2. ASSUME NEW q \in Requests, RequestStep(q) PROVE \A t \in Tokens : Numbered(t)
    <3>1. ASSUME NEW u \in Ids, NEW p \in Passwords, ResetPassword(q, u, p)
          PROVE  \A t \in Tokens : Numbered(t)
      BY <1>13, <3>1 DEF ResetPassword
    <3> QED
      BY <1>5, <1>8, <1>9, <1>10, <1>12, <2>2, <3>1
      DEF RequestStep, ReadSession, ReadUser, StayAnonymous, Respond
  <2>3. ASSUME NEW p \in Passwords, CliSet(p) PROVE \A t \in Tokens : Numbered(t)
    BY <1>0, <1>13, <2>3 DEF CliSet, AccountsTypeOK, Ids
  <2>4. CASE UNCHANGED accountVars
    BY <1>5, <2>4 DEF accountVars
  <2> QED
    BY <1>5, <1>14, <1>15, <1>16, <2>1, <2>2, <2>3, <2>4 DEF AccountsNext, CliFind

\* While an id is carried over a statement, only a younger account can take it.
LEMMA WindowsStayTracked ==
    AccountsInv /\ [AccountsNext]_accountVars => WindowsAreTracked'
<1> SUFFICES ASSUME AccountsInv, [AccountsNext]_accountVars PROVE WindowsAreTracked'
  OBVIOUS
<1>0. /\ AccountsTypeOK /\ AccountsTypeOK' /\ YoungerAccountsOnly
      /\ SessionsDieWithTheirUser /\ AccountsAreNumbered /\ WindowsAreTracked
  BY AccountsTypesStay, AccountsGrowYounger DEF AccountsInv
<1>1. created \in Nat /\ created' \in Nat /\ created <= created'
  BY <1>0 DEF AccountsTypeOK, Accts, YoungerAccountsOnly
<1> DEFINE Held(u, acct, since) ==
             /\ u \in Ids /\ acct > 0 /\ since <= created'
             /\ users'[u].acct > 0 /\ users'[u].acct # acct => users'[u].acct > since
           LoginHeld(a) == login'[a].pc = "verified" =>
                              Held(login'[a].uid, login'[a].acct, login'[a].since)
           RequestHeld(q) ==
             /\ request'[q].pc = "user" =>
                   Held(request'[q].uid, request'[q].owner, request'[q].since)
             /\ request'[q].pc = "handler" =>
                   /\ request'[q].uid \in Ids /\ request'[q].acct > 0
                   /\ request'[q].acct # request'[q].owner => request'[q].acct > request'[q].since
<1>2. SUFFICES /\ \A a \in Logins : LoginHeld(a)
               /\ \A q \in Requests : RequestHeld(q)
  BY DEF WindowsAreTracked, HeldSince
<1>3. ASSUME NEW u, NEW acct, NEW since \in Nat, HeldSince(u, acct, since)
      PROVE  Held(u, acct, since)
  <2>1. u \in Ids /\ acct > 0 /\ since <= created'
    BY <1>1, <1>3 DEF HeldSince
  <2>2. CASE users'[u].acct = users[u].acct \/ users'[u].acct = 0
    BY <1>3, <2>1, <2>2 DEF HeldSince
  <2>3. CASE users'[u].acct = created' /\ created' > created
    BY <1>1, <1>3, <2>1, <2>3 DEF HeldSince
  <2> QED
    BY <1>0, <2>1, <2>2, <2>3 DEF YoungerAccountsOnly
<1>4. ASSUME NEW a \in Logins, login'[a] = login[a] \/ login'[a].pc # "verified"
      PROVE  LoginHeld(a)
  <2>1. login[a].since \in Nat
    BY <1>0 DEF AccountsTypeOK, LoginState, Accts
  <2>2. login[a].pc = "verified" => HeldSince(login[a].uid, login[a].acct, login[a].since)
    BY <1>0 DEF WindowsAreTracked
  <2> HIDE DEF Held
  <2> QED
    BY <1>3, <1>4, <2>1, <2>2
<1>5. ASSUME NEW q \in Requests, request'[q] = request[q] \/ request'[q].pc \notin {"user", "handler"}
      PROVE  RequestHeld(q)
  <2>1. request[q].since \in Nat
    BY <1>0 DEF AccountsTypeOK, RequestState, Accts
  <2>2. request[q].pc = "user" => HeldSince(request[q].uid, request[q].owner, request[q].since)
    BY <1>0 DEF WindowsAreTracked
  <2>3. request[q].pc = "handler" =>
           /\ request[q].uid \in Ids /\ request[q].acct > 0
           /\ request[q].acct # request[q].owner => request[q].acct > request[q].since
    BY <1>0 DEF WindowsAreTracked
  <2> HIDE DEF Held
  <2> QED
    BY <1>3, <1>5, <2>1, <2>2, <2>3
<1>6. ASSUME UNCHANGED login PROVE \A a \in Logins : LoginHeld(a)
  BY <1>4, <1>6
<1>7. ASSUME UNCHANGED request PROVE \A q \in Requests : RequestHeld(q)
  BY <1>5, <1>7
<1>8. ASSUME NEW a \in Logins, LoginStep(a) PROVE \A b \in Logins : LoginHeld(b)
  <2>1. ASSUME NEW n \in Names, NEW p \in Passwords, Verify(a, n, p) PROVE LoginHeld(a)
    <3>1. PICK u \in Ids :
            /\ Exists(u) /\ UNCHANGED <<users, created>>
            /\ login'[a] = [pc |-> "verified", uid |-> u, acct |-> users[u].acct, since |-> created]
      BY <1>0, <2>1 DEF Verify, AccountsTypeOK
    <3> QED
      BY <1>1, <3>1 DEF Exists
  <2>2. \A b \in Logins \ {a} : login'[b] = login[b]
    BY <1>0, <1>8 DEF LoginStep, Verify, CreateSession, CreateSessionFails, Purge, AccountsTypeOK
  <2>3. (\E t \in Tokens : CreateSession(a, t)) \/ CreateSessionFails(a) \/ Purge(a)
           => login'[a].pc # "verified"
    BY <1>0 DEF CreateSession, CreateSessionFails, Purge, IdleLogin, AccountsTypeOK
  <2> HIDE DEF LoginHeld
  <2> QED
    BY <1>4, <1>8, <2>1, <2>2, <2>3 DEF LoginStep
<1>9. ASSUME NEW q \in Requests, RequestStep(q) PROVE \A r \in Requests : RequestHeld(r)
  <2>1. ASSUME NEW t \in Tokens, ReadSession(q, t) PROVE RequestHeld(q)
    <3>1. CASE Usable(t)
      <4>1. request'[q] = [IdleRequest EXCEPT !.pc = "user", !.uid = sessions[t].uid,
                             !.owner = sessions[t].acct, !.since = created]
        BY <1>0, <2>1, <3>1 DEF ReadSession, AccountsTypeOK
      <4>2. sessions[t] \in Session /\ sessions[t].uid > 0
        BY <1>0, <2>1 DEF ReadSession, AccountsTypeOK
      <4>3. /\ sessions[t].uid \in Ids /\ sessions[t].acct > 0
            /\ users'[sessions[t].uid].acct = sessions[t].acct
        BY <1>0, <2>1, <4>2 DEF ReadSession, SessionsDieWithTheirUser, AccountsAreNumbered,
                                Session, Ids
      <4> QED
        BY <1>1, <4>1, <4>3 DEF IdleRequest
    <3>2. CASE ~ Usable(t)
      BY <1>0, <2>1, <3>2 DEF ReadSession, IdleRequest, AccountsTypeOK
    <3> QED
      BY <3>1, <3>2
  <2>2. ASSUME ReadUser(q) PROVE RequestHeld(q)
    <3>1. HeldSince(request[q].uid, request[q].owner, request[q].since)
      BY <1>0, <2>2 DEF ReadUser, WindowsAreTracked
    <3>2. /\ request[q] \in RequestState /\ Exists(request[q].uid)
          /\ request'[q] = [request[q] EXCEPT !.pc = "handler", !.acct = users[request[q].uid].acct,
                                              !.admin = users[request[q].uid].admin]
      BY <1>0, <2>2 DEF ReadUser, AccountsTypeOK
    <3> QED
      BY <3>1, <3>2 DEF HeldSince, Exists, RequestState
  <2>3. \A r \in Requests \ {q} : request'[r] = request[r]
    BY <1>0, <1>9 DEF RequestStep, ReadSession, DropExpired, ReadUser, StayAnonymous, CreateUser,
                      DeleteUser, SetEnabled, ResetPassword, Respond, Done, AccountsTypeOK
  <2>4. \/ \E t \in Tokens : ReadSession(q, t)
        \/ ReadUser(q)
        \/ request'[q].pc \notin {"user", "handler"}
    BY <1>0, <1>9 DEF RequestStep, DropExpired, StayAnonymous, CreateUser,
                      DeleteUser, SetEnabled, ResetPassword, Respond, Done, IdleRequest, AccountsTypeOK
  <2> HIDE DEF RequestHeld
  <2> QED
    BY <1>5, <2>1, <2>2, <2>3, <2>4
<1>10. CASE AccountsRestart
  BY <1>4, <1>5, <1>10 DEF AccountsRestart, IdleLogin, IdleRequest
<1> QED
  <2>1. ASSUME NEW a \in Logins, LoginStep(a) PROVE UNCHANGED request
    BY <2>1 DEF LoginStep, Verify, CreateSession, CreateSessionFails, Purge
  <2>2. ASSUME NEW q \in Requests, RequestStep(q) PROVE UNCHANGED login
    BY <2>2 DEF RequestStep, ReadSession, DropExpired, ReadUser, StayAnonymous, CreateUser,
                DeleteUser, SetEnabled, ResetPassword, Respond
  <2> HIDE DEF LoginHeld, RequestHeld
  <2> QED
    BY <1>6, <1>7, <1>8, <1>9, <1>10, <2>1, <2>2
    DEF AccountsNext, Logout, CliFind, CliSet, AccountsTick, accountVars

-----------------------------------------------------------------------------
\* AccountsInv is inductive: the tables keep their types, a session is deleted
\* with its user, and an id that is carried from one statement to the next is
\* either still the same account's or a younger one's.
THEOREM AccountsInvariance == AccountsSpec => []AccountsInv
<1>1. AccountsInit => AccountsInv
  <2> SUFFICES ASSUME AccountsInit PROVE AccountsInv
    OBVIOUS
  <2>1. AccountsTypeOK
    BY RowsAreTyped DEF AccountsInit, AccountsTypeOK, Admin, User, Accts, Ids
  <2> QED
    BY <2>1 DEF AccountsInit, AccountsInv, SessionsDieWithTheirUser, AccountsAreNumbered,
                WindowsAreTracked, Admin, NoUser, NoSession, IdleLogin, IdleRequest, Ids
<1>2. AccountsInv /\ [AccountsNext]_accountVars => AccountsInv'
  BY AccountsTypesStay, SessionsStayWithTheirUsers, WindowsStayTracked DEF AccountsInv
<1> QED
  BY <1>1, <1>2, PTL DEF AccountsSpec

\* A cookie acts for the account whose password opened it, unless the id was
\* given to a younger account inside one of the two windows.
THEOREM AccountsCookieActsForItsAccount == AccountsSpec => []CookieActsForItsAccount
<1>1. AccountsInv => CookieActsForItsAccount
  BY DEF AccountsInv, AccountsAreNumbered, WindowsAreTracked, CookieActsForItsAccount
<1> QED
  BY <1>1, AccountsInvariance, PTL

\* The last active admin goes only by a request of an admin who was deleted,
\* replaced or disabled since the middleware read them: "cannot delete your own
\* account" keeps the admin of every other request.
THEOREM AccountsLastAdminOutlivesItsRequests == AccountsSpec => LastAdminOutlivesItsRequests
<1> DEFINE Stale(q) == /\ request[q].pc = "handler" /\ request'[q].pc = "idle"
                       /\ users[request[q].uid].acct # request[q].acct
                            \/ ~ ActiveAdmin(request[q].uid)
           A == (\E u \in Ids : ActiveAdmin(u)) /\ ~ (\E u \in Ids : ActiveAdmin(u)')
                   => \E q \in Requests : Stale(q)
<1>1. AccountsInv /\ [AccountsNext]_accountVars => [A]_accountVars
  <2> SUFFICES ASSUME AccountsInv, AccountsNext, NEW v \in Ids, ActiveAdmin(v),
                      \A u \in Ids : ~ ActiveAdmin(u)'
               PROVE  \E q \in Requests : Stale(q)
    OBVIOUS
  <2>0. AccountsTypeOK /\ WindowsAreTracked
    BY DEF AccountsInv
  <2>1. users'[v] # users[v]
    BY DEF ActiveAdmin, Exists
  <2>2. ASSUME NEW u \in Ids, NEW p \in Passwords, SetPassword(u, p) PROVE FALSE
    <3>1. users'[v].acct = users[v].acct /\ users'[v].admin = users[v].admin
          /\ users'[v].enabled = users[v].enabled
      BY <2>0, <2>2 DEF SetPassword, AccountsTypeOK, User
    <3> QED
      BY <3>1 DEF ActiveAdmin, Exists
  <2>3. ASSUME NEW q \in Requests, NEW n \in Names, NEW p \in Passwords, NEW admin \in BOOLEAN,
               CreateUser(q, n, p, admin)
        PROVE  FALSE
    <3>1. NextId \in Ids /\ ~ Exists(NextId)
      BY <2>0, <2>3, NextIdIsFree DEF CreateUser
    <3> QED
      BY <2>0, <2>1, <2>3, <3>1 DEF CreateUser, ActiveAdmin, AccountsTypeOK
  <2>4. ASSUME NEW q \in Requests, request[q].pc = "handler", Done(q),
               users'[request[q].uid] = users[request[q].uid]
        PROVE  Stale(q)
    <3>1. request[q].uid \in Ids /\ request'[q].pc = "idle"
      BY <2>0, <2>4 DEF WindowsAreTracked, Done, IdleRequest, AccountsTypeOK
    <3>2. ~ ActiveAdmin(request[q].uid)
      BY <2>4, <3>1 DEF ActiveAdmin, Exists
    <3> QED
      BY <2>4, <3>1, <3>2
  <2>5. ASSUME NEW q \in Requests, NEW u \in Ids, DeleteUser(q, u) PROVE Stale(q)
    BY <2>0, <2>4, <2>5 DEF DeleteUser, ByAdmin, WindowsAreTracked, AccountsTypeOK
  <2>6. ASSUME NEW q \in Requests, NEW u \in Ids, NEW enabled \in BOOLEAN, SetEnabled(q, u, enabled)
        PROVE  Stale(q)
    BY <2>0, <2>4, <2>6 DEF SetEnabled, ByAdmin, WindowsAreTracked, AccountsTypeOK
  <2>7. ASSUME NEW a \in Logins, LoginStep(a) PROVE FALSE
    BY <2>1, <2>7 DEF LoginStep, Verify, CreateSession, CreateSessionFails, Purge
  <2>8. ASSUME NEW q \in Requests, RequestStep(q) PROVE Stale(q)
    <3>1. ASSUME NEW u \in Ids, NEW p \in Passwords, ResetPassword(q, u, p) PROVE FALSE
      BY <2>2, <3>1 DEF ResetPassword
    <3> HIDE DEF Stale
    <3> QED
      BY <2>1, <2>3, <2>5, <2>6, <2>8, <3>1
      DEF RequestStep, ReadSession, DropExpired, ReadUser, StayAnonymous, Respond
  <2>9. ASSUME NEW p \in Passwords, CliSet(p) PROVE FALSE
    BY <2>0, <2>2, <2>9 DEF CliSet, AccountsTypeOK, Ids
  <2>10. CASE AccountsRestart
    BY <2>1, <2>10 DEF AccountsRestart, ActiveAdmin
  <2> QED
    BY <2>1, <2>7, <2>8, <2>9, <2>10 DEF AccountsNext, Logout, CliFind, AccountsTick
<1> QED
  BY <1>1, AccountsInvariance, PTL DEF AccountsSpec, LastAdminOutlivesItsRequests

-----------------------------------------------------------------------------
(* The handler. *)

USE LoginsAssumption, LoginSetsAssumption

\* Whatever the handler does, each of its components does a step of its own or none.
LEMMA HandlersCallTheirComponents ==
    ASSUME [Next]_vars
    PROVE  /\ [ChallengeNext]_challengeVars
           /\ [LimiterNext]_limiterVars
           /\ [AccountsNext]_accountVars
<1>1. ASSUME NEW ch \in Nonces, FetchKey(ch)
      PROVE  ChallengeNext /\ UNCHANGED limiterVars /\ UNCHANGED accountVars
  BY <1>1 DEF FetchKey, ChallengeNext
<1>2. ASSUME NEW ip \in IPs, TooManyAttempts(ip)
      PROVE  LimiterNext /\ UNCHANGED challengeVars /\ UNCHANGED accountVars
  BY <1>2 DEF TooManyAttempts, LimiterNext
<1>3. ASSUME NEW a \in Attempts, HandlerStep(a)
      PROVE  /\ [ChallengeNext]_challengeVars
             /\ [LimiterNext]_limiterVars
             /\ [AccountsNext]_accountVars
  <2>1. ASSUME NEW ip \in IPs, PassLimiter(a, ip)
        PROVE  LimiterNext /\ UNCHANGED challengeVars /\ UNCHANGED accountVars
    BY <2>1 DEF PassLimiter, LimiterNext
  <2>2. ASSUME NEW ch \in Nonces, DecryptPayload(a, ch)
        PROVE  ChallengeNext /\ UNCHANGED limiterVars /\ UNCHANGED accountVars
    BY <2>2 DEF DecryptPayload, ChallengeNext
  <2>3. ASSUME BadPayload(a)
        PROVE  /\ [ChallengeNext]_challengeVars /\ [LimiterNext]_limiterVars
               /\ UNCHANGED accountVars
    BY <2>3 DEF BadPayload, ReleaseIfLimited, ChallengeNext, LimiterNext
  <2>4. ASSUME NEW n \in Names, NEW p \in Passwords, PasswordRight(a, n, p)
        PROVE  AccountsNext /\ UNCHANGED challengeVars /\ UNCHANGED limiterVars
    BY <2>4 DEF PasswordRight, AccountsNext, LoginStep
  <2>5. ASSUME PassFromLoopback(a) \/ PasswordWrong(a)
        PROVE  UNCHANGED challengeVars /\ UNCHANGED limiterVars /\ UNCHANGED accountVars
    BY <2>5 DEF PassFromLoopback, PasswordWrong
  <2>6. ASSUME Reject(a) \/ ResetLimiter(a)
        PROVE  [LimiterNext]_limiterVars /\ UNCHANGED challengeVars /\ UNCHANGED accountVars
    BY <2>6 DEF Reject, ResetLimiter, LimiterNext
  <2>7. ASSUME NEW t \in Tokens, OpenSession(a, t)
        PROVE  AccountsNext /\ UNCHANGED challengeVars /\ UNCHANGED limiterVars
    BY <2>7 DEF OpenSession, AccountsNext, LoginStep
  <2>8. ASSUME OpenSessionFails(a) \/ FinishLogin(a)
        PROVE  AccountsNext /\ UNCHANGED challengeVars /\ UNCHANGED limiterVars
    BY <2>8 DEF OpenSessionFails, FinishLogin, AccountsNext, LoginStep
  <2> QED
    BY <1>3, <2>1, <2>2, <2>3, <2>4, <2>5, <2>6, <2>7, <2>8 DEF HandlerStep
<1>4. ASSUME OtherRequests
      PROVE  AccountsNext /\ UNCHANGED challengeVars /\ UNCHANGED limiterVars
  BY <1>4 DEF OtherRequests, AccountsNext
<1>5. ASSUME Tick \/ Restart PROVE ChallengeNext /\ LimiterNext /\ AccountsNext
  BY <1>5 DEF Tick, Restart, ChallengeNext, LimiterNext, AccountsNext
<1>6. ASSUME UNCHANGED vars
      PROVE  UNCHANGED challengeVars /\ UNCHANGED limiterVars /\ UNCHANGED accountVars
  BY <1>6 DEF vars
<1> QED
  BY <1>1, <1>2, <1>3, <1>4, <1>5, <1>6 DEF Next

\* So what is proved of the components alone holds of them inside the handler.
THEOREM LoginKeepsItsComponents == Spec => ChallengeSpec /\ LimiterSpec /\ AccountsSpec
<1>1. Init => ChallengeInit /\ LimiterInit /\ AccountsInit
  BY DEF Init
<1>2. [Next]_vars => /\ [ChallengeNext]_challengeVars
                     /\ [LimiterNext]_limiterVars
                     /\ [AccountsNext]_accountVars
  BY HandlersCallTheirComponents
<1> QED
  BY <1>1, <1>2, PTL DEF Spec, ChallengeSpec, LimiterSpec, AccountsSpec

\* How often a nonce was accepted only grows.
LEMMA AcceptancesStay ==
    ASSUME ChallengeTypeOK, [ChallengeNext]_challengeVars, NEW ch \in Nonces
    PROVE  accepted[ch] \in Nat /\ accepted'[ch] \in Nat /\ accepted[ch] <= accepted'[ch]
<1>1. accepted \in [Nonces -> Nat]
  BY DEF ChallengeTypeOK
<1>2. ASSUME NEW c \in Nonces, NewChallenge(c) PROVE accepted' = accepted
  BY <1>2 DEF NewChallenge
<1>3. ASSUME NEW c \in Nonces, Consume(c)
      PROVE  accepted' = [accepted EXCEPT ![c] = IF Expired(c) THEN @ ELSE @ + 1]
  BY <1>3 DEF Consume
<1>4. ASSUME ChallengeTick \/ ChallengeRestart \/ UNCHANGED challengeVars
      PROVE  accepted' = accepted
  BY <1>4 DEF ChallengeTick, ChallengeRestart, challengeVars
<1> QED
  BY <1>1, <1>2, <1>3, <1>4 DEF ChallengeNext

\* The failures held against an address.
Fails(ip) == rec[ip].fails

LEMMA FailsAreCounted ==
    ASSUME LimiterTypeOK, [LimiterNext]_limiterVars, NEW ip \in IPs
    PROVE  /\ Fails(ip) \in Nat /\ Fails(ip)' \in Nat
           /\ \/ Fails(ip)' <= Fails(ip)
              \/ Fails(ip)' <= Fails(ip) + 1 /\ \E a \in Attempts : NoteFail(a)
<1>1. rec \in [IPs -> Rec]
  BY DEF LimiterTypeOK
<1>2. rec[ip] \in Rec /\ rec[ip].fails \in Nat
  BY <1>1 DEF Rec
<1>3. ASSUME rec'[ip] \in {rec[ip], NoRec}
      PROVE  Fails(ip)' \in Nat /\ Fails(ip)' <= Fails(ip)
  BY <1>2, <1>3 DEF Fails, NoRec
<1>4. ASSUME NEW i \in IPs, Refuse(i) PROVE rec'[ip] \in {rec[ip], NoRec}
  BY <1>1, <1>4 DEF Refuse, Collected
<1>5. ASSUME NEW i \in IPs, NEW a \in Attempts, Admit(a, i) PROVE rec'[ip] \in {rec[ip], NoRec}
  BY <1>1, <1>5 DEF Admit, Collected
<1>6. ASSUME NEW a \in Attempts, Reset(a) \/ Release(a) PROVE rec'[ip] \in {rec[ip], NoRec}
  BY <1>1, <1>6 DEF Reset, Release
<1>7. ASSUME LimiterRestart \/ UNCHANGED limiterVars PROVE rec'[ip] \in {rec[ip], NoRec}
  BY <1>7 DEF LimiterRestart, limiterVars
<1>8. ASSUME LimiterTick PROVE Fails(ip)' \in Nat /\ Fails(ip)' <= Fails(ip)
  <2>1. rec'[ip] = Aged(rec[ip])
    BY <1>8 DEF LimiterTick
  <2>2. Aged(rec[ip]).fails = rec[ip].fails
    BY <1>2 DEF Aged, Rec
  <2> QED
    BY <1>2, <2>1, <2>2 DEF Fails
<1>9. ASSUME NEW a \in Attempts, NoteFail(a)
      PROVE  Fails(ip)' \in Nat /\ Fails(ip)' <= Fails(ip) + 1
  <2>1. admitted[a] \in IPs /\ rec' = [rec EXCEPT ![admitted[a]] = Counted(admitted[a])]
    BY <1>9 DEF NoteFail, LimiterTypeOK
  <2>2. CASE admitted[a] # ip
    BY <1>1, <1>2, <2>1, <2>2 DEF Fails
  <2>3. CASE admitted[a] = ip
    <3>1. rec'[ip] = Counted(ip)
      BY <1>1, <2>1, <2>3
    <3>2. Counted(ip).fails \in {1, rec[ip].fails + 1}
      BY DEF Counted, NoRec
    <3> QED
      BY <1>2, <3>1, <3>2 DEF Fails
  <2> QED
    BY <2>2, <2>3
<1> QED
  BY <1>2, <1>3, <1>4, <1>5, <1>6, <1>7, <1>8, <1>9 DEF LimiterNext, Fails

-----------------------------------------------------------------------------
\* Attempt a goes on, with the nonce it has or without one.
Goes(a) ==
    /\ step' = [step EXCEPT ![a] = step'[a]] /\ step'[a] \in Steps
    /\ step[a] \in {"idle", "admitted"} <=> step'[a] \in {"idle", "admitted"}
    /\ step[a] # "inserted" /\ step'[a] # "inserted"
    /\ UNCHANGED <<nonce, paidBy>>

\* What a step does to the attempts, and what it may cost.
LEMMA HandlerShapes ==
    ASSUME LoginTypeOK, [Next]_vars
    PROVE  \/ /\ UNCHANGED loginVars \/ \E a \in Attempts : Goes(a)
              /\ \A ip \in IPs : Fails(ip)' <= Fails(ip)
           \/ \E a \in Attempts :
                /\ Answer(a)
                /\ \A ip \in IPs : \/ Fails(ip)' <= Fails(ip)
                                   \/ step[a] = "rejected" /\ Fails(ip)' <= Fails(ip) + 1
           \/ /\ \E a \in Attempts, ch \in Nonces : DecryptPayload(a, ch)
              /\ \A ip \in IPs : Fails(ip)' <= Fails(ip)
           \/ /\ \E a \in Attempts, t \in Tokens : OpenSession(a, t)
              /\ \A ip \in IPs : Fails(ip)' <= Fails(ip)
           \/ /\ Restart
              /\ \A ip \in IPs : Fails(ip)' <= Fails(ip)
<1>0. /\ step \in [Attempts -> Steps]
      /\ \A ip \in IPs :
            /\ Fails(ip) \in Nat /\ Fails(ip)' \in Nat
            /\ \/ Fails(ip)' <= Fails(ip)
               \/ Fails(ip)' <= Fails(ip) + 1 /\ \E a \in Attempts : NoteFail(a)
  BY HandlersCallTheirComponents, FailsAreCounted DEF LoginTypeOK
<1>1. ASSUME UNCHANGED limiterVars PROVE \A ip \in IPs : Fails(ip)' <= Fails(ip)
  BY <1>0, <1>1 DEF limiterVars, Fails
<1>2. ASSUME NEW ip \in IPs, TooManyAttempts(ip)
      PROVE  UNCHANGED loginVars /\ \A i \in IPs : Fails(i)' <= Fails(i)
  <2>1. Refuse(ip) /\ UNCHANGED loginVars
    BY <1>2 DEF TooManyAttempts
  <2>2. \A i \in IPs : rec'[i] \in {rec[i], NoRec}
    BY <2>1 DEF Refuse, Collected, LoginTypeOK, LimiterTypeOK
  <2> QED
    BY <1>0, <2>1, <2>2 DEF Fails, NoRec
<1>3. ASSUME Tick PROVE UNCHANGED loginVars /\ \A ip \in IPs : Fails(ip)' <= Fails(ip)
  <2>1. \A ip \in IPs : rec'[ip] = Aged(rec[ip]) /\ rec[ip] \in Rec
    BY <1>3 DEF Tick, LimiterTick, LoginTypeOK, LimiterTypeOK
  <2>2. \A ip \in IPs : Aged(rec[ip]).fails = rec[ip].fails
    BY <2>1 DEF Aged, Rec
  <2> QED
    BY <1>0, <1>3, <2>1, <2>2 DEF Tick, Fails
<1>4. ASSUME (\E ch \in Nonces : FetchKey(ch)) \/ OtherRequests \/ UNCHANGED vars
      PROVE  UNCHANGED loginVars /\ UNCHANGED limiterVars
  BY <1>4 DEF FetchKey, OtherRequests, vars
<1>5. ASSUME Restart PROVE \A ip \in IPs : Fails(ip)' <= Fails(ip)
  BY <1>0, <1>5 DEF Restart, LimiterRestart, Fails, NoRec
<1>6. ASSUME NEW a \in Attempts, NEW ip \in IPs, PassLimiter(a, ip)
      PROVE  Goes(a) /\ \A i \in IPs : Fails(i)' <= Fails(i)
  <2>1. \A i \in IPs : rec'[i] \in {rec[i], NoRec}
    BY <1>6 DEF PassLimiter, Admit, Collected, LoginTypeOK, LimiterTypeOK
  <2>2. Goes(a)
    BY <1>0, <1>6 DEF PassLimiter, Goto, Goes, Steps
  <2> QED
    BY <1>0, <2>1, <2>2 DEF Fails, NoRec
<1>7. ASSUME NEW a \in Attempts,
             \/ PassFromLoopback(a) \/ PasswordWrong(a)
             \/ \E n \in Names, p \in Passwords : PasswordRight(a, n, p)
      PROVE  Goes(a) /\ UNCHANGED limiterVars
  BY <1>0, <1>7 DEF PassFromLoopback, PasswordWrong, PasswordRight, Goto, Goes, Steps
<1>8. ASSUME NEW a \in Attempts, ResetLimiter(a)
      PROVE  Goes(a) /\ \A i \in IPs : Fails(i)' <= Fails(i)
  <2>1. \A i \in IPs : rec'[i] \in {rec[i], NoRec}
    BY <1>8 DEF ResetLimiter, Reset, limiterVars, LoginTypeOK, LimiterTypeOK
  <2>2. Goes(a)
    BY <1>0, <1>8 DEF ResetLimiter, Goto, Goes, Steps
  <2> QED
    BY <1>0, <2>1, <2>2 DEF Fails, NoRec
<1>9. ASSUME NEW a \in Attempts, BadPayload(a)
      PROVE  Answer(a) /\ \A i \in IPs : Fails(i)' <= Fails(i)
  <2>1. rec' = rec
    BY <1>9 DEF BadPayload, ReleaseIfLimited, Release, limiterVars
  <2> QED
    BY <1>0, <1>9, <2>1 DEF BadPayload, Fails
<1>10. ASSUME NEW a \in Attempts, Reject(a)
       PROVE  /\ Answer(a) /\ step[a] = "rejected"
              /\ \A ip \in IPs : Fails(ip)' <= Fails(ip) \/ Fails(ip)' <= Fails(ip) + 1
  BY <1>0, <1>10 DEF Reject
<1>11. ASSUME NEW a \in Attempts, OpenSessionFails(a) \/ FinishLogin(a)
       PROVE  Answer(a) /\ UNCHANGED limiterVars
  BY <1>11 DEF OpenSessionFails, FinishLogin
<1>12. ASSUME NEW a \in Attempts, NEW ch \in Nonces, DecryptPayload(a, ch)
       PROVE  UNCHANGED limiterVars
  BY <1>12 DEF DecryptPayload
<1>13. ASSUME NEW a \in Attempts, NEW t \in Tokens, OpenSession(a, t)
       PROVE  UNCHANGED limiterVars
  BY <1>13 DEF OpenSession
<1>14. ASSUME NEW a \in Attempts, HandlerStep(a)
       PROVE  \/ Goes(a) /\ \A ip \in IPs : Fails(ip)' <= Fails(ip)
              \/ /\ Answer(a)
                 /\ \A ip \in IPs : \/ Fails(ip)' <= Fails(ip)
                                    \/ step[a] = "rejected" /\ Fails(ip)' <= Fails(ip) + 1
              \/ /\ \E ch \in Nonces : DecryptPayload(a, ch)
                 /\ \A ip \in IPs : Fails(ip)' <= Fails(ip)
              \/ /\ \E t \in Tokens : OpenSession(a, t)
                 /\ \A ip \in IPs : Fails(ip)' <= Fails(ip)
  BY <1>1, <1>6, <1>7, <1>8, <1>9, <1>10, <1>11, <1>12, <1>13, <1>14 DEF HandlerStep
<1> QED
  BY <1>1, <1>2, <1>3, <1>4, <1>5, <1>14 DEF Next

\* The parts of LoginInv about what attempts hold and sessions were paid with.
Held ==
    /\ step \in [Attempts -> Steps]
    /\ nonce \in [Attempts -> Nonces \cup {NoNonce}]
    /\ paidBy \in [Tokens -> Nonces \cup {NoNonce}]
    /\ \A a \in Attempts : nonce[a] = NoNonce <=> step[a] \in {"idle", "admitted"}
    /\ \A a \in Attempts : nonce[a] # NoNonce => accepted[nonce[a]] > 0
    /\ \A t \in Tokens : paidBy[t] # NoNonce => accepted[paidBy[t]] > 0

\* What Decrypt of a good payload does: the nonce is fresh, and is accepted.
LEMMA DecryptTakesAFreshNonce ==
    ASSUME LoginTypeOK, ChallengeInv, Held, NEW a \in Attempts, NEW ch \in Nonces,
           DecryptPayload(a, ch)
    PROVE  /\ accepted[ch] = 0 /\ accepted' = [accepted EXCEPT ![ch] = 1]
           /\ step[a] = "admitted" /\ nonce[a] = NoNonce
           /\ step' = [step EXCEPT ![a] = "decrypted"]
           /\ nonce' = [nonce EXCEPT ![a] = ch] /\ paidBy' = paidBy
<1>1. /\ ch \in pending /\ ~ Expired(ch) /\ Consume(ch)
      /\ step[a] = "admitted" /\ step' = [step EXCEPT ![a] = "decrypted"]
      /\ nonce' = [nonce EXCEPT ![a] = ch] /\ paidBy' = paidBy
  BY DEF DecryptPayload, Redeemable, Goto
<1>2. accepted \in [Nonces -> Nat] /\ accepted[ch] = 0
  BY <1>1 DEF LoginTypeOK, ChallengeTypeOK, ChallengeInv
<1>3. accepted' = [accepted EXCEPT ![ch] = accepted[ch] + 1]
  BY <1>1 DEF Consume
<1> QED
  BY <1>1, <1>2, <1>3 DEF Held

LEMMA HeldStays ==
    ASSUME LoginTypeOK, ChallengeInv, Held, [Next]_vars
    PROVE  Held'
<1>1. \A ch \in Nonces : /\ accepted[ch] \in Nat /\ accepted'[ch] \in Nat
                         /\ accepted[ch] <= accepted'[ch]
  BY HandlersCallTheirComponents, AcceptancesStay DEF LoginTypeOK
<1>2. \A ch \in Nonces : accepted[ch] > 0 => accepted'[ch] > 0
  BY <1>1
<1>3. CASE UNCHANGED loginVars
  BY <1>2, <1>3 DEF Held, loginVars
<1>4. ASSUME NEW a \in Attempts, Goes(a) PROVE Held'
  BY <1>2, <1>4 DEF Held, Goes
<1>5. ASSUME NEW a \in Attempts, Answer(a) PROVE Held'
  BY <1>2, <1>5 DEF Held, Answer, Steps
<1>6. ASSUME NEW a \in Attempts, NEW ch \in Nonces, DecryptPayload(a, ch) PROVE Held'
  <2>1. /\ accepted[ch] = 0 /\ accepted' = [accepted EXCEPT ![ch] = 1]
        /\ step' = [step EXCEPT ![a] = "decrypted"]
        /\ nonce' = [nonce EXCEPT ![a] = ch] /\ paidBy' = paidBy
    BY <1>6, DecryptTakesAFreshNonce
  <2>2. accepted'[ch] = 1
    BY <2>1 DEF LoginTypeOK, ChallengeTypeOK
  <2> QED
    BY <1>2, <2>1, <2>2 DEF Held, Steps
<1>7. ASSUME NEW a \in Attempts, NEW t \in Tokens, OpenSession(a, t) PROVE Held'
  <2>1. /\ step[a] = "reset" /\ step' = [step EXCEPT ![a] = "inserted"]
        /\ paidBy' = [paidBy EXCEPT ![t] = nonce[a]] /\ nonce' = nonce
    BY <1>7 DEF OpenSession, Goto
  <2> QED
    BY <1>2, <2>1 DEF Held, Steps
<1>8. CASE Restart
  BY <1>2, <1>8 DEF Held, Restart, Steps
<1> QED
  BY <1>3, <1>4, <1>5, <1>6, <1>7, <1>8, HandlerShapes

\* A nonce that is redeemed is held by nobody and has paid for nothing.
LEMMA OneLoginPerPayloadStays ==
    ASSUME LoginTypeOK, ChallengeInv, Held, OneLoginPerPayload, [Next]_vars
    PROVE  OneLoginPerPayload'
<1>1. CASE UNCHANGED loginVars
  BY <1>1 DEF OneLoginPerPayload, loginVars
<1>2. ASSUME NEW a \in Attempts, Goes(a) PROVE OneLoginPerPayload'
  BY <1>2 DEF OneLoginPerPayload, Goes, Held
<1>3. ASSUME NEW a \in Attempts, Answer(a) PROVE OneLoginPerPayload'
  BY <1>3 DEF OneLoginPerPayload, Answer, Held
<1>4. ASSUME NEW a \in Attempts, NEW ch \in Nonces, DecryptPayload(a, ch)
      PROVE  OneLoginPerPayload'
  <2>1. /\ accepted[ch] = 0 /\ nonce[a] = NoNonce
        /\ step' = [step EXCEPT ![a] = "decrypted"]
        /\ nonce' = [nonce EXCEPT ![a] = ch] /\ paidBy' = paidBy
    BY <1>4, DecryptTakesAFreshNonce
  <2>2. /\ \A b \in Attempts : nonce[b] # ch
        /\ \A t \in Tokens : paidBy[t] # ch
    BY <2>1 DEF Held
  <2>3. \A b \in Attempts \ {a} : nonce'[b] = nonce[b] /\ step'[b] = step[b]
    BY <2>1 DEF Held
  <2>4. nonce'[a] = ch
    BY <2>1 DEF Held
  <2>5. \A b, c \in Attempts : nonce'[b] = nonce'[c] /\ nonce'[b] # NoNonce => b = c
    BY <2>2, <2>3, <2>4 DEF OneLoginPerPayload
  <2>6. \A b \in Attempts, t \in Tokens :
           nonce'[b] = paidBy'[t] /\ nonce'[b] # NoNonce => step'[b] = "inserted"
    BY <2>1, <2>2, <2>3, <2>4 DEF OneLoginPerPayload
  <2>7. \A s, t \in Tokens : paidBy'[s] = paidBy'[t] /\ paidBy'[s] # NoNonce => s = t
    BY <2>1 DEF OneLoginPerPayload
  <2> QED
    BY <2>5, <2>6, <2>7 DEF OneLoginPerPayload
<1>5. ASSUME NEW a \in Attempts, NEW t \in Tokens, OpenSession(a, t)
      PROVE  OneLoginPerPayload'
  <2>1. /\ step[a] = "reset" /\ step' = [step EXCEPT ![a] = "inserted"]
        /\ paidBy' = [paidBy EXCEPT ![t] = nonce[a]] /\ nonce' = nonce
    BY <1>5 DEF OpenSession, Goto
  <2>2. nonce[a] # NoNonce /\ \A s \in Tokens : paidBy[s] # nonce[a]
    BY <2>1 DEF Held, OneLoginPerPayload
  <2>3. /\ paidBy'[t] = nonce[a] /\ \A s \in Tokens \ {t} : paidBy'[s] = paidBy[s]
        /\ step'[a] = "inserted" /\ \A b \in Attempts \ {a} : step'[b] = step[b]
    BY <2>1 DEF Held
  <2>4. \A s, r \in Tokens : paidBy'[s] = paidBy'[r] /\ paidBy'[s] # NoNonce => s = r
    BY <2>2, <2>3 DEF OneLoginPerPayload
  <2>5. \A b \in Attempts, s \in Tokens :
           nonce[b] = paidBy'[s] /\ nonce[b] # NoNonce => step'[b] = "inserted"
    BY <2>2, <2>3 DEF OneLoginPerPayload
  <2> QED
    BY <2>1, <2>4, <2>5 DEF OneLoginPerPayload
<1>6. CASE Restart
  BY <1>6 DEF OneLoginPerPayload, Restart
<1> QED
  BY <1>1, <1>2, <1>3, <1>4, <1>5, <1>6, HandlerShapes

-----------------------------------------------------------------------------
\* The attempts that have spent a nonce and not yet been counted otherwise, and the
\* sessions that were paid for.
Pending == {a \in Attempts : nonce[a] # NoNonce /\ step[a] # "inserted"}
Paid == {t \in Tokens : paidBy[t] # NoNonce}

\* The costs never exceed the challenges spent, whatever is done to the three.
LEMMA CostsBalance ==
    ASSUME NEW f \in Nat, NEW p \in Nat, NEW s \in Nat, NEW n \in Nat, f + p + s <= n,
           NEW f2 \in Nat, NEW p2 \in Nat, NEW s2 \in Nat, NEW n2 \in Nat,
           \/ f2 <= f /\ p2 <= p /\ s2 <= s /\ n <= n2
           \/ f2 <= f + 1 /\ p2 = p - 1 /\ s2 <= s /\ n <= n2
           \/ f2 <= f /\ p2 = p - 1 /\ s2 <= s + 1 /\ n <= n2
           \/ f2 <= f /\ p2 <= p + 1 /\ s2 <= s /\ n2 = n + 1
    PROVE  f2 + p2 + s2 <= n2
  OBVIOUS

LEMMA CostsAreFinite ==
    /\ IsFiniteSet(Pending) /\ IsFiniteSet(Paid) /\ IsFiniteSet(Spent)
    /\ Cardinality(Pending) \in Nat /\ Cardinality(Paid) \in Nat /\ Cardinality(Spent) \in Nat
<1>1. Pending \subseteq Attempts /\ Paid \subseteq Tokens /\ Spent \subseteq Nonces
  BY DEF Pending, Paid, Spent
<1> QED
  BY <1>1, FS_Subset, FS_CardinalityType

LEMMA CostsAreFiniteNext ==
    /\ IsFiniteSet(Pending') /\ IsFiniteSet(Paid') /\ IsFiniteSet(Spent')
    /\ Cardinality(Pending') \in Nat /\ Cardinality(Paid') \in Nat
    /\ Cardinality(Spent') \in Nat
<1>1. Pending' \subseteq Attempts /\ Paid' \subseteq Tokens /\ Spent' \subseteq Nonces
  BY DEF Pending, Paid, Spent
<1> QED
  BY <1>1, FS_Subset, FS_CardinalityType

LEMMA FailuresCostChallengesStays ==
    ASSUME LoginTypeOK, ChallengeInv, Held, FailuresCostChallenges, [Next]_vars
    PROVE  FailuresCostChallenges'
<1>1. \A ip \in IPs : /\ Fails(ip) \in Nat /\ Fails(ip)' \in Nat
                      /\ Fails(ip) + Cardinality(Pending) + Cardinality(Paid)
                            <= Cardinality(Spent)
  BY HandlersCallTheirComponents, FailsAreCounted
     DEF LoginTypeOK, FailuresCostChallenges, Fails, Pending, Paid
<1>2. \A ch \in Nonces : /\ accepted[ch] \in Nat /\ accepted'[ch] \in Nat
                         /\ accepted[ch] <= accepted'[ch]
  BY HandlersCallTheirComponents, AcceptancesStay DEF LoginTypeOK
<1>3. Cardinality(Spent) <= Cardinality(Spent')
  <2>1. Spent \subseteq Spent'
    BY <1>2 DEF Spent
  <2> QED
    BY <2>1, CostsAreFiniteNext, FS_Subset
<1>4. SUFFICES ASSUME NEW ip \in IPs
               PROVE  Fails(ip)' + Cardinality(Pending') + Cardinality(Paid')
                         <= Cardinality(Spent')
  BY <1>4 DEF FailuresCostChallenges, Fails, Pending, Paid
<1>5. ASSUME Pending' \subseteq Pending, Paid' = Paid PROVE
          Cardinality(Pending') <= Cardinality(Pending) /\ Cardinality(Paid') <= Cardinality(Paid)
  BY <1>5, CostsAreFinite, FS_Subset
<1>6. ASSUME Pending' \subseteq Pending, Paid' = Paid, Fails(ip)' <= Fails(ip)
      PROVE  Fails(ip)' + Cardinality(Pending') + Cardinality(Paid') <= Cardinality(Spent')
  BY <1>1, <1>3, <1>5, <1>6, CostsBalance, CostsAreFinite, CostsAreFiniteNext
<1>7. ASSUME NEW a \in Attempts, step[a] = "rejected", Answer(a)
      PROVE  /\ Cardinality(Pending') = Cardinality(Pending) - 1
             /\ Cardinality(Paid') <= Cardinality(Paid)
  <2>1. a \in Pending /\ Pending' = Pending \ {a} /\ Paid' = Paid
    BY <1>7 DEF Answer, Pending, Paid, Held
  <2>2. Cardinality(Pending \ {a}) = Cardinality(Pending) - 1
    BY <2>1, CostsAreFinite, FS_RemoveElement
  <2> QED
    BY <2>1, <2>2, CostsAreFinite
<1>8. CASE UNCHANGED loginVars /\ Fails(ip)' <= Fails(ip)
  BY <1>6, <1>8 DEF loginVars, Pending, Paid
<1>9. ASSUME NEW a \in Attempts, Goes(a), Fails(ip)' <= Fails(ip)
      PROVE  Fails(ip)' + Cardinality(Pending') + Cardinality(Paid') <= Cardinality(Spent')
  BY <1>6, <1>9 DEF Goes, Pending, Paid, Held
<1>10. ASSUME NEW a \in Attempts, Answer(a),
              \/ Fails(ip)' <= Fails(ip)
              \/ step[a] = "rejected" /\ Fails(ip)' <= Fails(ip) + 1
       PROVE  Fails(ip)' + Cardinality(Pending') + Cardinality(Paid') <= Cardinality(Spent')
  <2>1. CASE Fails(ip)' <= Fails(ip)
    BY <1>6, <1>10, <2>1 DEF Answer, Pending, Paid, Held
  <2>2. CASE step[a] = "rejected" /\ Fails(ip)' <= Fails(ip) + 1
    BY <1>1, <1>3, <1>7, <1>10, <2>2, CostsBalance, CostsAreFinite, CostsAreFiniteNext
  <2> QED
    BY <1>10, <2>1, <2>2
<1>11. ASSUME NEW a \in Attempts, NEW ch \in Nonces, DecryptPayload(a, ch),
              Fails(ip)' <= Fails(ip)
       PROVE  Fails(ip)' + Cardinality(Pending') + Cardinality(Paid') <= Cardinality(Spent')
  <2>1. /\ accepted[ch] = 0 /\ accepted' = [accepted EXCEPT ![ch] = 1]
        /\ step[a] = "admitted" /\ nonce[a] = NoNonce
        /\ step' = [step EXCEPT ![a] = "decrypted"]
        /\ nonce' = [nonce EXCEPT ![a] = ch] /\ paidBy' = paidBy
    BY <1>11, DecryptTakesAFreshNonce
  <2>2. accepted \in [Nonces -> Nat]
    BY DEF LoginTypeOK, ChallengeTypeOK
  <2>3. ch \notin Spent /\ Spent' = Spent \cup {ch}
    BY <2>1, <2>2 DEF Spent
  <2>4. a \notin Pending /\ Pending' = Pending \cup {a}
    BY <2>1, LoginSetsAssumption DEF Pending, Held
  <2>5. Paid' = Paid
    BY <2>1 DEF Paid
  <2>6. /\ Cardinality(Spent') = Cardinality(Spent) + 1
        /\ Cardinality(Pending') = Cardinality(Pending) + 1
    BY <2>3, <2>4, CostsAreFinite, FS_AddElement
  <2>7. /\ Cardinality(Pending') <= Cardinality(Pending) + 1
        /\ Cardinality(Paid') <= Cardinality(Paid)
    BY <2>5, <2>6, CostsAreFinite
  <2> QED
    BY <1>1, <1>11, <2>6, <2>7, CostsBalance, CostsAreFinite, CostsAreFiniteNext
<1>12. ASSUME NEW a \in Attempts, NEW t \in Tokens, OpenSession(a, t),
              Fails(ip)' <= Fails(ip)
       PROVE  Fails(ip)' + Cardinality(Pending') + Cardinality(Paid') <= Cardinality(Spent')
  <2>1. /\ step[a] = "reset" /\ step' = [step EXCEPT ![a] = "inserted"]
        /\ paidBy' = [paidBy EXCEPT ![t] = nonce[a]] /\ nonce' = nonce
    BY <1>12 DEF OpenSession, Goto
  <2>2. a \in Pending /\ Pending' = Pending \ {a}
    BY <2>1 DEF Pending, Held
  <2>3. Paid' = Paid \cup {t}
    BY <2>1 DEF Paid, Held
  <2>4. /\ Cardinality(Pending') = Cardinality(Pending) - 1
        /\ Cardinality(Paid') <= Cardinality(Paid) + 1
    <3>1. Cardinality(Pending \ {a}) = Cardinality(Pending) - 1
      BY <2>2, CostsAreFinite, FS_RemoveElement
    <3>2. CASE t \in Paid
      <4>1. Paid' = Paid
        BY <2>3, <3>2
      <4> QED
        BY <2>2, <3>1, <4>1, CostsAreFinite
    <3>3. CASE t \notin Paid
      <4>1. Cardinality(Paid \cup {t}) = Cardinality(Paid) + 1
        BY <3>3, CostsAreFinite, FS_AddElement
      <4> QED
        BY <2>2, <2>3, <3>1, <4>1, CostsAreFinite
    <3> QED
      BY <3>2, <3>3
  <2> QED
    BY <1>1, <1>3, <1>12, <2>4, CostsBalance, CostsAreFinite, CostsAreFiniteNext
<1>13. CASE Restart /\ Fails(ip)' <= Fails(ip)
  BY <1>6, <1>13 DEF Restart, Pending, Paid
<1>14. \/ UNCHANGED loginVars /\ Fails(ip)' <= Fails(ip)
       \/ \E a \in Attempts : Goes(a) /\ Fails(ip)' <= Fails(ip)
       \/ \E a \in Attempts :
             /\ Answer(a)
             /\ \/ Fails(ip)' <= Fails(ip)
                \/ step[a] = "rejected" /\ Fails(ip)' <= Fails(ip) + 1
       \/ \E a \in Attempts, ch \in Nonces : DecryptPayload(a, ch) /\ Fails(ip)' <= Fails(ip)
       \/ \E a \in Attempts, t \in Tokens : OpenSession(a, t) /\ Fails(ip)' <= Fails(ip)
       \/ Restart /\ Fails(ip)' <= Fails(ip)
  BY HandlerShapes
<1>15. CASE \E a \in Attempts : Goes(a) /\ Fails(ip)' <= Fails(ip)
  BY <1>9, <1>15
<1>16. CASE \E a \in Attempts :
               /\ Answer(a)
               /\ \/ Fails(ip)' <= Fails(ip)
                  \/ step[a] = "rejected" /\ Fails(ip)' <= Fails(ip) + 1
  BY <1>10, <1>16
<1>17. CASE \E a \in Attempts, ch \in Nonces : DecryptPayload(a, ch) /\ Fails(ip)' <= Fails(ip)
  BY <1>11, <1>17
<1>18. CASE \E a \in Attempts, t \in Tokens : OpenSession(a, t) /\ Fails(ip)' <= Fails(ip)
  BY <1>12, <1>18
<1> QED
  BY <1>8, <1>13, <1>14, <1>15, <1>16, <1>17, <1>18

\* The types of the handler's own state, and the two properties with what they rest on.
LoginParts == Held /\ OneLoginPerPayload /\ FailuresCostChallenges

\* LoginInv holds in every reachable state of the handler and everything around it.
THEOREM LoginInvariance == Spec => []LoginInv
<1> DEFINE Components == ChallengeTypeOK /\ LimiterTypeOK /\ AccountsTypeOK /\ ChallengeInv
<1>1. Spec => []Components
  <2>1. AccountsInv => AccountsTypeOK
    BY DEF AccountsInv
  <2> QED
    BY <2>1, LoginKeepsItsComponents, ChallengeTypeCorrect, LimiterTypeCorrect,
       AccountsInvariance, ChallengeInvariance, PTL
<1>2. Init => LoginParts
  <2> SUFFICES ASSUME Init PROVE LoginParts
    OBVIOUS
  <2>1. /\ ChallengeInit /\ LimiterInit
        /\ step = [a \in Attempts |-> "idle"] /\ nonce = [a \in Attempts |-> NoNonce]
        /\ paidBy = [t \in Tokens |-> NoNonce]
    BY DEF Init
  <2>2. Held /\ OneLoginPerPayload
    BY <2>1 DEF Held, OneLoginPerPayload, Steps
  <2>3. \A ip \in IPs : rec[ip].fails = 0
    BY <2>1 DEF LimiterInit, NoRec
  <2>4. Pending = {} /\ Paid = {}
    BY <2>1 DEF Pending, Paid
  <2>5. Cardinality(Pending) = 0 /\ Cardinality(Paid) = 0
    BY <2>4, FS_EmptySet
  <2>6. FailuresCostChallenges
    BY <2>3, <2>5, CostsAreFinite DEF FailuresCostChallenges, Pending, Paid
  <2> QED
    BY <2>2, <2>6 DEF LoginParts
<1>3. LoginParts /\ Components /\ [Next]_vars => LoginParts'
  <2>1. LoginParts /\ Components => LoginTypeOK
    BY DEF LoginParts, Held, LoginTypeOK
  <2> QED
    BY <2>1, HeldStays, OneLoginPerPayloadStays, FailuresCostChallengesStays DEF LoginParts
<1>4. LoginParts /\ Components => LoginInv
  BY DEF LoginParts, Held, LoginInv, LoginTypeOK
<1> QED
  BY <1>1, <1>2, <1>3, <1>4, PTL DEF Spec

\* No payload, whoever posts it and how often, opens two sessions or gets two passwords
\* checked.
THEOREM LoginOneLoginPerPayload == Spec => []OneLoginPerPayload
<1>1. LoginInv => OneLoginPerPayload
  BY DEF LoginInv
<1> QED
  BY <1>1, LoginInvariance, PTL

\* Every failure held against an address, login under way and session cost a challenge.
THEOREM LoginFailuresCostChallenges == Spec => []FailuresCostChallenges
<1>1. LoginInv => FailuresCostChallenges
  BY DEF LoginInv
<1> QED
  BY <1>1, LoginInvariance, PTL
==============================================================================
