--------------------------- MODULE PipelineProofs ---------------------------
(***************************************************************************)
(* Proofs about the data of an execution, for any scripts, requests, texts *)
(* and secrets.  The tests that are reported are those that were begun; a  *)
(* loop over the headers sees what there was when it began; what a script  *)
(* wrote last is what is sent; the values of secrets that were written     *)
(* into what is sent are masked in what is shown.  What a loop of the code *)
(* computes is a recursive function over its passes here: a lemma by       *)
(* induction says that there is such a function, and another one what it   *)
(* gives.                                                                  *)
(***************************************************************************)
EXTENDS Pipeline, Lemmas, FiniteSetTheorems, SequenceTheorems, TLAPS

-----------------------------------------------------------------------------
(* Scripts. *)

\* What a step of an execution does to the script's side of it.
ScriptStep ==
    \/ Statement \/ ScriptReturns \/ ScriptFails
    \/ \E phase \in {"pre", "test"} : ScriptStarts(phase)
    \/ UNCHANGED scriptVars

LEMMA PipelineStepIsAScriptStep ==
    ASSUME [PipelineNext]_pipelineVars
    PROVE  ScriptStep
<1>1. CASE UNCHANGED pipelineVars
  BY <1>1 DEF ScriptStep, pipelineVars
<1>2. ASSUME NEW n \in SecretNames, DeleteSecret(n) \/ \E v \in SecretValues : PutSecret(n, v)
      PROVE  ScriptStep
  BY <1>2 DEF ScriptStep, DeleteSecret, PutSecret
<1>3. CASE Start
  BY <1>3 DEF ScriptStep, Start
<1>4. CASE RunScript
  BY <1>4 DEF ScriptStep, RunScript
<1>5. CASE PreReturns \/ PreFails \/ TestEnds
  BY <1>5 DEF ScriptStep, PreReturns, PreFails, TestEnds
<1>6. ASSUME NEW f, BeginField(f) PROVE ScriptStep
  BY <1>6 DEF ScriptStep, BeginField
<1>7. CASE ResolveSymbol \/ EndField
  BY <1>7 DEF ScriptStep, ResolveSymbol, EndField
<1>8. CASE Refuse \/ Send \/ MintTicket \/ Answered \/ CallFails
  BY <1>8 DEF ScriptStep, Refuse, Send, MintTicket, Answered, CallFails
<1>9. CASE StartTest
  BY <1>9 DEF ScriptStep, StartTest
<1> QED
  BY <1>1, <1>2, <1>3, <1>4, <1>5, <1>6, <1>7, <1>8, <1>9 DEF PipelineNext

-----------------------------------------------------------------------------
(* Tests. *)

testVars == <<results, open, begun, threw>>

Ids(rs) == {rs[i].id : i \in DOMAIN rs}

\* A test is reported as failed exactly if it has failed.
Right(rs, failed) == \A i \in DOMAIN rs : rs[i].passed <=> rs[i].id \notin failed

Results == [id : Nat, passed : BOOLEAN]

\* EveryTestReported, and no test is counted twice: those under way differ from each
\* other and from those reported, and only what is reported has thrown.
TestsInv ==
    /\ begun \in Nat /\ results \in Seq(Results) /\ open \in Seq(Nat)
    /\ Ids(results) \cup ToSet(open) = 1 .. begun
    /\ Len(results) + Len(open) = begun
    /\ \A i, j \in DOMAIN open : open[i] = open[j] => i = j
    /\ Ids(results) \cap ToSet(open) = {}
    /\ threw \subseteq Ids(results)
    /\ Right(results, threw)

LEMMA AppendReports ==
    ASSUME NEW rs \in Seq(Results), NEW id \in Nat, NEW passed \in BOOLEAN, NEW failed,
           id \notin Ids(rs), id \notin failed, Right(rs, failed)
    PROVE  LET q == Append(rs, Result(id, passed))
           IN  /\ q \in Seq(Results) /\ Len(q) = Len(rs) + 1 /\ Ids(q) = Ids(rs) \cup {id}
               /\ Right(q, IF passed THEN failed ELSE failed \cup {id})
<1> DEFINE q == Append(rs, Result(id, passed))
<1>1. Result(id, passed) \in Results
  BY DEF Result, Results
<1>2. /\ q \in Seq(Results) /\ Len(q) = Len(rs) + 1
      /\ \A i \in 1 .. Len(rs) : q[i] = rs[i]
      /\ q[Len(rs) + 1] = Result(id, passed)
  BY <1>1, AppendProperties
<1>3. DOMAIN rs = 1 .. Len(rs) /\ DOMAIN q = 1 .. Len(rs) + 1 /\ Len(rs) \in Nat
  BY <1>2, LenProperties
<1> HIDE DEF q
<1>4. q[Len(rs) + 1].id = id /\ q[Len(rs) + 1].passed = passed
  BY <1>2 DEF Result
<1>5. Ids(q) = Ids(rs) \cup {id}
  BY <1>2, <1>3, <1>4 DEF Ids
<1>6. ASSUME NEW i \in DOMAIN q
      PROVE  q[i].passed <=> q[i].id \notin IF passed THEN failed ELSE failed \cup {id}
  <2>1. CASE i = Len(rs) + 1
    BY <1>4, <2>1
  <2>2. CASE i \in 1 .. Len(rs)
    <3>1. q[i] = rs[i] /\ rs[i].id \in Ids(rs) /\ (rs[i].passed <=> rs[i].id \notin failed)
      BY <1>2, <1>3, <2>2 DEF Ids, Right
    <3> QED
      BY <3>1
  <2> QED
    BY <1>3, <2>1, <2>2
<1> QED
  BY <1>2, <1>5, <1>6 DEF Right, q

LEMMA TestsTypes ==
    ASSUME TestsInv
    PROVE  /\ Len(results) \in Nat /\ DOMAIN results = 1 .. Len(results)
           /\ Len(open) \in Nat /\ DOMAIN open = 1 .. Len(open)
           /\ \A i \in DOMAIN open : open[i] \in 1 .. begun
           /\ begun + 1 \notin Ids(results) /\ begun + 1 \notin threw
           /\ begun + 1 \notin ToSet(open)
<1>1. begun + 1 \notin 1 .. begun
  BY DEF TestsInv
<1> QED
  BY <1>1, LenProperties DEF TestsInv, ToSet

\* The innermost test and the others.
LEMMA InnermostTest ==
    ASSUME TestsInv, open # <<>>
    PROVE  /\ Last(open) \in Nat /\ Front(open) \in Seq(Nat)
           /\ Len(Front(open)) = Len(open) - 1
           /\ ToSet(open) = ToSet(Front(open)) \cup {Last(open)}
           /\ Last(open) \notin ToSet(Front(open))
           /\ \A i, j \in DOMAIN Front(open) : Front(open)[i] = Front(open)[j] => i = j
<1> DEFINE n == Len(open) - 1  front == Front(open)
<1>1. n \in Nat /\ DOMAIN open = 1 .. n + 1 /\ \A i \in 1 .. n + 1 : open[i] \in Nat
  BY EmptySeq, LenProperties, ElementOfSeq DEF TestsInv
<1>2. front \in Seq(Nat) /\ Len(front) = n /\ \A i \in 1 .. n : front[i] = open[i]
  BY <1>1, SubSeqProperties DEF Front
<1>3. DOMAIN front = 1 .. n
  BY <1>2, LenProperties
<1>4. Last(open) = open[n + 1]
  BY <1>1 DEF Last
<1> HIDE DEF front
<1>5. ToSet(open) = ToSet(front) \cup {open[n + 1]}
  <2>1. ToSet(open) = {open[i] : i \in 1 .. n + 1} /\ ToSet(front) = {front[i] : i \in 1 .. n}
    BY <1>1, <1>3 DEF ToSet
  <2>2. \A i : i \in 1 .. n + 1 <=> i \in 1 .. n \/ i = n + 1
    BY <1>1
  <2> QED
    BY <1>2, <2>1, <2>2, Zenon
<1>6. \A i, j \in 1 .. n + 1 : open[i] = open[j] => i = j
  BY <1>1 DEF TestsInv
<1>7. open[n + 1] \notin ToSet(front)
  <2>1. \A x \in ToSet(front) : \E k \in 1 .. n : x = front[k]
    BY <1>3 DEF ToSet
  <2> HIDE DEF n
  <2>2. ASSUME NEW k \in 1 .. n, open[n + 1] = front[k] PROVE FALSE
    <3>1. k \in 1 .. n + 1 /\ n + 1 \in 1 .. n + 1 /\ k # n + 1
      BY <1>1
    <3>2. open[n + 1] = open[k]
      BY <1>2, <2>2
    <3> QED
      BY <1>6, <3>1, <3>2
  <2> QED
    BY <2>1, <2>2
<1>8. \A i, j \in DOMAIN front : front[i] = front[j] => i = j
  BY <1>1, <1>2, <1>3, <1>6
<1> QED
  BY <1>1, <1>2, <1>4, <1>5, <1>7, <1>8 DEF front

LEMMA ReportKeepsTests ==
    ASSUME TestsInv, NEW passed \in BOOLEAN, Report(passed)
    PROVE  TestsInv'
<1>1. /\ begun' = begun + 1 /\ results' = Append(results, Result(begun + 1, passed))
      /\ threw' = IF passed THEN threw ELSE threw \cup {begun + 1}
      /\ open' = open
  BY DEF Report
<1>2. /\ begun \in Nat /\ results \in Seq(Results) /\ Right(results, threw)
      /\ begun + 1 \notin Ids(results) /\ begun + 1 \notin threw
  BY TestsTypes DEF TestsInv
<1>3. /\ results' \in Seq(Results) /\ Len(results') = Len(results) + 1
      /\ Ids(results') = Ids(results) \cup {begun + 1}
      /\ Right(results', threw')
  <2>1. begun + 1 \in Nat
    BY <1>2
  <2>2. LET q == Append(results, Result(begun + 1, passed))
        IN  /\ q \in Seq(Results) /\ Len(q) = Len(results) + 1
            /\ Ids(q) = Ids(results) \cup {begun + 1}
            /\ Right(q, IF passed THEN threw ELSE threw \cup {begun + 1})
    BY <1>2, <2>1, AppendReports
  <2> QED
    BY <1>1, <2>2
<1>4. Ids(results') \cup ToSet(open') = 1 .. begun + 1
  <2>1. Ids(results) \cup ToSet(open) = 1 .. begun
    BY DEF TestsInv
  <2>2. 1 .. begun + 1 = (1 .. begun) \cup {begun + 1}
    BY <1>2
  <2>3. ToSet(open') = ToSet(open)
    BY <1>1 DEF ToSet
  <2> QED
    BY <1>3, <2>1, <2>2, <2>3
<1>5. Ids(results') \cap ToSet(open') = {}
  BY <1>1, <1>3, TestsTypes DEF TestsInv, ToSet
<1>6. Len(results') + Len(open') = begun + 1
  <2>1. Len(results) + Len(open) = begun /\ Len(results) \in Nat /\ Len(open) \in Nat
    BY TestsTypes DEF TestsInv
  <2>2. Len(results') = Len(results) + 1 /\ Len(open') = Len(open)
    BY <1>1, <1>3
  <2> QED
    BY ONLY <2>1, <2>2
<1>7. threw' \subseteq Ids(results')
  BY <1>1, <1>3 DEF TestsInv
<1> QED
  BY <1>1, <1>2, <1>3, <1>4, <1>5, <1>6, <1>7 DEF TestsInv

LEMMA TestBeginKeepsTests ==
    ASSUME TestsInv, TestBegin
    PROVE  TestsInv'
<1>1. /\ begun' = begun + 1 /\ open' = Append(open, begun + 1)
      /\ results' = results /\ threw' = threw
  BY DEF TestBegin
<1>2. /\ begun \in Nat /\ open \in Seq(Nat) /\ Len(open) \in Nat /\ Len(results) \in Nat
      /\ DOMAIN open = 1 .. Len(open)
      /\ begun + 1 \notin Ids(results) /\ begun + 1 \notin ToSet(open)
  BY TestsTypes DEF TestsInv
<1>3. /\ open' \in Seq(Nat) /\ Len(open') = Len(open) + 1
      /\ \A i \in 1 .. Len(open) : open'[i] = open[i]
      /\ open'[Len(open) + 1] = begun + 1
  BY <1>1, <1>2, AppendProperties
<1>4. DOMAIN open' = 1 .. Len(open) + 1
  BY <1>3, LenProperties
<1>5. ToSet(open') = ToSet(open) \cup {begun + 1}
  <2>1. /\ ToSet(open') = {open'[i] : i \in 1 .. Len(open) + 1}
        /\ ToSet(open) = {open[i] : i \in 1 .. Len(open)}
    BY <1>2, <1>4 DEF ToSet
  <2>2. \A i : i \in 1 .. Len(open) + 1 <=> i \in 1 .. Len(open) \/ i = Len(open) + 1
    BY <1>2
  <2> QED
    BY <1>3, <2>1, <2>2, Zenon
<1>6. ASSUME NEW i \in DOMAIN open', NEW j \in DOMAIN open', open'[i] = open'[j]
      PROVE  i = j
  <2>1. \A k \in 1 .. Len(open) : open'[k] = open[k] /\ open[k] # begun + 1
    BY <1>2, <1>3 DEF ToSet
  <2>2. CASE i = Len(open) + 1
    BY <1>2, <1>3, <1>4, <1>6, <2>1, <2>2
  <2>3. CASE j = Len(open) + 1
    BY <1>2, <1>3, <1>4, <1>6, <2>1, <2>3
  <2>4. CASE i \in DOMAIN open /\ j \in DOMAIN open
    BY <1>2, <1>6, <2>1, <2>4 DEF TestsInv
  <2> QED
    BY <1>2, <1>4, <2>2, <2>3, <2>4
<1>7. Ids(results') = Ids(results) /\ Right(results', threw')
  BY <1>1 DEF Ids, Right, TestsInv
<1>8. Ids(results') \cup ToSet(open') = 1 .. begun + 1
  <2>1. Ids(results) \cup ToSet(open) = 1 .. begun
    BY DEF TestsInv
  <2>2. 1 .. begun + 1 = (1 .. begun) \cup {begun + 1}
    BY <1>2
  <2> QED
    BY <1>5, <1>7, <2>1, <2>2
<1>9. Ids(results') \cap ToSet(open') = {}
  BY <1>2, <1>5, <1>7 DEF TestsInv
<1>10. Len(results') + Len(open') = begun + 1
  <2>1. Len(results) + Len(open) = begun /\ Len(results) \in Nat /\ Len(open) \in Nat
    BY TestsTypes DEF TestsInv
  <2>2. Len(results') = Len(results) /\ Len(open') = Len(open) + 1
    BY <1>1, <1>3
  <2> QED
    BY ONLY <2>1, <2>2
<1> QED
  BY <1>1, <1>2, <1>3, <1>6, <1>7, <1>8, <1>9, <1>10 DEF TestsInv

\* The innermost test ends, one way or the other.
LEMMA TestEndKeepsTests ==
    ASSUME TestsInv, open # <<>>, NEW passed \in BOOLEAN,
           results' = Append(results, Result(Last(open), passed)), open' = Front(open),
           threw' = IF passed THEN threw ELSE threw \cup {Last(open)}, begun' = begun
    PROVE  TestsInv'
<1>1. /\ begun \in Nat /\ results \in Seq(Results) /\ Right(results, threw)
      /\ threw \subseteq Ids(results) /\ Ids(results) \cap ToSet(open) = {}
      /\ Ids(results) \cup ToSet(open) = 1 .. begun /\ Len(results) + Len(open) = begun
      /\ Len(open) \in Nat /\ Len(results) \in Nat
  BY TestsTypes DEF TestsInv
<1>2. Last(open) \in Nat /\ Last(open) \notin Ids(results) /\ Last(open) \notin threw
  BY <1>1, InnermostTest
<1>3. /\ results' \in Seq(Results) /\ Len(results') = Len(results) + 1
      /\ Ids(results') = Ids(results) \cup {Last(open)}
      /\ Right(results', threw')
  <2>1. LET q == Append(results, Result(Last(open), passed))
        IN  /\ q \in Seq(Results) /\ Len(q) = Len(results) + 1
            /\ Ids(q) = Ids(results) \cup {Last(open)}
            /\ Right(q, IF passed THEN threw ELSE threw \cup {Last(open)})
    BY <1>1, <1>2, AppendReports
  <2> QED
    BY <1>1, <2>1
<1>4. /\ open' \in Seq(Nat) /\ Len(open') = Len(open) - 1
      /\ ToSet(open) = ToSet(open') \cup {Last(open)} /\ Last(open) \notin ToSet(open')
      /\ \A i, j \in DOMAIN open' : open'[i] = open'[j] => i = j
  BY InnermostTest DEF ToSet
<1>5. Ids(results') \cup ToSet(open') = 1 .. begun /\ Ids(results') \cap ToSet(open') = {}
  BY <1>1, <1>3, <1>4
<1>6. Len(results') + Len(open') = begun
  BY <1>1, <1>3, <1>4
<1>7. threw' \subseteq Ids(results')
  BY <1>1, <1>3
<1> QED
  BY <1>1, <1>3, <1>4, <1>5, <1>6, <1>7 DEF TestsInv

\* An interrupt ends them all.
LEMMA FailureKeepsTests ==
    ASSUME TestsInv, ScriptFails
    PROVE  TestsInv'
<1> DEFINE n == Len(open)
           rest == [i \in DOMAIN open |-> Result(open[Len(open) + 1 - i], FALSE)]
<1>1. /\ begun \in Nat /\ results \in Seq(Results) /\ Right(results, threw)
      /\ threw \subseteq Ids(results) /\ Ids(results) \cap ToSet(open) = {}
      /\ Ids(results) \cup ToSet(open) = 1 .. begun /\ Len(results) + n = begun
      /\ n \in Nat /\ Len(results) \in Nat /\ DOMAIN open = 1 .. n
      /\ DOMAIN results = 1 .. Len(results) /\ \A i \in 1 .. n : open[i] \in Nat
  BY TestsTypes DEF TestsInv
<1>2. results' = results \o rest /\ threw' = threw \cup ToSet(open)
      /\ open' = <<>> /\ begun' = begun
  BY DEF ScriptFails
<1>3. /\ rest \in [1 .. n -> Results]
      /\ \A i \in 1 .. n : rest[i].id = open[n + 1 - i] /\ rest[i].passed = FALSE
  BY <1>1 DEF Result, Results
<1> HIDE DEF rest
<1>4. rest \in Seq(Results) /\ Len(rest) = n
  BY <1>1, <1>3, SeqDef
<1>5. /\ results' \in Seq(Results) /\ Len(results') = Len(results) + n
      /\ \A i \in 1 .. Len(results) : results'[i] = results[i]
      /\ \A i \in 1 .. n : results'[Len(results) + i] = rest[i]
  <2>1. /\ results \o rest \in Seq(Results) /\ Len(results \o rest) = Len(results) + n
        /\ \A i \in 1 .. Len(results) + n :
              (results \o rest)[i] =
                 IF i <= Len(results) THEN results[i] ELSE rest[i - Len(results)]
    <3>1. results \in Seq(Results) /\ rest \in Seq(Results) /\ Len(rest) = n
      BY <1>1, <1>4
    <3> HIDE DEF n
    <3> QED
      BY ONLY <3>1, ConcatProperties
  <2> QED
    BY <1>1, <1>2, <2>1
<1>6. DOMAIN results' = 1 .. Len(results) + n
  BY <1>5, LenProperties
<1>7. ASSUME NEW i \in DOMAIN results'
      PROVE  \/ i \in DOMAIN results /\ results'[i] = results[i]
             \/ \E j \in DOMAIN open : results'[i].id = open[j] /\ results'[i].passed = FALSE
  <2>1. CASE i \in 1 .. Len(results)
    BY <1>1, <1>5, <2>1
  <2>2. CASE i - Len(results) \in 1 .. n
    <3> DEFINE k == i - Len(results)
    <3>1. i = Len(results) + k /\ n + 1 - k \in DOMAIN open
      BY <1>1, <1>6, <2>2
    <3>2. results'[i] = rest[k] /\ rest[k].id = open[n + 1 - k] /\ rest[k].passed = FALSE
      BY <1>3, <1>5, <2>2, <3>1
    <3> QED
      BY <3>1, <3>2
  <2>3. i \in Int /\ (i \in 1 .. Len(results) \/ i - Len(results) \in 1 .. n)
    <3>1. i \in 1 .. Len(results) + n
      BY <1>6, <1>7
    <3> HIDE DEF n
    <3> QED
      BY <1>1, <3>1
  <2> QED
    BY <2>1, <2>2, <2>3
<1>8. Ids(results') \subseteq Ids(results) \cup ToSet(open)
  BY <1>7 DEF Ids, ToSet
<1>9. Ids(results) \subseteq Ids(results')
  BY <1>1, <1>5, <1>6 DEF Ids
<1>10. ToSet(open) \subseteq Ids(results')
  <2>1. ASSUME NEW j \in DOMAIN open PROVE open[j] \in Ids(results')
    <3> DEFINE k == n + 1 - j
    <3>1. k \in 1 .. n /\ n + 1 - k = j /\ Len(results) + k \in DOMAIN results'
      BY <1>1, <1>6, <2>1
    <3>2. results'[Len(results) + k].id = open[j]
      BY <1>3, <1>5, <3>1
    <3> QED
      BY <3>1, <3>2 DEF Ids
  <2> QED
    BY <2>1 DEF ToSet
<1>11. Right(results', threw')
  <2>1. ASSUME NEW i \in DOMAIN results' PROVE results'[i].passed <=> results'[i].id \notin threw'
    <3>1. CASE i \in DOMAIN results /\ results'[i] = results[i]
      <4>1. results[i].id \in Ids(results) /\ results[i].id \notin ToSet(open)
        BY <1>1, <3>1 DEF Ids
      <4> QED
        BY <1>1, <1>2, <3>1, <4>1 DEF Right
    <3>2. ASSUME NEW j \in DOMAIN open, results'[i].id = open[j], results'[i].passed = FALSE
          PROVE  results'[i].passed <=> results'[i].id \notin threw'
      BY <1>2, <3>2 DEF ToSet
    <3> QED
      BY <1>7, <3>1, <3>2
  <2> QED
    BY <2>1 DEF Right
<1>12. ToSet(open') = {} /\ Len(open') = 0 /\ open' \in Seq(Nat)
  BY <1>2, EmptySeq DEF ToSet
<1>13. Ids(results') \cup ToSet(open') = 1 .. begun
  BY <1>1, <1>8, <1>9, <1>10, <1>12
<1>14. \A i, j \in DOMAIN open' : open'[i] = open'[j] => i = j
  BY <1>2
<1> QED
  BY <1>1, <1>2, <1>5, <1>9, <1>10, <1>11, <1>12, <1>13, <1>14 DEF TestsInv

LEMMA TestsInvHoldsAtFirst ==
    ASSUME PipelineInit
    PROVE  TestsInv
<1>1. results = <<>> /\ open = <<>> /\ begun = 0 /\ threw = {}
  BY DEF PipelineInit, ScriptInit
<1>2. <<>> \in Seq(Results) /\ <<>> \in Seq(Nat) /\ Len(<<>>) = 0
  BY EmptySeq
<1> QED
  BY <1>1, <1>2 DEF TestsInv, Ids, ToSet, Right

LEMMA StepsKeepTests ==
    ASSUME TestsInv, ScriptStep
    PROVE  TestsInv'
<1>1. ASSUME UNCHANGED testVars PROVE TestsInv'
  <2>1. results' = results /\ open' = open /\ begun' = begun /\ threw' = threw
    BY <1>1 DEF testVars
  <2> QED
    BY <2>1 DEF TestsInv
<1>2. ASSUME NEW v \in HeaderValues, WriteURL(v) \/ WriteBody(v) PROVE TestsInv'
  BY <1>1, <1>2 DEF WriteURL, WriteBody, WriteText, testVars
<1>3. ASSUME NEW n \in HeaderNames, NEW v \in HeaderValues, AddHeader(n, v) \/ UpsertHeader(n, v)
      PROVE  TestsInv'
  BY <1>1, <1>3 DEF AddHeader, UpsertHeader, OnHeaders, testVars
<1>4. ASSUME NEW k \in Keys, RemoveHeader(k) PROVE TestsInv'
  BY <1>1, <1>4 DEF RemoveHeader, OnHeaders, testVars
<1>5. CASE EachStart \/ EachNext \/ EachEnd
  BY <1>1, <1>5 DEF EachStart, EachNext, EachEnd, OnLoop, testVars
<1>6. ASSUME NEW n \in VarNames, UnsetVar(n) \/ \E v \in VarValues : SetVar(n, v)
      PROVE  TestsInv'
  BY <1>1, <1>6 DEF UnsetVar, SetVar, OnVariables, testVars
<1>7. ASSUME NEW passed \in BOOLEAN, Report(passed) PROVE TestsInv'
  BY <1>7, ReportKeepsTests
<1>8. CASE TestBegin
  BY <1>8, TestBeginKeepsTests
<1>9. CASE TestReturns
  BY <1>9, TestEndKeepsTests DEF TestReturns, Innermost
<1>10. CASE TestThrows
  BY <1>10, TestEndKeepsTests DEF TestThrows
<1>11. CASE ScriptReturns
  BY <1>1, <1>11 DEF ScriptReturns, testVars
<1>12. CASE ScriptFails
  BY <1>12, FailureKeepsTests
<1>13. ASSUME NEW phase, ScriptStarts(phase) PROVE TestsInv'
  BY <1>1, <1>13 DEF ScriptStarts, testVars
<1>14. CASE UNCHANGED scriptVars
  BY <1>1, <1>14 DEF scriptVars, testVars
<1> QED
  BY <1>2, <1>3, <1>4, <1>5, <1>6, <1>7, <1>8, <1>9, <1>10, <1>11, <1>12, <1>13, <1>14
  DEF ScriptStep, Statement

\* Every test a script begins is reported once, as failed if its function threw or
\* the script was cut off in it: the finished calls of pm.test, the abandoned ones and
\* those of the other script, whatever the nesting (script/tests.go).
THEOREM PipelineEveryTestReported == PipelineSpec => []EveryTestReported
<1>1. PipelineInit => TestsInv
  BY TestsInvHoldsAtFirst
<1>2. TestsInv /\ [PipelineNext]_pipelineVars => TestsInv'
  BY PipelineStepIsAScriptStep, StepsKeepTests
<1>3. TestsInv => EveryTestReported
  BY DEF TestsInv, EveryTestReported, Ids, Right
<1> QED
  BY <1>1, <1>2, <1>3, PTL DEF PipelineSpec

-----------------------------------------------------------------------------
(* The header list. *)

\* What a slot of an array may hold.
Slot ==
    {Header(n, v) : n \in HeaderNames, v \in HeaderValues} \cup {Blank}
        \cup UNION {ToSet(r.headers) : r \in Requests}

Lists == {l \in [arr : Seq(Slot), len : Nat] : l.len <= Len(l.arr)}

\* The headers that a list has.
Has(l) == {l.arr[i] : i \in 1 .. l.len}

LEMMA ListTypes ==
    ASSUME NEW l \in Lists
    PROVE  /\ l.arr \in Seq(Slot) /\ l.len \in Nat /\ Len(l.arr) \in Nat
           /\ l.len <= Len(l.arr) /\ DOMAIN l.arr = 1 .. Len(l.arr)
           /\ \A i \in 1 .. Len(l.arr) : l.arr[i] \in Slot
<1>1. l.arr \in Seq(Slot) /\ l.len \in Nat /\ l.len <= Len(l.arr)
  BY DEF Lists
<1> QED
  BY <1>1, LenProperties, ElementOfSeq

\* What follows moves up, nothing else moves, and the array stays as long as it is.
LEMMA RemovedAtMoves ==
    ASSUME NEW l \in Lists, NEW i \in 1 .. l.len
    PROVE  LET m == RemovedAt(l, i)
           IN  /\ m \in Lists /\ m.len = l.len - 1 /\ Len(m.arr) = Len(l.arr)
               /\ \A j \in 1 .. i - 1 : m.arr[j] = l.arr[j]
               /\ \A j \in i .. l.len - 1 : m.arr[j] = l.arr[j + 1]
<1> DEFINE a == SubSeq(l.arr, 1, i - 1)  b == SubSeq(l.arr, i + 1, l.len)
           c == SubSeq(l.arr, l.len, Len(l.arr))
           m == RemovedAt(l, i)
<1>1. /\ l.len \in Nat /\ Len(l.arr) \in Nat /\ l.len <= Len(l.arr)
      /\ i \in Nat /\ 1 <= i /\ i <= l.len
      /\ \A j \in 1 .. Len(l.arr) : l.arr[j] \in Slot
  BY ListTypes
<1>2. /\ a \in Seq(Slot) /\ Len(a) = i - 1 /\ \A j \in 1 .. i - 1 : a[j] = l.arr[j]
  <2>1. \A j \in 1 .. i - 1 : l.arr[j] \in Slot
    BY <1>1
  <2> QED
    BY <1>1, <2>1, SubSeqProperties
<1>3. /\ b \in Seq(Slot) /\ Len(b) = l.len - i
      /\ \A j \in 1 .. l.len - i : b[j] = l.arr[i + j]
  <2>1. \A j \in i + 1 .. l.len : l.arr[j] \in Slot
    BY <1>1
  <2> QED
    BY <1>1, <2>1, SubSeqProperties
<1>4. c \in Seq(Slot) /\ Len(c) = Len(l.arr) - l.len + 1
  <2>1. \A j \in l.len .. Len(l.arr) : l.arr[j] \in Slot
    BY <1>1
  <2> QED
    BY <1>1, <2>1, SubSeqProperties
<1>5. m = [arr |-> a \o b \o c, len |-> l.len - 1]
  BY DEF RemovedAt, Slots
<1> HIDE DEF a, b, c
<1>6. /\ a \o b \in Seq(Slot) /\ Len(a \o b) = l.len - 1
      /\ \A j \in 1 .. l.len - 1 : (a \o b)[j] = IF j <= i - 1 THEN a[j] ELSE b[j - (i - 1)]
  <2>1. /\ a \o b \in Seq(Slot) /\ Len(a \o b) = Len(a) + Len(b)
        /\ \A j \in 1 .. Len(a) + Len(b) :
              (a \o b)[j] = IF j <= Len(a) THEN a[j] ELSE b[j - Len(a)]
    BY <1>2, <1>3, ConcatProperties
  <2>2. Len(a) = i - 1 /\ Len(a) + Len(b) = l.len - 1
    <3>1. Len(a) = i - 1 /\ Len(b) = l.len - i
      BY <1>2, <1>3
    <3> QED
      BY <1>1, <3>1
  <2>3. 1 .. Len(a) + Len(b) = 1 .. l.len - 1
    BY <2>2
  <2> QED
    BY ONLY <2>1, <2>2, <2>3
<1>7. /\ a \o b \o c \in Seq(Slot) /\ Len(a \o b \o c) = Len(l.arr)
      /\ \A j \in 1 .. l.len - 1 : (a \o b \o c)[j] = (a \o b)[j]
  <2> DEFINE d == a \o b
  <2>0. d \in Seq(Slot) /\ Len(d) = l.len - 1
    BY <1>6
  <2> HIDE DEF d
  <2>1. /\ d \o c \in Seq(Slot) /\ Len(d \o c) = Len(d) + Len(c)
        /\ \A j \in 1 .. Len(d) + Len(c) :
              (d \o c)[j] = IF j <= Len(d) THEN d[j] ELSE c[j - Len(d)]
    BY <1>4, <2>0, ConcatProperties
  <2>2. Len(d \o c) = Len(l.arr) /\ \A j \in 1 .. l.len - 1 : (d \o c)[j] = d[j]
    <3>1. Len(d) = l.len - 1 /\ Len(c) \in Nat /\ Len(d) + Len(c) = Len(l.arr)
      BY <1>1, <1>4, <2>0
    <3>2. \A j \in 1 .. l.len - 1 : j \in 1 .. Len(d) + Len(c) /\ j <= Len(d)
      BY <1>1, <3>1
    <3> QED
      BY <2>1, <3>1, <3>2
  <2> QED
    BY <2>1, <2>2 DEF d
<1>8. \A j \in 1 .. i - 1 : (a \o b)[j] = l.arr[j]
  BY <1>1, <1>2, <1>6
<1>9. ASSUME NEW j \in i .. l.len - 1 PROVE (a \o b)[j] = l.arr[j + 1]
  <2>1. (a \o b)[j] = b[j - (i - 1)]
    BY <1>1, <1>6
  <2>2. j - (i - 1) \in 1 .. l.len - i /\ i + (j - (i - 1)) = j + 1
    BY <1>1
  <2> QED
    BY <1>3, <2>1, <2>2
<1>10. m.arr = a \o b \o c /\ m.len = l.len - 1
  BY <1>5
<1>11. m \in Lists
  BY <1>1, <1>5, <1>7 DEF Lists
<1> HIDE DEF m
<1>12. ASSUME NEW j \in 1 .. i - 1 PROVE m.arr[j] = l.arr[j]
  <2>1. j \in 1 .. l.len - 1
    BY <1>1
  <2> QED
    BY <1>7, <1>8, <1>10, <2>1
<1>13. ASSUME NEW j \in i .. l.len - 1 PROVE m.arr[j] = l.arr[j + 1]
  <2>1. j \in 1 .. l.len - 1
    BY <1>1
  <2> QED
    BY <1>7, <1>9, <1>10, <2>1
<1> QED
  BY <1>7, <1>10, <1>11, <1>12, <1>13 DEF m

\* What RemovedKey(l, key) has made of l after its first k passes: m.  In front of the
\* slots it has looked at nothing has changed, and behind them are those that stay.
RemovedSoFar(l, key, k, m) ==
    LET n == l.len - k
    IN  /\ m \in Lists /\ n <= m.len /\ m.len <= l.len /\ Len(m.arr) = Len(l.arr)
        /\ \A j \in 1 .. n : m.arr[j] = l.arr[j]
        /\ {m.arr[j] : j \in n + 1 .. m.len} =
               {h \in {l.arr[j] : j \in n + 1 .. l.len} : KeyOf[h.name] # key}

LEMMA DropIsAPass ==
    ASSUME NEW l \in Lists, NEW key, NEW k \in 1 .. l.len, NEW m,
           RemovedSoFar(l, key, k - 1, m)
    PROVE  RemovedSoFar(l, key, k, Drop(m, l.len + 1 - k, key))
<1> DEFINE i == l.len + 1 - k  d == Drop(m, i, key)
           Behind(a, first, last) == {a[j] : j \in first .. last}
<1>1. l.len \in Nat /\ i \in 1 .. l.len /\ k \in Nat /\ l.len - k = i - 1 /\ l.len - (k - 1) = i
  BY ListTypes
<1>2. /\ m \in Lists /\ i <= m.len /\ m.len <= l.len /\ Len(m.arr) = Len(l.arr)
      /\ \A j \in 1 .. i : m.arr[j] = l.arr[j]
      /\ Behind(m.arr, i + 1, m.len) =
             {h \in Behind(l.arr, i + 1, l.len) : KeyOf[h.name] # key}
  BY <1>1 DEF RemovedSoFar
<1>3. m.len \in Nat /\ m.arr[i] = l.arr[i]
  BY <1>1, <1>2, ListTypes
<1> HIDE DEF i
<1>4. Behind(l.arr, i, l.len) = Behind(l.arr, i + 1, l.len) \cup {l.arr[i]}
  <2>1. \A j : j \in i .. l.len <=> j \in i + 1 .. l.len \/ j = i
    BY <1>1
  <2> QED
    BY <2>1, Zenon
<1>5. CASE KeyOf[m.arr[i].name] = key
  <2>1. d = RemovedAt(m, i) /\ i \in 1 .. m.len
    BY <1>1, <1>2, <1>3, <1>5 DEF Drop
  <2> HIDE DEF d
  <2>2. /\ d \in Lists /\ d.len = m.len - 1 /\ Len(d.arr) = Len(m.arr)
        /\ \A j \in 1 .. i - 1 : d.arr[j] = m.arr[j]
        /\ \A j \in i .. m.len - 1 : d.arr[j] = m.arr[j + 1]
    BY <1>2, <2>1, RemovedAtMoves
  <2>3. Behind(d.arr, i, d.len) = Behind(m.arr, i + 1, m.len)
    <3>1. ASSUME NEW j \in i .. d.len PROVE d.arr[j] \in Behind(m.arr, i + 1, m.len)
      <4>1. j \in i .. m.len - 1 /\ j + 1 \in i + 1 .. m.len
        BY <1>1, <1>3, <2>2
      <4> QED
        BY <2>2, <4>1
    <3>2. ASSUME NEW j \in i + 1 .. m.len PROVE m.arr[j] \in Behind(d.arr, i, d.len)
      <4>1. j - 1 \in i .. d.len /\ j - 1 \in i .. m.len - 1 /\ (j - 1) + 1 = j
        BY <1>1, <1>3, <2>2
      <4>2. d.arr[j - 1] = m.arr[j]
        BY <2>2, <4>1
      <4> QED
        BY <4>1, <4>2
    <3> QED
      BY <3>1, <3>2
  <2>4. Behind(d.arr, i, d.len) = {h \in Behind(l.arr, i, l.len) : KeyOf[h.name] # key}
    <3> HIDE DEF Behind
    <3> QED
      BY <1>2, <1>3, <1>4, <1>5, <2>3
  <2>5. i - 1 <= d.len /\ d.len <= l.len /\ Len(d.arr) = Len(l.arr)
    BY <1>1, <1>2, <1>3, <2>2
  <2>6. ASSUME NEW j \in 1 .. i - 1 PROVE d.arr[j] = l.arr[j]
    <3>1. j \in 1 .. i
      BY <1>1
    <3> QED
      BY <1>2, <2>2, <3>1
  <2>7. i - 1 + 1 = i
    BY <1>1
  <2>8. RemovedSoFar(l, key, k, d)
    BY <1>1, <2>2, <2>4, <2>5, <2>6, <2>7 DEF RemovedSoFar
  <2> QED
    BY <2>8 DEF d, i
<1>6. CASE KeyOf[m.arr[i].name] # key
  <2>1. d = m
    BY <1>6 DEF Drop
  <2>2. Behind(m.arr, i, m.len) = Behind(m.arr, i + 1, m.len) \cup {m.arr[i]}
    <3>1. \A j : j \in i .. m.len <=> j \in i + 1 .. m.len \/ j = i
      BY <1>1, <1>2, <1>3
    <3> QED
      BY <3>1, Zenon
  <2>3. Behind(m.arr, i, m.len) = {h \in Behind(l.arr, i, l.len) : KeyOf[h.name] # key}
    <3> HIDE DEF Behind
    <3> QED
      BY <1>2, <1>3, <1>4, <1>6, <2>2
  <2>4. i - 1 <= m.len /\ i - 1 + 1 = i
    BY <1>1, <1>2, <1>3
  <2>5. ASSUME NEW j \in 1 .. i - 1 PROVE m.arr[j] = l.arr[j]
    <3>1. j \in 1 .. i
      BY <1>1
    <3> QED
      BY <1>2, <3>1
  <2>6. RemovedSoFar(l, key, k, m)
    BY <1>1, <1>2, <2>3, <2>4, <2>5 DEF RemovedSoFar
  <2> QED
    BY <2>1, <2>6 DEF i
<1> QED
  BY <1>5, <1>6

\* Removing a key leaves the headers of other keys, in an array as long as before.
LEMMA RemovedKeyRemoves ==
    ASSUME NEW l \in Lists, NEW key
    PROVE  LET m == RemovedKey(l, key)
           IN  /\ m \in Lists /\ m.len <= l.len /\ Len(m.arr) = Len(l.arr)
               /\ Has(m) = {h \in Has(l) : KeyOf[h.name] # key}
<1> DEFINE n == l.len
           So(k, m) == RemovedSoFar(l, key, k, m)
           Pass(k, m) == Drop(m, n + 1 - k, key)
           step == [k \in Nat |-> [m \in Lists |->
                        IF Pass(k, m) \in Lists THEN Pass(k, m) ELSE m]]
           Eq(f) == f = [k \in 0 .. n |-> IF k = 0 THEN l ELSE Pass(k, f[k - 1])]
<1>1. n \in Nat /\ n <= Len(l.arr)
  BY ListTypes
<1>2. So(0, l)
  <2>1. {l.arr[j] : j \in n - 0 + 1 .. n} = {}
    BY <1>1
  <2>2. n <= n /\ n - 0 <= n
    BY <1>1
  <2> QED
    BY <1>1, <2>1, <2>2 DEF RemovedSoFar
<1>3. ASSUME NEW k \in 1 .. n, NEW m, So(k - 1, m) PROVE So(k, Pass(k, m))
  BY <1>3, DropIsAPass
<1>4. ASSUME NEW k, NEW m, So(k, m) PROVE m \in Lists
  BY <1>4 DEF RemovedSoFar
<1>5. ASSUME NEW k \in Nat, NEW m \in Lists, Pass(k, m) \in Lists PROVE step[k][m] = Pass(k, m)
  <2> HIDE DEF Pass
  <2> QED
    BY <1>5
<1>6. step \in [Nat -> [Lists -> Lists]]
  <2> HIDE DEF Pass
  <2> QED
    OBVIOUS
<1> HIDE DEF So, Pass, step
<1>7. PICK f \in [0 .. n -> Lists] : f[0] = l /\ \A k \in 1 .. n : f[k] = step[k][f[k - 1]]
  <2>1. l \in Lists
    OBVIOUS
  <2> HIDE DEF n
  <2>2. \E f : Runs(f, n, Lists, l, step)
    BY <1>1, <1>6, <2>1, LoopsHaveValues
  <2> QED
    BY <2>2 DEF Runs, Passes
<1>8. \A k \in 0 .. n : So(k, f[k]) /\ (k # 0 => f[k] = Pass(k, f[k - 1]))
  <2> DEFINE S == {k \in Nat : k <= n =>
                       So(k, f[k]) /\ (k # 0 => f[k] = Pass(k, f[k - 1]))}
  <2>1. 0 \in S
    BY <1>2, <1>7
  <2>2. ASSUME NEW k \in Nat, k \in S PROVE k + 1 \in S
    <3> SUFFICES ASSUME k + 1 <= n
                 PROVE  So(k + 1, f[k + 1]) /\ f[k + 1] = Pass(k + 1, f[k])
      OBVIOUS
    <3>1. k + 1 \in 1 .. n /\ k <= n /\ (k + 1) - 1 = k
      BY <1>1
    <3>2. So(k, f[k])
      BY <2>2, <3>1
    <3>3. So(k + 1, Pass(k + 1, f[k]))
      BY <1>3, <3>1, <3>2
    <3>4. f[k] \in Lists /\ Pass(k + 1, f[k]) \in Lists
      BY <1>4, <3>2, <3>3
    <3>5. f[k + 1] = step[k + 1][f[k]]
      BY <1>7, <3>1
    <3>6. f[k + 1] = Pass(k + 1, f[k])
      BY <1>5, <3>1, <3>4, <3>5
    <3> QED
      BY <3>3, <3>6
  <2> HIDE DEF S
  <2>3. \A k \in Nat : k \in S
    BY <2>1, <2>2, EveryNumber
  <2> QED
    BY <1>1, <2>3 DEF S
<1>9. Eq(f)
  BY <1>7, <1>8
<1> DEFINE after == CHOOSE g : Eq(g)
<1>10. Eq(after)
  BY <1>9
<1>11. RemovedKey(l, key) = after[n]
  BY DEF RemovedKey, Pass
<1> HIDE DEF after
<1>12. after[0] = l /\ \A k \in 1 .. n : after[k] = Pass(k, after[k - 1])
  <2>1. \A k \in 0 .. n : after[k] = IF k = 0 THEN l ELSE Pass(k, after[k - 1])
    BY <1>10
  <2> QED
    BY <1>1, <2>1
<1>13. So(n, after[n])
  <2> DEFINE S == {k \in Nat : k <= n => So(k, after[k])}
  <2>1. 0 \in S
    BY <1>2, <1>12
  <2>2. ASSUME NEW k \in Nat, k \in S PROVE k + 1 \in S
    <3> SUFFICES ASSUME k + 1 <= n PROVE So(k + 1, after[k + 1])
      OBVIOUS
    <3>1. k + 1 \in 1 .. n /\ k <= n /\ (k + 1) - 1 = k
      BY <1>1
    <3>2. So(k, after[k]) /\ after[k + 1] = Pass(k + 1, after[k])
      BY <1>12, <2>2, <3>1
    <3> QED
      BY <1>3, <3>1, <3>2
  <2> HIDE DEF S
  <2>3. n \in S
    BY <1>1, <2>1, <2>2, EveryNumber
  <2> QED
    BY <1>1, <2>3 DEF S
<1>14. RemovedSoFar(l, key, n, RemovedKey(l, key))
  BY <1>11, <1>13 DEF So
<1>15. \A m : {m.arr[j] : j \in n - n + 1 .. m.len} = Has(m)
  <2>1. n - n + 1 = 1
    BY <1>1
  <2> QED
    BY <2>1 DEF Has
<1> QED
  BY <1>14, <1>15 DEF RemovedSoFar

\* The new header is the last; the array is the same unless it was full.
LEMMA AppendedAppends ==
    ASSUME NEW l \in Lists, NEW h \in Slot
    PROVE  LET m == Appended(l, h)
           IN  /\ m \in Lists /\ m.len = l.len + 1
               /\ Fits(l) => Len(m.arr) = Len(l.arr)
               /\ \A j \in 1 .. l.len : m.arr[j] = l.arr[j]
               /\ Has(m) = Has(l) \cup {h}
<1> DEFINE a == Append(Live(l), h)
           b == IF Fits(l) THEN Slots(l, l.len + 2) ELSE [i \in 1 .. l.len - 1 |-> Blank]
           m == Appended(l, h)
<1>1. /\ l.len \in Nat /\ Len(l.arr) \in Nat /\ l.len <= Len(l.arr)
      /\ \A j \in 1 .. Len(l.arr) : l.arr[j] \in Slot
  BY ListTypes
<1>2. /\ Live(l) \in Seq(Slot) /\ Len(Live(l)) = l.len
      /\ \A j \in 1 .. l.len : Live(l)[j] = l.arr[j]
  <2>1. \A j \in 1 .. l.len : l.arr[j] \in Slot
    BY <1>1
  <2> QED
    BY <1>1, <2>1, SubSeqProperties DEF Live
<1>3. /\ a \in Seq(Slot) /\ Len(a) = l.len + 1 /\ a[l.len + 1] = h
      /\ \A j \in 1 .. l.len : a[j] = l.arr[j]
  BY <1>2, AppendProperties
<1>4. b \in Seq(Slot) /\ (Fits(l) => Len(b) = Len(l.arr) - l.len - 1)
  <2>1. CASE Fits(l)
    <3>1. \A j \in l.len + 2 .. Len(l.arr) : l.arr[j] \in Slot
      BY <1>1
    <3>2. SubSeq(l.arr, l.len + 2, Len(l.arr)) \in Seq(Slot)
          /\ Len(SubSeq(l.arr, l.len + 2, Len(l.arr))) =
                IF l.len + 2 <= Len(l.arr) THEN Len(l.arr) - (l.len + 2) + 1 ELSE 0
      BY <1>1, <3>1, SubSeqProperties
    <3>3. l.len < Len(l.arr)
      BY <2>1 DEF Fits
    <3> QED
      BY <1>1, <2>1, <3>2, <3>3 DEF Slots
  <2>2. CASE ~ Fits(l)
    <3>1. Blank \in Slot
      BY DEF Slot
    <3>2. CASE l.len = 0
      <4>1. b = <<>>
        BY <2>2, <3>2
      <4> QED
        BY <2>2, <4>1, EmptySeq
    <3>3. CASE l.len # 0
      <4>1. l.len - 1 \in Nat /\ b \in [1 .. l.len - 1 -> Slot]
        BY <1>1, <2>2, <3>1, <3>3
      <4> QED
        BY <2>2, <4>1, SeqDef
    <3> QED
      BY <3>2, <3>3
  <2> QED
    BY <2>1, <2>2
<1>5. m = [arr |-> a \o b, len |-> l.len + 1]
  BY DEF Appended
<1> HIDE DEF a, b
<1>6. m.arr = a \o b /\ m.len = l.len + 1
  <2> HIDE DEF m
  <2> QED
    BY <1>5
<1>7. /\ a \o b \in Seq(Slot) /\ Len(a \o b) = Len(a) + Len(b) /\ Len(b) \in Nat
      /\ \A j \in 1 .. Len(a) + Len(b) :
            (a \o b)[j] = IF j <= Len(a) THEN a[j] ELSE b[j - Len(a)]
  BY <1>3, <1>4, ConcatProperties, LenProperties
<1>8. m \in Lists
  BY <1>1, <1>3, <1>5, <1>7 DEF Lists
<1> HIDE DEF m
<1>9. \A j \in 1 .. l.len + 1 : m.arr[j] = a[j]
  BY <1>1, <1>3, <1>6, <1>7
<1>10. ASSUME NEW j \in 1 .. l.len PROVE m.arr[j] = l.arr[j]
  <2>1. j \in 1 .. l.len + 1
    BY <1>1
  <2> QED
    BY <1>3, <1>9, <2>1
<1>11. Has(m) = Has(l) \cup {h}
  <2>1. \A j : j \in 1 .. l.len + 1 <=> j \in 1 .. l.len \/ j = l.len + 1
    BY <1>1
  <2>2. m.arr[l.len + 1] = h
    BY <1>1, <1>3, <1>9
  <2>3. Has(m) = {m.arr[j] : j \in 1 .. l.len + 1}
    BY <1>6 DEF Has
  <2>4. Has(l) = {m.arr[j] : j \in 1 .. l.len}
    BY <1>10 DEF Has
  <2> QED
    BY <2>1, <2>2, <2>3, <2>4, Zenon
<1>12. Fits(l) => Len(m.arr) = Len(l.arr)
  BY <1>1, <1>3, <1>4, <1>6, <1>7
<1> QED
  BY <1>6, <1>8, <1>10, <1>11, <1>12 DEF m

-----------------------------------------------------------------------------
(* headers.each. *)

Loops ==
    [on : BOOLEAN, i : Nat, n : Nat, depth : Nat, old : Seq(Slot), start : Seq(Slot),
     seen : Seq(Slot), kept : BOOLEAN]

\* The array that the loop o reads while the list is l.
Reads(o, l) == IF o.old = <<>> THEN l.arr ELSE o.old

\* The array that a loop reads is long enough for it to the end; and while nothing
\* is removed, the headers it began with stay where they are in that array, and in
\* the list, if that still is its array.
LoopHolds(o, l) ==
    o.on =>
        /\ o.i <= o.n /\ o.n = Len(o.start) /\ Len(o.seen) = o.i
        /\ o.n <= Len(Reads(o, l))
        /\ o.kept =>
              /\ \A k \in 1 .. o.n : Reads(o, l)[k] = o.start[k]
              /\ \A k \in 1 .. o.i : o.seen[k] = o.start[k]
              /\ o.old = <<>> => o.n <= l.len

LoopInv == list \in Lists /\ loop \in Loops /\ LoopHolds(loop, list)

\* Appending to a list that is as it was, or has had headers removed.
LEMMA AppendingKeepsTheLoop ==
    ASSUME loop \in Loops, NEW l \in Lists, NEW h \in Slot, NEW kept \in BOOLEAN,
           LoopHolds([loop EXCEPT !.kept = kept], l)
    PROVE  LET o == [LeftBehind(l) EXCEPT !.kept = kept]
           IN  o \in Loops /\ LoopHolds(o, Appended(l, h))
<1> DEFINE o == [LeftBehind(l) EXCEPT !.kept = kept]  m == Appended(l, h)
           p == [loop EXCEPT !.kept = kept]
<1>1. /\ m \in Lists /\ m.len = l.len + 1 /\ (Fits(l) => Len(m.arr) = Len(l.arr))
      /\ \A j \in 1 .. l.len : m.arr[j] = l.arr[j]
  BY AppendedAppends
<1>2. l.arr \in Seq(Slot) /\ l.len \in Nat /\ Len(l.arr) \in Nat /\ l.len <= Len(l.arr)
  BY ListTypes
<1>3. p \in Loops /\ LoopHolds(p, l)
  BY DEF Loops
<1> HIDE DEF m
<1>4. CASE loop.on /\ loop.old = <<>> /\ ~ Fits(l)
  <2>1. o = [p EXCEPT !.old = l.arr]
    BY <1>4 DEF LeftBehind, Loops
  <2>2. o \in Loops
    BY <1>2, <1>3, <2>1 DEF Loops
  <2>3. /\ o.on = p.on /\ o.i = p.i /\ o.n = p.n /\ o.start = p.start /\ o.seen = p.seen
        /\ o.kept = p.kept /\ o.old = l.arr /\ p.old = <<>>
    BY <1>3, <1>4, <2>1 DEF Loops
  <2>4. Reads(p, l) = l.arr
    BY <2>3 DEF Reads
  <2>5. CASE l.arr = <<>>
    <3>1. Len(l.arr) = 0
      BY <2>5, EmptySeq
    <3>2. Reads(o, m) = m.arr /\ Len(m.arr) \in Nat
      BY <1>1, <2>3, <2>5, ListTypes DEF Reads
    <3>3. p.on => p.n = 0
      BY <1>3, <2>4, <3>1 DEF LoopHolds, Loops
    <3> HIDE DEF o, p
    <3>4. LoopHolds(o, m)
      BY <1>1, <1>2, <1>3, <2>3, <3>2, <3>3 DEF LoopHolds, Loops
    <3> QED
      BY <2>2, <3>4 DEF o, m
  <2>6. CASE l.arr # <<>>
    <3>1. Reads(o, m) = l.arr
      BY <2>3, <2>6 DEF Reads
    <3> HIDE DEF o, p
    <3>2. LoopHolds(o, m)
      BY <1>3, <2>3, <2>4, <2>6, <3>1 DEF LoopHolds
    <3> QED
      BY <2>2, <3>2 DEF o, m
  <2> QED
    BY <2>5, <2>6
<1>5. CASE ~ (loop.on /\ loop.old = <<>> /\ ~ Fits(l))
  <2>1. o = p
    BY <1>5 DEF LeftBehind
  <2>2. CASE ~ p.on
    BY <1>3, <2>1, <2>2 DEF LoopHolds, m
  <2>3. CASE p.on /\ p.old # <<>>
    <3>1. Reads(p, m) = Reads(p, l)
      BY <2>3 DEF Reads
    <3> HIDE DEF o, p
    <3>2. LoopHolds(p, m)
      BY <1>3, <2>3, <3>1 DEF LoopHolds
    <3> QED
      BY <1>3, <2>1, <3>2 DEF m, o
  <2>4. CASE p.on /\ p.old = <<>>
    <3>1. p.on = loop.on /\ p.old = loop.old
      BY DEF Loops
    <3>2. Fits(l)
      BY <1>5, <2>4, <3>1
    <3>3. Reads(p, m) = m.arr /\ Reads(p, l) = l.arr
      BY <2>4 DEF Reads
    <3>4. p.n \in Nat
      BY <1>3 DEF Loops
    <3> HIDE DEF o, p
    <3>5. p.kept => p.n <= m.len /\ \A k \in 1 .. p.n : m.arr[k] = p.start[k]
      BY <1>1, <1>2, <1>3, <2>4, <3>3, <3>4 DEF LoopHolds
    <3>6. LoopHolds(p, m)
      BY <1>1, <1>3, <2>4, <3>2, <3>3, <3>5 DEF LoopHolds
    <3> QED
      BY <1>3, <2>1, <3>6 DEF m, o
  <2> QED
    BY <2>2, <2>3, <2>4
<1> QED
  BY <1>4, <1>5

\* Removing a key ends the claim about what is in the slots, and no array shrinks.
LEMMA RemovingKeepsTheLoop ==
    ASSUME LoopInv, NEW key
    PROVE  LET o == [loop EXCEPT !.kept = FALSE]  l == RemovedKey(list, key)
           IN  l \in Lists /\ o \in Loops /\ LoopHolds(o, l)
<1> DEFINE o == [loop EXCEPT !.kept = FALSE]  l == RemovedKey(list, key)
<1>1. l \in Lists /\ Len(l.arr) = Len(list.arr)
  BY RemovedKeyRemoves DEF LoopInv
<1>2. o \in Loops
  BY DEF LoopInv, Loops
<1> HIDE DEF l
<1>3. /\ o.on = loop.on /\ o.i = loop.i /\ o.n = loop.n /\ o.start = loop.start
      /\ o.seen = loop.seen /\ o.kept = FALSE /\ o.old = loop.old
  BY DEF LoopInv, Loops
<1> HIDE DEF o
<1>4. Len(Reads(o, l)) = Len(Reads(loop, list))
  BY <1>1, <1>3 DEF Reads
<1>5. LoopHolds(o, l)
  BY <1>3, <1>4 DEF LoopInv, LoopHolds
<1> QED
  BY <1>1, <1>2, <1>5 DEF o, l

LEMMA EachStartKeepsTheLoop ==
    ASSUME LoopInv, open \in Seq(Nat), EachStart
    PROVE  LoopInv'
<1>1. /\ loop' = [NoLoop EXCEPT !.on = TRUE, !.n = list.len, !.depth = Len(open),
                                !.start = Live(list)]
      /\ list' = list
  BY DEF EachStart, OnLoop
<1>2. /\ list.len \in Nat /\ Len(list.arr) \in Nat /\ list.len <= Len(list.arr)
      /\ \A j \in 1 .. list.len : list.arr[j] \in Slot
  BY ListTypes DEF LoopInv
<1>3. /\ Live(list) \in Seq(Slot) /\ Len(Live(list)) = list.len
      /\ \A j \in 1 .. list.len : Live(list)[j] = list.arr[j]
  BY <1>2, SubSeqProperties DEF Live
<1>4. Len(open) \in Nat /\ <<>> \in Seq(Slot) /\ Len(<<>>) = 0
  BY LenProperties, EmptySeq
<1>5. /\ loop'.on /\ loop'.i = 0 /\ loop'.n = list.len /\ loop'.old = <<>>
      /\ loop'.start = Live(list) /\ loop'.seen = <<>>
  BY <1>1 DEF NoLoop
<1>6. loop' \in Loops
  BY <1>1, <1>2, <1>3, <1>4 DEF NoLoop, Loops
<1>7. LoopHolds(loop', list')
  BY <1>1, <1>2, <1>3, <1>4, <1>5 DEF LoopHolds, Reads
<1> QED
  BY <1>1, <1>6, <1>7 DEF LoopInv

LEMMA EachNextKeepsTheLoop ==
    ASSUME LoopInv, EachNext
    PROVE  LoopInv'
<1> DEFINE h == LoopArray[loop.i + 1]
<1>1. /\ loop.on /\ loop.i < loop.n /\ list' = list
      /\ loop' = [loop EXCEPT !.i = loop.i + 1, !.seen = Append(loop.seen, h)]
  BY DEF EachNext, OnLoop
<1>2. /\ loop \in Loops /\ loop.i \in Nat /\ loop.n \in Nat /\ loop.seen \in Seq(Slot)
      /\ loop.old \in Seq(Slot) /\ list.arr \in Seq(Slot)
  BY ListTypes DEF LoopInv, Loops
<1>3. LoopArray = Reads(loop, list) /\ LoopArray \in Seq(Slot)
  BY <1>2 DEF LoopArray, Reads
<1>4. /\ loop.n = Len(loop.start) /\ Len(loop.seen) = loop.i /\ loop.n <= Len(LoopArray)
      /\ Len(LoopArray) \in Nat /\ loop.i + 1 \in 1 .. Len(LoopArray)
      /\ loop.i + 1 \in 1 .. loop.n
  BY <1>1, <1>2, <1>3, LenProperties DEF LoopInv, LoopHolds
<1>5. h \in Slot
  BY <1>3, <1>4, ElementOfSeq
<1>6. /\ Append(loop.seen, h) \in Seq(Slot) /\ Len(Append(loop.seen, h)) = loop.i + 1
      /\ \A k \in 1 .. loop.i : Append(loop.seen, h)[k] = loop.seen[k]
      /\ Append(loop.seen, h)[loop.i + 1] = h
  BY <1>2, <1>4, <1>5, AppendProperties
<1>7. loop' \in Loops
  <2> DEFINE seen == Append(loop.seen, h)
  <2>1. seen \in Seq(Slot) /\ loop' = [loop EXCEPT !.i = loop.i + 1, !.seen = seen]
    BY <1>1, <1>6
  <2> HIDE DEF seen
  <2>2. loop.i + 1 \in Nat
    BY <1>2
  <2> QED
    BY <1>2, <2>1, <2>2 DEF Loops
<1>8. /\ loop'.on /\ loop'.i = loop.i + 1 /\ loop'.n = loop.n /\ loop'.start = loop.start
      /\ loop'.seen = Append(loop.seen, h) /\ loop'.kept = loop.kept /\ loop'.old = loop.old
  BY <1>1, <1>2 DEF Loops
<1>9. Reads(loop', list') = Reads(loop, list)
  BY <1>1, <1>8 DEF Reads
<1>10. ASSUME loop.kept, NEW k \in 1 .. loop.i + 1
       PROVE  Append(loop.seen, h)[k] = loop.start[k]
  <2>1. CASE k = loop.i + 1
    <3>1. Reads(loop, list)[k] = loop.start[k]
      BY <1>1, <1>4, <1>10, <2>1 DEF LoopInv, LoopHolds
    <3> QED
      BY <1>3, <1>6, <2>1, <3>1
  <2>2. CASE k \in 1 .. loop.i
    BY <1>1, <1>6, <1>10, <2>2 DEF LoopInv, LoopHolds
  <2>3. k = loop.i + 1 \/ k \in 1 .. loop.i
    BY <1>2, <1>10
  <2> QED
    BY <2>1, <2>2, <2>3
<1> HIDE DEF h
<1>11. LoopHolds(loop', list')
  BY <1>1, <1>2, <1>4, <1>6, <1>8, <1>9, <1>10 DEF LoopInv, LoopHolds
<1> QED
  BY <1>1, <1>7, <1>11 DEF LoopInv

LEMMA NoLoopHolds ==
    NoLoop \in Loops /\ \A l : LoopHolds(NoLoop, l)
<1>1. <<>> \in Seq(Slot)
  BY EmptySeq
<1> QED
  BY <1>1 DEF NoLoop, Loops, LoopHolds

LEMMA HeadersAreSlots ==
    ASSUME NEW n \in HeaderNames, NEW v \in HeaderValues
    PROVE  Header(n, v) \in Slot
  BY DEF Slot

LEMMA LoopInvHoldsAtFirst ==
    ASSUME PipelineInit
    PROVE  LoopInv
<1>1. request \in Requests /\ list = NewList(request.headers) /\ loop = NoLoop
  BY DEF PipelineInit, ScriptInit
<1>2. request.headers \in Seq(ToSet(request.headers)) /\ ToSet(request.headers) \subseteq Slot
  BY <1>1, RequestsAssumption DEF IsSequence, Slot
<1>3. request.headers \in Seq(Slot) /\ Len(request.headers) \in Nat
  BY <1>2, SeqMonotonic, LenProperties
<1>4. list \in Lists
  BY <1>1, <1>3 DEF NewList, Lists
<1> QED
  BY <1>1, <1>4, NoLoopHolds DEF LoopInv

LEMMA StepsKeepTheLoop ==
    ASSUME LoopInv, TestsInv, ScriptStep
    PROVE  LoopInv'
<1>0. /\ list \in Lists /\ loop \in Loops /\ LoopHolds(loop, list)
      /\ open \in Seq(Nat) /\ loop.kept \in BOOLEAN /\ loop = [loop EXCEPT !.kept = loop.kept]
  BY DEF LoopInv, TestsInv, Loops
<1>1. ASSUME list' = list, loop' = loop \/ loop' = NoLoop PROVE LoopInv'
  BY <1>0, <1>1, NoLoopHolds DEF LoopInv
<1>2. ASSUME NEW v \in HeaderValues, WriteURL(v) \/ WriteBody(v) PROVE LoopInv'
  BY <1>1, <1>2 DEF WriteURL, WriteBody, WriteText
<1>3. ASSUME NEW n \in HeaderNames, NEW v \in HeaderValues, AddHeader(n, v) PROVE LoopInv'
  <2>1. list' = Appended(list, Header(n, v)) /\ loop' = LeftBehind(list)
    BY <1>3 DEF AddHeader
  <2>2. list' \in Lists
    BY <1>0, <2>1, AppendedAppends, HeadersAreSlots
  <2>3. LET o == [LeftBehind(list) EXCEPT !.kept = loop.kept]
        IN  o \in Loops /\ LoopHolds(o, Appended(list, Header(n, v)))
    BY <1>0, AppendingKeepsTheLoop, HeadersAreSlots
  <2>4. LeftBehind(list) = [LeftBehind(list) EXCEPT !.kept = loop.kept]
    BY <1>0 DEF LeftBehind, Loops
  <2> QED
    BY <2>1, <2>2, <2>3, <2>4 DEF LoopInv
<1>4. ASSUME NEW n \in HeaderNames, NEW v \in HeaderValues, UpsertHeader(n, v) PROVE LoopInv'
  <2> DEFINE l == RemovedKey(list, KeyOf[n])
  <2>1. list' = Appended(l, Header(n, v)) /\ loop' = [LeftBehind(l) EXCEPT !.kept = FALSE]
    BY <1>4 DEF UpsertHeader
  <2>2. l \in Lists /\ LoopHolds([loop EXCEPT !.kept = FALSE], l)
    BY RemovingKeepsTheLoop
  <2> HIDE DEF l
  <2>3. list' \in Lists
    BY <2>1, <2>2, AppendedAppends, HeadersAreSlots
  <2>4. LET o == [LeftBehind(l) EXCEPT !.kept = FALSE]
        IN  o \in Loops /\ LoopHolds(o, Appended(l, Header(n, v)))
    BY <1>0, <2>2, AppendingKeepsTheLoop, HeadersAreSlots
  <2> QED
    BY <2>1, <2>3, <2>4 DEF LoopInv
<1>5. ASSUME NEW k \in Keys, RemoveHeader(k) PROVE LoopInv'
  <2>1. list' = RemovedKey(list, k) /\ loop' = [loop EXCEPT !.kept = FALSE]
    BY <1>5 DEF RemoveHeader
  <2>2. LET o == [loop EXCEPT !.kept = FALSE]  l == RemovedKey(list, k)
        IN  l \in Lists /\ o \in Loops /\ LoopHolds(o, l)
    BY RemovingKeepsTheLoop
  <2> QED
    BY <2>1, <2>2 DEF LoopInv
<1>6. CASE EachStart
  BY <1>0, <1>6, EachStartKeepsTheLoop
<1>7. CASE EachNext
  BY <1>7, EachNextKeepsTheLoop
<1>8. CASE EachEnd
  BY <1>1, <1>8 DEF EachEnd, OnLoop
<1>9. ASSUME NEW n \in VarNames, UnsetVar(n) \/ \E v \in VarValues : SetVar(n, v)
      PROVE  LoopInv'
  BY <1>1, <1>9 DEF UnsetVar, SetVar, OnVariables
<1>10. ASSUME \/ \E passed \in BOOLEAN : Report(passed)
              \/ TestBegin \/ TestReturns \/ TestThrows
       PROVE  LoopInv'
  BY <1>1, <1>10 DEF Report, TestBegin, TestReturns, TestThrows, OnTests
<1>11. CASE ScriptReturns \/ ScriptFails
  BY <1>1, <1>11 DEF ScriptReturns, ScriptFails
<1>12. ASSUME NEW phase, ScriptStarts(phase) PROVE LoopInv'
  BY <1>1, <1>12 DEF ScriptStarts
<1>13. CASE UNCHANGED scriptVars
  BY <1>1, <1>13 DEF scriptVars
<1> QED
  BY <1>2, <1>3, <1>4, <1>5, <1>6, <1>7, <1>8, <1>9, <1>10, <1>11, <1>12, <1>13
  DEF ScriptStep, Statement

\* What a loop has seen is what it began with, and never more of it than there was.
LEMMA LoopInvIsEnough ==
    ASSUME LoopInv
    PROVE  EachSeesTheList
<1> SUFFICES ASSUME loop.on
             PROVE  /\ loop.i <= loop.n /\ Len(loop.seen) = loop.i
                    /\ loop.kept => IsPrefix(loop.seen, loop.start)
  BY DEF EachSeesTheList
<1>1. /\ loop.i <= loop.n /\ loop.n = Len(loop.start) /\ Len(loop.seen) = loop.i
      /\ loop.kept => \A k \in 1 .. loop.i : loop.seen[k] = loop.start[k]
  BY DEF LoopInv, LoopHolds
<1>2. /\ loop.seen \in Seq(Slot) /\ loop.start \in Seq(Slot)
      /\ loop.i \in Nat /\ loop.n \in Nat
  BY DEF LoopInv, Loops
<1>3. ASSUME loop.kept PROVE IsPrefix(loop.seen, loop.start)
  <2> DEFINE a == SubSeq(loop.seen, 1, loop.i)  b == SubSeq(loop.start, 1, loop.i)
  <2>1. \A k \in 1 .. loop.i : loop.seen[k] \in Slot /\ loop.start[k] \in Slot
    <3>1. \A k \in 1 .. loop.i : k \in 1 .. Len(loop.seen) /\ k \in 1 .. Len(loop.start)
      BY <1>1, <1>2
    <3> QED
      BY <1>2, <3>1, ElementOfSeq
  <2>2. /\ a \in Seq(Slot) /\ Len(a) = (IF 1 <= loop.i THEN loop.i - 1 + 1 ELSE 0)
        /\ \A k \in 1 .. loop.i - 1 + 1 : a[k] = loop.seen[1 + k - 1]
    BY <1>2, <2>1, SubSeqProperties
  <2>3. /\ b \in Seq(Slot) /\ Len(b) = (IF 1 <= loop.i THEN loop.i - 1 + 1 ELSE 0)
        /\ \A k \in 1 .. loop.i - 1 + 1 : b[k] = loop.start[1 + k - 1]
    BY <1>2, <2>1, SubSeqProperties
  <2> HIDE DEF a, b
  <2>4. Len(a) = Len(b) /\ \A k \in 1 .. Len(a) : a[k] = b[k]
    BY <1>1, <1>2, <1>3, <2>2, <2>3
  <2>5. a = b
    BY <2>2, <2>3, <2>4, SeqEqual
  <2> QED
    BY <1>1, <2>5 DEF IsPrefix, a, b
<1> QED
  BY <1>1, <1>3

\* headers.each calls its function at most once for each header there was when it
\* began, whatever the function does to the list, in the order of the list as long as
\* none is removed: the range statement of script/context.go keeps its slice.
THEOREM PipelineEachSeesTheList == PipelineSpec => []EachSeesTheList
<1>1. PipelineInit => TestsInv /\ LoopInv
  BY TestsInvHoldsAtFirst, LoopInvHoldsAtFirst
<1>2. TestsInv /\ LoopInv /\ [PipelineNext]_pipelineVars => TestsInv' /\ LoopInv'
  BY PipelineStepIsAScriptStep, StepsKeepTests, StepsKeepTheLoop
<1>3. LoopInv => EachSeesTheList
  BY LoopInvIsEnough
<1> QED
  BY <1>1, <1>2, <1>3, PTL DEF PipelineSpec

-----------------------------------------------------------------------------
(* What a script wrote last. *)

Ops == [op : {"nothing", "set", "added", "removed"},
        value : HeaderValues \cup VarValues \cup {<<>>}]

OfKey(l, k) == {h \in Has(l) : KeyOf[h.name] = k}

\* Where the script's last write of a text, a key or a variable is found.
TextsHold ==
    /\ DOMAIN texts = Texts
    /\ \A t \in Texts : wrote.text[t].op = "set" => texts[t] = wrote.text[t].value

HeadersHold ==
    /\ \A h \in Has(list) : h.name \in HeaderNames
    /\ \A k \in Keys :
        /\ wrote.header[k].op = "set" =>
              \E n \in HeaderNames : OfKey(list, k) = {Header(n, wrote.header[k].value)}
        /\ wrote.header[k].op = "removed" => OfKey(list, k) = {}

VariablesHold ==
    /\ \A n \in VarNames :
          wrote.var[n].op = "set" => n \in DOMAIN bag /\ bag[n] = wrote.var[n].value
    /\ DOMAIN changed = {n \in VarNames : wrote.var[n].op = "set"}

WritesInv ==
    /\ wrote \in [text : [Texts -> Ops], header : [Keys -> Ops], var : [VarNames -> Ops]]
    /\ TextsHold /\ HeadersHold /\ VariablesHold

LEMMA WriteTextKeepsWrites ==
    ASSUME WritesInv, NEW t \in Texts, NEW v \in HeaderValues, WriteText(t, v)
    PROVE  WritesInv'
<1>1. /\ texts' = [texts EXCEPT ![t] = v] /\ wrote' = [wrote EXCEPT !.text[t] = Wrote("set", v)]
      /\ list' = list /\ bag' = bag /\ changed' = changed
  BY DEF WriteText
<1>2. Wrote("set", v) \in Ops /\ Wrote("set", v).op = "set" /\ Wrote("set", v).value = v
  BY DEF Wrote, Ops
<1>3. /\ wrote' \in [text : [Texts -> Ops], header : [Keys -> Ops], var : [VarNames -> Ops]]
      /\ wrote'.header = wrote.header /\ wrote'.var = wrote.var
      /\ \A s \in Texts : wrote'.text[s] = IF s = t THEN Wrote("set", v) ELSE wrote.text[s]
  BY <1>1, <1>2 DEF WritesInv
<1>4. TextsHold'
  BY <1>1, <1>2, <1>3 DEF WritesInv, TextsHold
<1>5. HeadersHold' /\ VariablesHold'
  BY <1>1, <1>3 DEF WritesInv, HeadersHold, VariablesHold, OfKey, Has
<1> QED
  BY <1>3, <1>4, <1>5 DEF WritesInv

\* A write of header key k: what it leaves of the other keys is what there was.
LEMMA WritingKeyKeepsWrites ==
    ASSUME WritesInv, NEW k \in Keys, NEW op \in Ops,
           wrote' = [wrote EXCEPT !.header[k] = op],
           texts' = texts, bag' = bag, changed' = changed,
           \A h \in Has(list') : h.name \in HeaderNames,
           \A m \in Keys \ {k} : OfKey(list', m) = OfKey(list, m),
           op.op = "set" => \E n \in HeaderNames : OfKey(list', k) = {Header(n, op.value)},
           op.op = "removed" => OfKey(list', k) = {}
    PROVE  WritesInv'
<1>1. /\ wrote' \in [text : [Texts -> Ops], header : [Keys -> Ops], var : [VarNames -> Ops]]
      /\ wrote'.text = wrote.text /\ wrote'.var = wrote.var
      /\ \A m \in Keys : wrote'.header[m] = IF m = k THEN op ELSE wrote.header[m]
  BY DEF WritesInv
<1>2. TextsHold' /\ VariablesHold'
  BY <1>1 DEF WritesInv, TextsHold, VariablesHold
<1>3. ASSUME NEW m \in Keys
      PROVE  /\ wrote'.header[m].op = "set" =>
                   \E n \in HeaderNames : OfKey(list', m) = {Header(n, wrote'.header[m].value)}
             /\ wrote'.header[m].op = "removed" => OfKey(list', m) = {}
  BY <1>1 DEF WritesInv, HeadersHold
<1>4. HeadersHold'
  BY <1>3 DEF HeadersHold
<1> QED
  BY <1>1, <1>2, <1>4 DEF WritesInv

LEMMA HeaderStepsKeepWrites ==
    ASSUME WritesInv, LoopInv, NEW n \in HeaderNames, NEW v \in HeaderValues,
           AddHeader(n, v) \/ UpsertHeader(n, v)
    PROVE  WritesInv'
<1> DEFINE k == KeyOf[n]  h0 == Header(n, v)  l == RemovedKey(list, k)
<1>1. k \in Keys /\ h0 \in Slot /\ h0.name = n
  BY HeadersAreSlots DEF Keys, Header
<1>2. list \in Lists /\ \A h \in Has(list) : h.name \in HeaderNames
  BY DEF LoopInv, WritesInv, HeadersHold
<1>3. l \in Lists /\ Has(l) = {h \in Has(list) : KeyOf[h.name] # k}
  BY <1>2, RemovedKeyRemoves
<1>4. OnHeaders => texts' = texts /\ bag' = bag /\ changed' = changed
  BY DEF OnHeaders
<1>5. /\ Wrote("added", v) \in Ops /\ Wrote("added", v).op = "added"
      /\ Wrote("set", v) \in Ops /\ Wrote("set", v).op = "set" /\ Wrote("set", v).value = v
  BY DEF Wrote, Ops
<1> HIDE DEF h0, l, k
<1>6. CASE AddHeader(n, v)
  <2>1. /\ list' = Appended(list, h0) /\ wrote' = [wrote EXCEPT !.header[k] = Wrote("added", v)]
        /\ OnHeaders
    BY <1>6 DEF AddHeader, h0, k
  <2>2. Has(list') = Has(list) \cup {h0}
    BY <1>1, <1>2, <2>1, AppendedAppends
  <2>3. \A h \in Has(list') : h.name \in HeaderNames
    BY <1>1, <1>2, <2>2
  <2>4. \A m \in Keys \ {k} : OfKey(list', m) = OfKey(list, m)
    BY <1>1, <2>2 DEF OfKey, k
  <2> QED
    BY <1>1, <1>4, <1>5, <2>1, <2>3, <2>4, WritingKeyKeepsWrites
<1>7. CASE UpsertHeader(n, v)
  <2>1. /\ list' = Appended(l, h0) /\ wrote' = [wrote EXCEPT !.header[k] = Wrote("set", v)]
        /\ OnHeaders
    BY <1>7 DEF UpsertHeader, h0, k, l
  <2>2. Has(list') = {h \in Has(list) : KeyOf[h.name] # k} \cup {h0}
    BY <1>1, <1>3, <2>1, AppendedAppends
  <2>3. \A h \in Has(list') : h.name \in HeaderNames
    BY <1>1, <1>2, <2>2
  <2>4. \A m \in Keys \ {k} : OfKey(list', m) = OfKey(list, m)
    BY <1>1, <2>2 DEF OfKey, k
  <2>5. OfKey(list', k) = {Header(n, v)}
    BY <1>1, <2>2 DEF OfKey, k, h0
  <2> QED
    BY <1>1, <1>4, <1>5, <2>1, <2>3, <2>4, <2>5, WritingKeyKeepsWrites
<1> QED
  BY <1>6, <1>7

LEMMA RemoveHeaderKeepsWrites ==
    ASSUME WritesInv, LoopInv, NEW k \in Keys, RemoveHeader(k)
    PROVE  WritesInv'
<1>1. /\ list' = RemovedKey(list, k) /\ wrote' = [wrote EXCEPT !.header[k] = Wrote("removed", <<>>)]
      /\ texts' = texts /\ bag' = bag /\ changed' = changed
  BY DEF RemoveHeader, OnHeaders
<1>2. Has(list') = {h \in Has(list) : KeyOf[h.name] # k}
  BY <1>1, RemovedKeyRemoves DEF LoopInv
<1>3. \A h \in Has(list') : h.name \in HeaderNames
  BY <1>2 DEF WritesInv, HeadersHold
<1>4. /\ \A m \in Keys \ {k} : OfKey(list', m) = OfKey(list, m)
      /\ OfKey(list', k) = {}
  BY <1>2 DEF OfKey
<1>5. Wrote("removed", <<>>) \in Ops /\ Wrote("removed", <<>>).op = "removed"
  BY DEF Wrote, Ops
<1> QED
  BY <1>1, <1>3, <1>4, <1>5, WritingKeyKeepsWrites

LEMMA VariableStepsKeepWrites ==
    ASSUME WritesInv, NEW n \in VarNames, UnsetVar(n) \/ \E v \in VarValues : SetVar(n, v)
    PROVE  WritesInv'
<1>1. texts' = texts /\ list' = list
  BY DEF UnsetVar, SetVar, OnVariables
<1>2. ASSUME NEW op \in Ops, wrote' = [wrote EXCEPT !.var[n] = op]
      PROVE  /\ wrote' \in [text : [Texts -> Ops], header : [Keys -> Ops],
                            var : [VarNames -> Ops]]
             /\ TextsHold' /\ HeadersHold'
             /\ \A m \in VarNames : wrote'.var[m] = IF m = n THEN op ELSE wrote.var[m]
  <2>1. /\ wrote' \in [text : [Texts -> Ops], header : [Keys -> Ops], var : [VarNames -> Ops]]
        /\ wrote'.text = wrote.text /\ wrote'.header = wrote.header
        /\ \A m \in VarNames : wrote'.var[m] = IF m = n THEN op ELSE wrote.var[m]
    BY <1>2 DEF WritesInv
  <2>2. TextsHold'
    BY <1>1, <2>1 DEF WritesInv, TextsHold
  <2>3. HeadersHold'
    BY <1>1, <2>1 DEF WritesInv, HeadersHold
  <2> QED
    BY <2>1, <2>2, <2>3
<1>3. CASE UnsetVar(n)
  <2>1. /\ bag' = Unassigned(bag, n) /\ changed' = Unassigned(changed, n)
        /\ wrote' = [wrote EXCEPT !.var[n] = Wrote("removed", <<>>)]
    BY <1>3 DEF UnsetVar
  <2>2. Wrote("removed", <<>>) \in Ops /\ Wrote("removed", <<>>).op # "set"
    BY DEF Wrote, Ops
  <2>3. \A m \in VarNames : wrote'.var[m] = IF m = n THEN Wrote("removed", <<>>) ELSE wrote.var[m]
    BY <1>2, <2>1, <2>2
  <2>4. VariablesHold'
    BY <2>1, <2>2, <2>3 DEF WritesInv, VariablesHold, Unassigned
  <2> QED
    BY <1>2, <2>1, <2>2, <2>4 DEF WritesInv
<1>4. ASSUME NEW v \in VarValues, SetVar(n, v) PROVE WritesInv'
  <2>1. /\ bag' = Assigned(bag, n, v) /\ changed' = Assigned(changed, n, v)
        /\ wrote' = [wrote EXCEPT !.var[n] = Wrote("set", v)]
    BY <1>4 DEF SetVar
  <2>2. Wrote("set", v) \in Ops /\ Wrote("set", v).op = "set" /\ Wrote("set", v).value = v
    BY DEF Wrote, Ops
  <2>3. \A m \in VarNames : wrote'.var[m] = IF m = n THEN Wrote("set", v) ELSE wrote.var[m]
    BY <1>2, <2>1, <2>2
  <2>4. VariablesHold'
    BY <2>1, <2>2, <2>3 DEF WritesInv, VariablesHold, Assigned
  <2> QED
    BY <1>2, <2>1, <2>2, <2>4 DEF WritesInv
<1> QED
  BY <1>3, <1>4

LEMMA WritesInvHoldsAtFirst ==
    ASSUME PipelineInit
    PROVE  WritesInv
<1>1. /\ request \in Requests /\ texts = [t \in Texts |-> request[t]]
      /\ list = NewList(request.headers) /\ changed = [n \in {} |-> <<>>]
      /\ wrote = [text |-> [t \in Texts |-> Nothing], header |-> [k \in Keys |-> Nothing],
                  var |-> [n \in VarNames |-> Nothing]]
  BY DEF PipelineInit, ScriptInit
<1>2. Nothing \in Ops /\ Nothing.op = "nothing"
  BY DEF Nothing, Wrote, Ops
<1>3. Has(list) \subseteq ToSet(request.headers)
  <2>1. request.headers \in Seq(ToSet(request.headers))
    BY <1>1, RequestsAssumption DEF IsSequence
  <2>2. DOMAIN request.headers = 1 .. Len(request.headers)
    BY <2>1, LenProperties
  <2>3. list.arr = request.headers /\ list.len = Len(request.headers)
    BY <1>1 DEF NewList
  <2> QED
    BY <2>2, <2>3 DEF Has, ToSet
<1>4. \A h \in Has(list) : h.name \in HeaderNames
  BY <1>1, <1>3, RequestsAssumption
<1>5. wrote \in [text : [Texts -> Ops], header : [Keys -> Ops], var : [VarNames -> Ops]]
  BY <1>1, <1>2
<1>6. TextsHold /\ HeadersHold /\ VariablesHold
  BY <1>1, <1>2, <1>4 DEF TextsHold, HeadersHold, VariablesHold
<1> QED
  BY <1>5, <1>6 DEF WritesInv

LEMMA StepsKeepWrites ==
    ASSUME WritesInv, LoopInv, ScriptStep
    PROVE  WritesInv'
<1>1. ASSUME texts' = texts, list' = list, bag' = bag, changed' = changed, wrote' = wrote
      PROVE  WritesInv'
  BY <1>1 DEF WritesInv, TextsHold, HeadersHold, VariablesHold, OfKey, Has
<1>2. ASSUME NEW v \in HeaderValues, WriteURL(v) \/ WriteBody(v) PROVE WritesInv'
  BY <1>2, WriteTextKeepsWrites DEF WriteURL, WriteBody, Texts
<1>3. ASSUME NEW n \in HeaderNames, NEW v \in HeaderValues, AddHeader(n, v) \/ UpsertHeader(n, v)
      PROVE  WritesInv'
  BY <1>3, HeaderStepsKeepWrites
<1>4. ASSUME NEW k \in Keys, RemoveHeader(k) PROVE WritesInv'
  BY <1>4, RemoveHeaderKeepsWrites
<1>5. CASE EachStart \/ EachNext \/ EachEnd
  BY <1>1, <1>5 DEF EachStart, EachNext, EachEnd, OnLoop
<1>6. ASSUME NEW n \in VarNames, UnsetVar(n) \/ \E v \in VarValues : SetVar(n, v)
      PROVE  WritesInv'
  BY <1>6, VariableStepsKeepWrites
<1>7. ASSUME \/ \E passed \in BOOLEAN : Report(passed)
             \/ TestBegin \/ TestReturns \/ TestThrows
      PROVE  WritesInv'
  BY <1>1, <1>7 DEF Report, TestBegin, TestReturns, TestThrows, OnTests
<1>8. CASE ScriptReturns \/ ScriptFails
  BY <1>1, <1>8 DEF ScriptReturns, ScriptFails
<1>9. ASSUME NEW phase, ScriptStarts(phase) PROVE WritesInv'
  BY <1>1, <1>9 DEF ScriptStarts
<1>10. CASE UNCHANGED scriptVars
  BY <1>1, <1>10 DEF scriptVars
<1> QED
  BY <1>2, <1>3, <1>4, <1>5, <1>6, <1>7, <1>8, <1>9, <1>10 DEF ScriptStep, Statement

-----------------------------------------------------------------------------
(* From the script's writes to what is sent. *)

\* What the handler has taken over from the script (or, without one, as it came): the
\* fields, the variables, and a body that it must send.
Applied ==
    /\ template = FieldsOf(texts, request.query, HeaderMap(list))
    /\ \A n \in DOMAIN bag : n \in DOMAIN values /\ values[n] = bag[n]
    /\ wrote.text["body"].op = "set" /\ texts["body"] # <<>> => request.type # "none"

RequestFields ==
    {"url", "query", "body", "headers", "type", "vars", "secrets", "pre", "test"}

AppliedInv ==
    /\ DOMAIN request = RequestFields
    /\ pc = "start" => wrote.text["body"].op = "nothing"
    /\ pc \in {"start", "resolve", "sent"} => Applied
    /\ pc = "sent" => NextFields \cup BodyFields = {} /\ wire \in Wires

\* The variables that Applied speaks of, but for the handler's place.
appliedVars == <<texts, list, bag, wrote, request, values, template>>

LEMMA AppliedStays ==
    ASSUME UNCHANGED appliedVars
    PROVE  Applied' <=> Applied
  BY DEF appliedVars, Applied

LEMMA AppliedInvHoldsAtFirst ==
    ASSUME PipelineInit
    PROVE  AppliedInv
<1>1. /\ pc = "start" /\ request \in Requests /\ values = request.vars /\ bag = request.vars
      /\ texts = [t \in Texts |-> request[t]] /\ list = NewList(request.headers)
      /\ template = FieldsOf(request, request.query, HeaderMap(NewList(request.headers)))
      /\ wrote.text = [t \in Texts |-> Nothing]
  BY DEF PipelineInit, ScriptInit
<1>2. DOMAIN request = RequestFields
  BY <1>1, RequestsAssumption DEF RequestFields
<1>3. wrote.text["body"].op = "nothing"
  BY <1>1 DEF Texts, Nothing, Wrote
<1>4. texts["url"] = request["url"] /\ texts["body"] = request["body"]
  BY <1>1 DEF Texts
<1>5. FieldsOf(texts, request.query, HeaderMap(list)) =
          FieldsOf(request, request.query, HeaderMap(list))
  <2> DEFINE hs == HeaderMap(list)  F == {"url", "query", "body"} \cup DOMAIN hs
  <2> HIDE DEF hs
  <2>1. ASSUME NEW f \in F
        PROVE  (CASE f \in DOMAIN hs -> hs[f] [] f = "query" -> request.query [] OTHER -> texts[f])
               = (CASE f \in DOMAIN hs -> hs[f] [] f = "query" -> request.query
                    [] OTHER -> request[f])
    <3>1. CASE f \in DOMAIN hs \/ f = "query"
      BY <3>1
    <3>2. CASE f = "url" \/ f = "body"
      BY <1>4, <3>2
    <3> QED
      BY <3>1, <3>2
  <2>2. [f \in F |-> CASE f \in DOMAIN hs -> hs[f] [] f = "query" -> request.query
                       [] OTHER -> texts[f]]
        = [f \in F |-> CASE f \in DOMAIN hs -> hs[f] [] f = "query" -> request.query
                         [] OTHER -> request[f]]
    BY <2>1
  <2> QED
    BY <2>2 DEF FieldsOf, hs
<1> QED
  BY <1>1, <1>2, <1>3, <1>5 DEF AppliedInv, Applied

LEMMA PreReturnsApplies ==
    ASSUME AppliedInv, WritesInv, PreReturns
    PROVE  AppliedInv'
<1>1. /\ pc' = "resolve" /\ request' = [request EXCEPT !.type = BodyType(@, texts["body"])]
      /\ template' = FieldsOf(texts, request.query, HeaderMap(list))
      /\ values' = [n \in DOMAIN bag \cup DOMAIN values |->
                      IF n \in DOMAIN bag THEN bag[n] ELSE values[n]]
      /\ texts' = texts /\ list' = list /\ bag' = bag /\ wrote' = wrote
  BY DEF PreReturns, ScriptReturns
<1>2. /\ DOMAIN request' = RequestFields /\ request'.query = request.query
      /\ request'.type = BodyType(request.type, texts["body"])
  BY <1>1 DEF AppliedInv, RequestFields
<1>3. texts["body"] # <<>> => request'.type # "none"
  BY <1>2 DEF BodyType
<1>4. \A n \in DOMAIN bag' : n \in DOMAIN values' /\ values'[n] = bag'[n]
  BY <1>1
<1>5. Applied'
  BY <1>1, <1>2, <1>3, <1>4 DEF Applied
<1> QED
  BY <1>1, <1>2, <1>5 DEF AppliedInv

LEMMA StepsKeepApplied ==
    ASSUME AppliedInv, WritesInv, [PipelineNext]_pipelineVars
    PROVE  AppliedInv'
<1>1. ASSUME UNCHANGED appliedVars, pc' \in {"start", "resolve"} => pc' = pc, pc' # "sent"
      PROVE  AppliedInv'
  BY <1>1, AppliedStays DEF AppliedInv, appliedVars
<1>2. ASSUME UNCHANGED <<appliedVars, pc, out, wire>> PROVE AppliedInv'
  <2>1. UNCHANGED appliedVars /\ pc' = pc /\ out' = out /\ wire' = wire
    BY <1>2
  <2>2. NextFields' = NextFields /\ BodyFields' = BodyFields /\ Wires' = Wires
    BY <2>1 DEF appliedVars, NextFields, BodyFields, HeaderFields, Todo, Wires, HeadersSet, JsonBody,
                 NoContentType
  <2> QED
    BY <2>1, <2>2, AppliedStays DEF AppliedInv, appliedVars
<1>3. CASE UNCHANGED pipelineVars
  BY <1>2, <1>3 DEF pipelineVars, scriptVars, dataVars, appliedVars
<1>4. ASSUME NEW n \in SecretNames, DeleteSecret(n) \/ \E v \in SecretValues : PutSecret(n, v)
      PROVE  AppliedInv'
  BY <1>2, <1>4 DEF DeleteSecret, PutSecret, scriptVars, appliedVars
<1>5. CASE Start
  <2>1. CASE pc' = "pre"
    <3>1. DOMAIN request' = RequestFields
      BY <1>5 DEF Start, dataVars, AppliedInv
    <3> QED
      BY <2>1, <3>1 DEF AppliedInv
  <2>2. CASE pc' = "resolve"
    <3>1. pc = "start" /\ UNCHANGED appliedVars
      BY <1>5, <2>2 DEF Start, ScriptStarts, dataVars, scriptVars, appliedVars
    <3> QED
      BY <2>2, <3>1, AppliedStays DEF AppliedInv, appliedVars
  <2> QED
    BY <1>5, <2>1, <2>2 DEF Start
<1>6. CASE RunScript \/ PreFails \/ TestEnds
  <2>1. request' = request /\ pc' \notin {"start", "resolve", "sent"}
    BY <1>6 DEF RunScript, PreFails, TestEnds, dataVars
  <2> QED
    BY <2>1 DEF AppliedInv
<1>7. CASE PreReturns
  BY <1>7, PreReturnsApplies
<1>8. ASSUME \/ \E f \in DOMAIN template : BeginField(f)
             \/ ResolveSymbol \/ EndField
      PROVE  AppliedInv'
  BY <1>1, <1>8 DEF BeginField, ResolveSymbol, EndField, scriptVars, appliedVars
<1>9. CASE Refuse \/ MintTicket \/ Answered \/ CallFails \/ StartTest
  <2>1. request' = request /\ pc' \notin {"start", "resolve", "sent"}
    BY <1>9 DEF Refuse, MintTicket, Answered, CallFails, StartTest, dataVars
  <2> QED
    BY <2>1 DEF AppliedInv
<1>10. CASE Send
  <2>1. pc = "resolve" /\ pc' = "sent" /\ UNCHANGED appliedVars /\ out' = out
    BY <1>10 DEF Send, Resolved, scriptVars, appliedVars
  <2>2. NextFields \cup BodyFields = {} /\ wire' \in Wires
    BY <1>10 DEF Send, Resolved
  <2>3. NextFields' = NextFields /\ BodyFields' = BodyFields /\ Wires' = Wires
    BY <2>1 DEF appliedVars, NextFields, BodyFields, HeaderFields, Todo, Wires, HeadersSet, JsonBody,
                 NoContentType
  <2> QED
    BY <2>1, <2>2, <2>3, AppliedStays DEF AppliedInv, appliedVars
<1> QED
  BY <1>3, <1>4, <1>5, <1>6, <1>7, <1>8, <1>9, <1>10 DEF PipelineNext

\* Of the places of a list where something is found, one is the last.
LEMMA LastPlace ==
    ASSUME NEW n \in Nat, NEW S \in SUBSET (1 .. n), S # {}
    PROVE  \E i \in S : \A k \in i + 1 .. n : k \notin S
<1> DEFINE D == {m \in Nat : \E i \in S : m = n - i}
<1>1. D \subseteq Nat /\ D # {}
  <2>1. PICK i \in S : TRUE
    OBVIOUS
  <2>2. n - i \in D
    BY <2>1
  <2> QED
    BY <2>2
<1>2. \E m \in D : \A k \in D : <<k, m>> \notin OpToRel(<, Nat)
  BY <1>1, NatLessThanWellFounded, WFMin
<1>3. PICK m \in D : \A k \in D : ~ (k < m)
  BY <1>2 DEF OpToRel
<1>4. PICK i \in S : m = n - i
  BY <1>3
<1>5. ASSUME NEW k \in i + 1 .. n, k \in S PROVE FALSE
  <2>1. n - k \in D /\ n - k < m
    BY <1>4, <1>5
  <2> QED
    BY <1>3, <2>1
<1> QED
  BY <1>4, <1>5

\* HeaderMap gives each name that the list has the value of one of its headers.
LEMMA HeaderMapIsOfTheList ==
    ASSUME NEW l \in Lists
    PROVE  /\ DOMAIN HeaderMap(l) = {h.name : h \in Has(l)}
           /\ \A n \in DOMAIN HeaderMap(l) :
                 \E h \in Has(l) : h.name = n /\ HeaderMap(l)[n] = h.value
<1>1. DOMAIN HeaderMap(l) = {h.name : h \in Has(l)}
  BY DEF HeaderMap, Has
<1>2. ASSUME NEW n \in DOMAIN HeaderMap(l)
      PROVE  \E h \in Has(l) : h.name = n /\ HeaderMap(l)[n] = h.value
  <2> DEFINE S == {i \in 1 .. l.len : l.arr[i].name = n}
             P(i) == l.arr[i].name = n /\ \A k \in i + 1 .. l.len : l.arr[k].name # n
             last == CHOOSE i \in 1 .. l.len : P(i)
  <2>1. S # {} /\ l.len \in Nat
    BY <1>2, ListTypes DEF HeaderMap
  <2>2. PICK i \in S : \A k \in i + 1 .. l.len : k \notin S
    <3>1. S \in SUBSET (1 .. l.len)
      OBVIOUS
    <3> HIDE DEF S
    <3> QED
      BY <2>1, <3>1, LastPlace
  <2>3. i \in 1 .. l.len /\ P(i)
    <3>1. \A k \in i + 1 .. l.len : k \in 1 .. l.len
      BY <2>1, <2>2
    <3> QED
      BY <2>2, <3>1
  <2>4. last \in 1 .. l.len /\ P(last)
    BY <2>3
  <2>5. HeaderMap(l)[n] = l.arr[last].value
    BY <1>2 DEF HeaderMap
  <2> HIDE DEF last
  <2> QED
    BY <2>4, <2>5 DEF Has
<1> QED
  BY <1>1, <1>2

LEMMA FieldsAreWhatTheyAreOf ==
    ASSUME NEW l \in Lists, \A h \in Has(l) : h.name \in HeaderNames, NEW text, NEW query
    PROVE  LET fields == FieldsOf(text, query, HeaderMap(l))
           IN  /\ DOMAIN fields = {"url", "query", "body"} \cup DOMAIN HeaderMap(l)
               /\ DOMAIN HeaderMap(l) \cap {"url", "query", "body"} = {}
               /\ \A t \in Texts : fields[t] = text[t]
               /\ \A n \in DOMAIN HeaderMap(l) : fields[n] = HeaderMap(l)[n]
<1>1. DOMAIN HeaderMap(l) \cap {"url", "query", "body"} = {}
  <2>1. DOMAIN HeaderMap(l) = {h.name : h \in Has(l)}
    BY HeaderMapIsOfTheList
  <2> QED
    BY <2>1, FieldsAssumption
<1> DEFINE hs == HeaderMap(l)
<1> HIDE DEF hs
<1>2. DOMAIN hs \cap {"url", "query", "body"} = {}
  BY <1>1 DEF hs
<1>3. DOMAIN FieldsOf(text, query, hs) = {"url", "query", "body"} \cup DOMAIN hs
  BY DEF FieldsOf
<1>4. FieldsOf(text, query, hs)["url"] = text["url"] /\ FieldsOf(text, query, hs)["body"] = text["body"]
  BY <1>2 DEF FieldsOf
<1>5. \A n \in DOMAIN hs : FieldsOf(text, query, hs)[n] = hs[n]
  BY <1>2 DEF FieldsOf
<1> QED
  BY <1>2, <1>3, <1>4, <1>5 DEF hs, Texts

LEMMA WhatIsSentWasWritten ==
    ASSUME AppliedInv, WritesInv, LoopInv
    PROVE  LastWriteIsSent
<1> SUFFICES ASSUME pc = "sent"
             PROVE  /\ \A t \in Texts : wrote.text[t].op = "set" =>
                          /\ template[t] = wrote.text[t].value
                          /\ t \in DOMAIN out \/ template[t] = <<>>
                    /\ \A k \in Keys :
                        /\ wrote.header[k].op = "set" =>
                              \E n \in HeaderFields :
                                 /\ KeyOf[n] = k /\ template[n] = wrote.header[k].value
                                 /\ k \in DOMAIN wire
                                 /\ wire[k] = IF Defaults(k) /\ out[n] = <<>> THEN "json" ELSE n
                        /\ wrote.header[k].op = "removed" =>
                              IF Defaults(k) THEN k \in DOMAIN wire /\ wire[k] = "json"
                              ELSE k \notin DOMAIN wire
                    /\ \A n \in VarNames :
                          wrote.var[n].op = "set" => values[n] = wrote.var[n].value
                    /\ DOMAIN changed = {n \in VarNames : wrote.var[n].op = "set"}
  BY DEF LastWriteIsSent
<1> DEFINE hs == HeaderMap(list)
<1>1. Applied /\ NextFields \cup BodyFields = {} /\ wire \in Wires /\ list \in Lists
  BY DEF AppliedInv, LoopInv
<1>2. \A h \in Has(list) : h.name \in HeaderNames
  BY DEF WritesInv, HeadersHold
<1>3. /\ DOMAIN template = {"url", "query", "body"} \cup DOMAIN hs
      /\ DOMAIN hs \cap {"url", "query", "body"} = {}
      /\ \A t \in Texts : template[t] = texts[t]
      /\ \A n \in DOMAIN hs : template[n] = hs[n]
  <2>1. template = FieldsOf(texts, request.query, HeaderMap(list))
    BY <1>1 DEF Applied
  <2>2. LET fields == FieldsOf(texts, request.query, HeaderMap(list))
        IN  /\ DOMAIN fields = {"url", "query", "body"} \cup DOMAIN HeaderMap(list)
            /\ DOMAIN HeaderMap(list) \cap {"url", "query", "body"} = {}
            /\ \A t \in Texts : fields[t] = texts[t]
            /\ \A n \in DOMAIN HeaderMap(list) : fields[n] = HeaderMap(list)[n]
    BY <1>1, <1>2, FieldsAreWhatTheyAreOf
  <2> QED
    BY <2>1, <2>2
<1>4. /\ DOMAIN hs = {h.name : h \in Has(list)}
      /\ \A n \in DOMAIN hs : \E h \in Has(list) : h.name = n /\ hs[n] = h.value
  BY <1>1, HeaderMapIsOfTheList
<1> HIDE DEF hs
<1>5. HeaderFields = DOMAIN hs
  BY <1>3 DEF HeaderFields
<1>6. PICK w \in HeadersSet :
        wire = IF JsonBody /\ NoContentType(w) THEN Assigned(w, ContentType, "json") ELSE w
  BY <1>1 DEF Wires
<1>12. DOMAIN w = {KeyOf[n] : n \in DOMAIN hs}
       /\ \A k \in DOMAIN w : w[k] \in DOMAIN hs /\ KeyOf[w[k]] = k
  BY <1>5, <1>6 DEF HeadersSet
<1>7. ASSUME NEW t \in Texts, wrote.text[t].op = "set"
      PROVE  template[t] = wrote.text[t].value /\ (t \in DOMAIN out \/ template[t] = <<>>)
  <2>1. template[t] = texts[t] /\ texts[t] = wrote.text[t].value
    BY <1>3, <1>7 DEF WritesInv, TextsHold
  <2>2. "url" \in DOMAIN out
    BY <1>1 DEF NextFields, Todo
  <2>3. "body" \in DOMAIN out \/ request.type = "none"
    BY <1>1 DEF BodyFields, Todo
  <2>4. CASE t = "url"
    BY <2>1, <2>2, <2>4
  <2>5. CASE t = "body"
    BY <1>1, <1>7, <2>1, <2>3, <2>5 DEF Applied
  <2> QED
    BY <2>4, <2>5 DEF Texts
<1>8. ASSUME NEW k \in Keys, wrote.header[k].op = "set"
      PROVE  \E n \in HeaderFields :
                /\ KeyOf[n] = k /\ template[n] = wrote.header[k].value
                /\ k \in DOMAIN wire
                /\ wire[k] = IF Defaults(k) /\ out[n] = <<>> THEN "json" ELSE n
  <2>1. PICK n \in HeaderNames : OfKey(list, k) = {Header(n, wrote.header[k].value)}
    BY <1>8 DEF WritesInv, HeadersHold
  <2> DEFINE h == Header(n, wrote.header[k].value)
  <2>2. h \in Has(list) /\ KeyOf[h.name] = k /\ h.value = wrote.header[k].value
    BY <2>1 DEF OfKey, Header
  <2>3. k \in DOMAIN w
    BY <1>4, <1>12, <2>2
  <2>4. PICK g \in Has(list) : g.name = w[k] /\ hs[w[k]] = g.value
    BY <1>4, <1>12, <2>3
  <2>5. g = h
    BY <1>12, <2>1, <2>3, <2>4 DEF OfKey
  <2>6. /\ w[k] \in HeaderFields /\ KeyOf[w[k]] = k
        /\ template[w[k]] = wrote.header[k].value
    BY <1>3, <1>5, <1>12, <2>2, <2>3, <2>4, <2>5
  <2>7. k \in DOMAIN wire
        /\ wire[k] = IF Defaults(k) /\ out[w[k]] = <<>> THEN "json" ELSE w[k]
    <3>1. CASE JsonBody /\ NoContentType(w)
      <4>1. wire = Assigned(w, ContentType, "json")
        BY <1>6, <3>1
      <4>2. k \in DOMAIN wire /\ wire[k] = IF k = ContentType THEN "json" ELSE w[k]
        BY <2>3, <4>1 DEF Assigned
      <4>3. k = ContentType => out[w[k]] = <<>>
        BY <2>3, <3>1 DEF NoContentType
      <4> QED
        BY <3>1, <4>2, <4>3 DEF Defaults
    <3>2. CASE ~ (JsonBody /\ NoContentType(w))
      <4>1. wire = w
        BY <1>6, <3>2
      <4>2. ~ (Defaults(k) /\ out[w[k]] = <<>>)
        BY <2>3, <3>2 DEF Defaults, NoContentType
      <4> QED
        BY <2>3, <4>1, <4>2
    <3> QED
      BY <3>1, <3>2
  <2> QED
    BY <2>6, <2>7
<1>9. ASSUME NEW k \in Keys, wrote.header[k].op = "removed"
      PROVE  IF Defaults(k) THEN k \in DOMAIN wire /\ wire[k] = "json" ELSE k \notin DOMAIN wire
  <2>1. OfKey(list, k) = {}
    BY <1>9 DEF WritesInv, HeadersHold
  <2>2. k \notin DOMAIN w
    <3>1. ASSUME k \in DOMAIN w PROVE \E h \in Has(list) : KeyOf[h.name] = k
      BY <1>4, <1>12, <3>1
    <3> QED
      BY <2>1, <3>1 DEF OfKey
  <2>3. CASE Defaults(k)
    <3>1. JsonBody /\ NoContentType(w) /\ k = ContentType
      BY <2>2, <2>3 DEF Defaults, NoContentType
    <3>2. wire = Assigned(w, k, "json")
      BY <1>6, <3>1
    <3> QED
      BY <2>3, <3>2 DEF Assigned
  <2>4. CASE ~ Defaults(k)
    <3>1. (wire = Assigned(w, ContentType, "json") /\ JsonBody) \/ wire = w
      BY <1>6
    <3>2. k \notin DOMAIN wire
      BY <2>2, <2>4, <3>1 DEF Assigned, Defaults
    <3> QED
      BY <2>4, <3>2
  <2> QED
    BY <2>3, <2>4
<1>10. ASSUME NEW n \in VarNames, wrote.var[n].op = "set" PROVE values[n] = wrote.var[n].value
  BY <1>1, <1>10 DEF Applied, WritesInv, VariablesHold
<1>11. DOMAIN changed = {n \in VarNames : wrote.var[n].op = "set"}
  BY DEF WritesInv, VariablesHold
<1> QED
  BY <1>7, <1>8, <1>9, <1>10, <1>11

\* What the script wrote last is what is sent: a text it wrote; under a key it set,
\* that value and no other spelling's; nothing under a key it removed; and a variable
\* it set is resolved to that value; but the Content-Type of a JSON body, when it is
\* removed or empty, is application/json (script/context.go, applying it in execute.go,
\* and the headers of executor/http.go).
THEOREM PipelineLastWriteIsSent == PipelineSpec => []LastWriteIsSent
<1> DEFINE Inv == TestsInv /\ LoopInv /\ WritesInv /\ AppliedInv
<1>1. PipelineInit => Inv
  BY TestsInvHoldsAtFirst, LoopInvHoldsAtFirst, WritesInvHoldsAtFirst, AppliedInvHoldsAtFirst
<1>2. Inv /\ [PipelineNext]_pipelineVars => Inv'
  BY PipelineStepIsAScriptStep, StepsKeepTests, StepsKeepTheLoop, StepsKeepWrites,
     StepsKeepApplied
<1>3. Inv => LastWriteIsSent
  BY WhatIsSentWasWritten
<1> QED
  BY <1>1, <1>2, <1>3, PTL DEF PipelineSpec

-----------------------------------------------------------------------------
(* Occurrences of values in texts. *)

LEMMA SequenceTypes ==
    ASSUME NEW v, IsSequence(v)
    PROVE  Len(v) \in Nat /\ DOMAIN v = 1 .. Len(v) /\ (v # <<>> => Len(v) > 0)
<1>1. v \in Seq(ToSet(v))
  BY DEF IsSequence
<1> QED
  BY <1>1, LenProperties, EmptySeq

\* Two occurrences that share characters although neither holds the other.
LEMMA OverlapsHaveBorders ==
    ASSUME NEW T, NEW v, NEW w, IsSequence(v), IsSequence(w), NEW b \in Nat, NEW c \in Nat,
           OccursAt(T, v, b), OccursAt(T, w, c),
           b < c, c < b + Len(v), b + Len(v) < c + Len(w)
    PROVE  Borders(v, w)
<1> DEFINE k == b + Len(v) - c  s == SubSeq(w, 1, k)
           rs == Reverse(s)  rv == Reverse(v)
<1>1. /\ Len(v) \in Nat /\ DOMAIN v = 1 .. Len(v) /\ Len(w) \in Nat /\ DOMAIN w = 1 .. Len(w)
  BY SequenceTypes
<1>2. k \in 1 .. Len(v) - 1 /\ k < Len(w) /\ k \in Nat /\ c + k = b + Len(v)
  BY <1>1
<1> HIDE DEF k
<1>3. Len(s) = k /\ \A i \in 1 .. k : s[i] = w[i]
  <2>1. \A i \in 1 .. k : w[i] \in ToSet(w)
    BY <1>1, <1>2 DEF ToSet
  <2>2. Len(s) = (IF 1 <= k THEN k - 1 + 1 ELSE 0) /\ \A i \in 1 .. k - 1 + 1 : s[i] = w[1 + i - 1]
    BY <1>2, <2>1, SubSeqProperties
  <2> HIDE DEF s
  <2> QED
    BY <1>2, <2>2
<1> HIDE DEF s
<1>4. rs = [i \in 1 .. k |-> s[(k - i) + 1]] /\ rv = [i \in 1 .. Len(v) |-> v[(Len(v) - i) + 1]]
  BY <1>3 DEF Reverse
<1> HIDE DEF rs, rv
<1>5. ASSUME NEW i \in 1 .. k PROVE rs[i] = rv[i]
  <2>1. /\ (k - i) + 1 \in 1 .. k /\ (k - i) + 1 \in DOMAIN w
        /\ (Len(v) - i) + 1 \in DOMAIN v /\ i \in 1 .. Len(v)
        /\ c + ((k - i) + 1) - 1 = b + ((Len(v) - i) + 1) - 1
    BY <1>1, <1>2
  <2>2. rs[i] = w[(k - i) + 1] /\ rv[i] = v[(Len(v) - i) + 1]
    BY <1>3, <1>4, <2>1
  <2>3. /\ w[(k - i) + 1] = T[c + ((k - i) + 1) - 1].c
        /\ v[(Len(v) - i) + 1] = T[b + ((Len(v) - i) + 1) - 1].c
    BY <2>1 DEF OccursAt
  <2> QED
    BY <2>1, <2>2, <2>3
<1>6. Len(rs) = k /\ Len(rv) = Len(v)
  BY <1>1, <1>2, <1>4
<1>7. SubSeq(rs, 1, k) = SubSeq(rv, 1, k)
  <2> DEFINE S == {rv[i] : i \in 1 .. k}  a == SubSeq(rs, 1, k)  d == SubSeq(rv, 1, k)
  <2>1. \A i \in 1 .. k : rs[i] \in S /\ rv[i] \in S
    BY <1>5
  <2> HIDE DEF S
  <2>2. /\ a \in Seq(S) /\ Len(a) = (IF 1 <= k THEN k - 1 + 1 ELSE 0)
        /\ \A i \in 1 .. k - 1 + 1 : a[i] = rs[1 + i - 1]
    BY <1>2, <2>1, SubSeqProperties
  <2>3. /\ d \in Seq(S) /\ Len(d) = (IF 1 <= k THEN k - 1 + 1 ELSE 0)
        /\ \A i \in 1 .. k - 1 + 1 : d[i] = rv[1 + i - 1]
    BY <1>2, <2>1, SubSeqProperties
  <2> HIDE DEF a, d
  <2>4. Len(a) = Len(d) /\ \A i \in 1 .. Len(a) : a[i] = d[i]
    BY <1>2, <1>5, <2>2, <2>3
  <2>5. a = d
    BY <2>2, <2>3, <2>4, SeqEqual
  <2> QED
    BY <2>5 DEF a, d
<1>8. IsSuffix(s, v)
  BY <1>1, <1>2, <1>6, <1>7 DEF IsSuffix, IsPrefix, rs, rv
<1> QED
  BY <1>2, <1>8 DEF Borders, s

\* Position p of the text lies in an occurrence of v.
Covered(T, v, p) == \E b \in 1 .. p : p < b + Len(v) /\ OccursAt(T, v, b)

\* Occurrences of v and of w do not overlap, and v is not the longer one.
Apart(v, w) ==
    IsSequence(v) /\ Len(v) <= Len(w) /\ ~ Borders(v, w) /\ ~ Borders(w, v)

\* The search for w in T has come to n and made d of what is before n; pos gives the
\* position in T that each symbol of d is from, 0 for a mask.
Placed(T, n, d, pos) ==
    /\ pos \in [1 .. Len(d) -> 0 .. n - 1]
    /\ \A q \in 1 .. Len(d) :
        /\ pos[q] = 0 => d[q] = Stars
        /\ pos[q] # 0 =>
              d[q] = T[pos[q]] /\ Len(d) - q <= n - 1 - pos[q]

\* Nothing of w that was found is left, and the search is not within an occurrence.
Searched(T, w, n, d, pos) ==
    /\ \A q \in 1 .. Len(d) : pos[q] # 0 => ~ Covered(T, w, pos[q])
    /\ \A c \in 1 .. n - 1 : OccursAt(T, w, c) => c + Len(w) <= n
    /\ n > 1 =>
          /\ Len(d) > 0
          /\ \/ pos[Len(d)] = n - 1
             \/ n - Len(w) >= 1 /\ OccursAt(T, w, n - Len(w))

\* An occurrence of a value of V with a symbol that is kept is kept, as far as the
\* search has come.
Kept(T, V, n, d, pos) ==
    \A q \in 1 .. Len(d) : pos[q] # 0 =>
        \A v \in V, b \in 1 .. pos[q] : pos[q] < b + Len(v) /\ OccursAt(T, v, b) =>
            \A r \in b .. b + Len(v) - 1 : r < n =>
                q + r - pos[q] \in 1 .. Len(d) /\ pos[q + r - pos[q]] = r

Masking(T, w, V, n, d) ==
    \E pos : Placed(T, n, d, pos) /\ Searched(T, w, n, d, pos) /\ Kept(T, V, n, d, pos)

\* One more symbol: how pos goes on.
Further(pos, m, p) == [q \in 1 .. m + 1 |-> IF q = m + 1 THEN p ELSE pos[q]]

\* w is found: it is masked whole, and nothing else that is kept touches it.
LEMMA MaskingAnOccurrence ==
    ASSUME NEW A, NEW T \in Seq(A), Stars \in A, NEW w, IsSequence(w), w # <<>>, ~ Borders(w, w),
           NEW V, \A v \in V : Apart(v, w),
           NEW i \in 1 .. Len(T), NEW d \in Seq(A),
           Masking(T, w, V, i, d), OccursAt(T, w, i)
    PROVE  Masking(T, w, V, i + Len(w), Append(d, Stars))
<1> DEFINE m == Len(d)  e == Append(d, Stars)  j == i + Len(w)
<1>1. /\ Len(w) \in Nat /\ Len(w) > 0 /\ Len(T) \in Nat /\ m \in Nat /\ i \in Nat /\ i >= 1
      /\ j \in Nat
  BY SequenceTypes, LenProperties
<1>2. /\ Len(e) = m + 1 /\ e[m + 1] = Stars /\ \A q \in 1 .. m : e[q] = d[q]
  BY AppendProperties
<1>3. PICK pos : /\ Placed(T, i, d, pos)
                 /\ Searched(T, w, i, d, pos)
                 /\ Kept(T, V, i, d, pos)
  BY DEF Masking
<1> DEFINE pos2 == Further(pos, m, 0)
<1>4. /\ pos \in [1 .. m -> 0 .. i - 1]
      /\ \A q \in 1 .. m : /\ pos[q] = 0 => d[q] = Stars
                           /\ pos[q] # 0 => d[q] = T[pos[q]] /\ m - q <= i - 1 - pos[q]
  BY <1>3 DEF Placed
<1>5. /\ \A q \in 1 .. m : pos[q] # 0 => ~ Covered(T, w, pos[q])
      /\ \A c \in 1 .. i - 1 : OccursAt(T, w, c) => c + Len(w) <= i
  BY <1>3 DEF Searched
<1>6. \A q \in 1 .. m : pos[q] # 0 =>
        \A v \in V, b \in 1 .. pos[q] : pos[q] < b + Len(v) /\ OccursAt(T, v, b) =>
            \A r \in b .. b + Len(v) - 1 : r < i =>
                q + r - pos[q] \in 1 .. m /\ pos[q + r - pos[q]] = r
  BY <1>3 DEF Kept
<1> HIDE DEF m, e, j
<1>7. /\ pos2 \in [1 .. m + 1 -> 0 .. j - 1] /\ pos2[m + 1] = 0
      /\ \A q \in 1 .. m : pos2[q] = pos[q]
  <2>1. i - 1 <= j - 1 /\ 0 \in 0 .. j - 1
    BY <1>1 DEF j
  <2>2. \A q \in 1 .. m + 1 : q # m + 1 => q \in 1 .. m
    BY <1>1
  <2>3. \A q \in 1 .. m : pos[q] \in 0 .. j - 1
    BY <1>1, <1>4, <2>1
  <2>4. \A q \in 1 .. m : q \in 1 .. m + 1 /\ q # m + 1
    BY <1>1
  <2> QED
    BY <1>1, <2>1, <2>2, <2>3, <2>4 DEF Further
<1> HIDE DEF pos2
<1>8. ASSUME NEW q \in 1 .. m + 1, pos2[q] # 0
      PROVE  q \in 1 .. m /\ pos2[q] = pos[q] /\ pos[q] # 0 /\ pos[q] \in 1 .. i - 1
  <2>1. q # m + 1
    BY <1>7, <1>8
  <2>2. q \in 1 .. m
    BY <1>1, <2>1
  <2> QED
    BY <1>1, <1>4, <1>7, <1>8, <2>2
<1>9. Placed(T, j, e, pos2)
  <2>1. ASSUME NEW q \in 1 .. m + 1
        PROVE  /\ pos2[q] = 0 => e[q] = Stars
               /\ pos2[q] # 0 => e[q] = T[pos2[q]] /\ m + 1 - q <= j - 1 - pos2[q]
    <3>1. CASE q = m + 1
      BY <1>2, <1>7, <3>1
    <3>2. CASE q \in 1 .. m /\ pos[q] = 0
      BY <1>2, <1>4, <1>7, <3>2
    <3>3. CASE q \in 1 .. m /\ pos[q] # 0
      <4>1. e[q] = T[pos2[q]]
        BY <1>2, <1>4, <1>7, <3>3
      <4>2. m - q <= i - 1 - pos[q] /\ pos[q] \in Nat /\ pos2[q] = pos[q]
        BY <1>1, <1>4, <1>7, <3>3
      <4>3. m + 1 - q <= j - 1 - pos2[q]
        BY <1>1, <3>3, <4>2 DEF j
      <4> QED
        BY <1>7, <3>3, <4>1, <4>3
    <3>4. q = m + 1 \/ q \in 1 .. m
      BY <1>1
    <3> QED
      BY <3>1, <3>2, <3>3, <3>4
  <2>2. Len(e) = m + 1
    BY <1>2
  <2>3. pos2 \in [1 .. Len(e) -> 0 .. j - 1]
    BY <1>7, <2>2
  <2>4. ASSUME NEW q \in 1 .. Len(e)
        PROVE  /\ pos2[q] = 0 => e[q] = Stars
               /\ pos2[q] # 0 => e[q] = T[pos2[q]] /\ Len(e) - q <= j - 1 - pos2[q]
    <3>1. q \in 1 .. m + 1
      BY <2>2
    <3>2. /\ pos2[q] = 0 => e[q] = Stars
          /\ pos2[q] # 0 => e[q] = T[pos2[q]] /\ m + 1 - q <= j - 1 - pos2[q]
      BY <2>1, <3>1
    <3>3. Len(e) - q = m + 1 - q
      BY <1>1, <2>2, <3>1
    <3> QED
      BY <3>2, <3>3, Zenon
  <2> QED
    BY <2>3, <2>4, Zenon DEF Placed
<1>10. Searched(T, w, j, e, pos2)
  <2>1. \A q \in 1 .. m + 1 : pos2[q] # 0 => ~ Covered(T, w, pos2[q])
    BY <1>5, <1>8
  <2>2. ASSUME NEW c \in 1 .. j - 1, OccursAt(T, w, c) PROVE c + Len(w) <= j
    <3>1. CASE c \in 1 .. i - 1
      <4>1. c + Len(w) <= i
        BY <1>5, <2>2, <3>1
      <4> QED
        BY <1>1, <3>1, <4>1 DEF j
    <3>2. CASE c = i
      BY <1>1, <3>2 DEF j
    <3>3. CASE c > i
      <4>1. c \in Nat /\ i < c /\ c < i + Len(w) /\ i + Len(w) < c + Len(w)
        BY <1>1, <3>3 DEF j
      <4> QED
        BY <1>1, <2>2, <4>1, OverlapsHaveBorders
    <3> QED
      BY <1>1, <3>1, <3>2, <3>3
  <2>3. j - Len(w) = i /\ i >= 1
    BY <1>1 DEF j
  <2> QED
    BY <1>1, <1>2, <2>1, <2>2, <2>3 DEF Searched
<1>11. Kept(T, V, j, e, pos2)
  <2>1. ASSUME NEW q \in 1 .. m + 1, pos2[q] # 0, NEW v \in V, NEW b \in 1 .. pos2[q],
               pos2[q] < b + Len(v), OccursAt(T, v, b),
               NEW r \in b .. b + Len(v) - 1
        PROVE  q + r - pos2[q] \in 1 .. m + 1 /\ pos2[q + r - pos2[q]] = r
    <3>1. q \in 1 .. m /\ pos2[q] = pos[q] /\ pos[q] # 0 /\ pos[q] \in 1 .. i - 1
      BY <1>8, <2>1
    <3>2. IsSequence(v) /\ Len(v) <= Len(w) /\ ~ Borders(v, w) /\ Len(v) \in Nat
      BY SequenceTypes DEF Apart
    <3>3. b \in Nat /\ b < i /\ b + Len(v) < i + Len(w) /\ b \in 1 .. pos[q]
      BY <1>1, <3>1, <3>2
    <3>4. ~ (i < b + Len(v))
      BY <1>1, <2>1, <3>2, <3>3, OverlapsHaveBorders
    <3>5. r < i
      BY <1>1, <3>2, <3>3, <3>4
    <3>6. q + r - pos[q] \in 1 .. m /\ pos[q + r - pos[q]] = r
      BY <1>6, <2>1, <3>1, <3>3, <3>5
    <3> DEFINE q2 == q + r - pos[q]
    <3>7. q + r - pos2[q] = q2
      BY <3>1
    <3>8. q2 \in 1 .. m /\ pos[q2] = r
      BY <3>6
    <3> HIDE DEF q2
    <3>9. q2 \in 1 .. m + 1 /\ pos2[q2] = r
      BY <1>1, <1>7, <3>8
    <3> QED
      BY <3>7, <3>9
  <2> QED
    BY <1>2, <2>1 DEF Kept
<1> QED
  BY <1>9, <1>10, <1>11 DEF Masking, e, j

\* w is not there: one symbol is kept, and with it what the search has of the
\* occurrences it is in.
LEMMA MaskingASymbol ==
    ASSUME NEW A, NEW T \in Seq(A), NEW w, IsSequence(w), w # <<>>,
           NEW V, \A v \in V : Apart(v, w),
           NEW i \in 1 .. Len(T), NEW d \in Seq(A),
           Masking(T, w, V, i, d), ~ OccursAt(T, w, i)
    PROVE  Masking(T, w, V, i + 1, Append(d, T[i]))
<1> DEFINE m == Len(d)  e == Append(d, T[i])  j == i + 1
<1>1. /\ Len(w) \in Nat /\ Len(w) > 0 /\ Len(T) \in Nat /\ m \in Nat /\ i \in Nat /\ i >= 1
      /\ j \in Nat /\ j = i + 1
  BY SequenceTypes, LenProperties
<1>2. /\ Len(e) = m + 1 /\ e[m + 1] = T[i] /\ \A q \in 1 .. m : e[q] = d[q]
  <2>1. T[i] \in A
    BY ElementOfSeq
  <2> QED
    BY <2>1, AppendProperties
<1>3. PICK pos : /\ Placed(T, i, d, pos)
                 /\ Searched(T, w, i, d, pos)
                 /\ Kept(T, V, i, d, pos)
  BY DEF Masking
<1> DEFINE pos2 == Further(pos, m, i)
<1>4. /\ pos \in [1 .. m -> 0 .. i - 1]
      /\ \A q \in 1 .. m : /\ pos[q] = 0 => d[q] = Stars
                           /\ pos[q] # 0 => d[q] = T[pos[q]] /\ m - q <= i - 1 - pos[q]
  BY <1>3 DEF Placed
<1>5. /\ \A q \in 1 .. m : pos[q] # 0 => ~ Covered(T, w, pos[q])
      /\ \A c \in 1 .. i - 1 : OccursAt(T, w, c) => c + Len(w) <= i
      /\ i > 1 => /\ m > 0
                  /\ \/ pos[m] = i - 1
                     \/ i - Len(w) >= 1 /\ OccursAt(T, w, i - Len(w))
  BY <1>3 DEF Searched
<1>6. \A q \in 1 .. m : pos[q] # 0 =>
        \A v \in V, b \in 1 .. pos[q] : pos[q] < b + Len(v) /\ OccursAt(T, v, b) =>
            \A r \in b .. b + Len(v) - 1 : r < i =>
                q + r - pos[q] \in 1 .. m /\ pos[q + r - pos[q]] = r
  BY <1>3 DEF Kept
<1> HIDE DEF m, e, j
<1>7. /\ pos2 \in [1 .. m + 1 -> 0 .. j - 1] /\ pos2[m + 1] = i
      /\ \A q \in 1 .. m : pos2[q] = pos[q]
  <2>1. i - 1 <= j - 1 /\ i \in 0 .. j - 1
    BY <1>1
  <2>2. \A q \in 1 .. m + 1 : q # m + 1 => q \in 1 .. m
    BY <1>1
  <2>3. \A q \in 1 .. m : pos[q] \in 0 .. j - 1
    BY <1>1, <1>4, <2>1
  <2>4. \A q \in 1 .. m : q \in 1 .. m + 1 /\ q # m + 1
    BY <1>1
  <2> QED
    BY <1>1, <2>1, <2>2, <2>3, <2>4 DEF Further
<1> HIDE DEF pos2
<1>8. ASSUME NEW q \in 1 .. m + 1
      PROVE  \/ q = m + 1 /\ pos2[q] = i
             \/ q \in 1 .. m /\ pos2[q] = pos[q] /\ pos[q] \in 0 .. i - 1
  BY <1>1, <1>4, <1>7
<1>9. Placed(T, j, e, pos2)
  <2>2. Len(e) = m + 1
    BY <1>2
  <2>3. pos2 \in [1 .. Len(e) -> 0 .. j - 1]
    BY <1>7, <2>2
  <2>4. ASSUME NEW q \in 1 .. Len(e)
        PROVE  /\ pos2[q] = 0 => e[q] = Stars
               /\ pos2[q] # 0 => e[q] = T[pos2[q]] /\ Len(e) - q <= j - 1 - pos2[q]
    <3>1. q \in 1 .. m + 1
      BY <2>2
    <3>2. CASE q = m + 1 /\ pos2[q] = i
      BY <1>1, <1>2, <2>2, <3>2
    <3>3. CASE q \in 1 .. m /\ pos2[q] = pos[q] /\ pos[q] \in 0 .. i - 1
      <4>1. e[q] = d[q]
        BY <1>2, <3>3
      <4>2. pos[q] # 0 => m - q <= i - 1 - pos[q]
        BY <1>4, <3>3
      <4>3. pos[q] # 0 => Len(e) - q <= j - 1 - pos2[q]
        BY <1>1, <2>2, <3>3, <4>2
      <4> QED
        BY <1>4, <3>3, <4>1, <4>3
    <3> QED
      BY <1>8, <3>1, <3>2, <3>3
  <2> QED
    BY <2>3, <2>4, Zenon DEF Placed
<1>10. Searched(T, w, j, e, pos2)
  <2>1. ~ Covered(T, w, i)
    <3>1. SUFFICES ASSUME NEW b \in 1 .. i, i < b + Len(w), OccursAt(T, w, b) PROVE FALSE
      BY DEF Covered
    <3>2. b \in 1 .. i - 1
      BY <1>1, <3>1
    <3> QED
      BY <1>1, <1>5, <3>1, <3>2
  <2>2. \A q \in 1 .. m + 1 : pos2[q] # 0 => ~ Covered(T, w, pos2[q])
    BY <1>5, <1>8, <2>1
  <2>3. ASSUME NEW c \in 1 .. j - 1, OccursAt(T, w, c) PROVE c + Len(w) <= j
    <3>1. c \in 1 .. i - 1
      BY <1>1, <2>3
    <3>2. c + Len(w) <= i
      BY <1>5, <2>3, <3>1
    <3> QED
      BY <1>1, <3>1, <3>2
  <2>4. pos2[m + 1] = j - 1 /\ m + 1 > 0
    BY <1>1, <1>7
  <2> QED
    BY <1>2, <2>2, <2>3, <2>4 DEF Searched
<1>11. Kept(T, V, j, e, pos2)
  <2>1. ASSUME NEW q \in 1 .. m + 1, pos2[q] # 0, NEW v \in V, NEW b \in 1 .. pos2[q],
               pos2[q] < b + Len(v), OccursAt(T, v, b),
               NEW r \in b .. b + Len(v) - 1, r < j
        PROVE  q + r - pos2[q] \in 1 .. m + 1 /\ pos2[q + r - pos2[q]] = r
    <3>1. IsSequence(v) /\ Len(v) <= Len(w) /\ ~ Borders(w, v) /\ Len(v) \in Nat
      BY SequenceTypes DEF Apart
    <3>2. CASE q = m + 1 /\ pos2[q] = i
      <4>1. CASE r = i
        <5>1. q + r - pos2[q] = m + 1
          BY <1>1, <3>2, <4>1
        <5> QED
          BY <1>1, <1>7, <4>1, <5>1
      <4>2. CASE r # i
        <5>1. b \in Nat /\ r \in Nat /\ 1 <= b /\ b <= r /\ r < i /\ i > 1 /\ b \in 1 .. i - 1
              /\ i < b + Len(v)
          BY <1>1, <2>1, <3>1, <3>2, <4>2
        <5>2. ASSUME i - Len(w) >= 1, OccursAt(T, w, i - Len(w)) PROVE FALSE
          <6> DEFINE c == i - Len(w)
          <6>1. c \in Nat /\ c + Len(w) = i /\ OccursAt(T, w, c)
            BY <1>1, <5>2
          <6> HIDE DEF c
          <6>2. c < b /\ b < c + Len(w) /\ c + Len(w) < b + Len(v)
            BY <1>1, <3>1, <5>1, <6>1
          <6> QED
            BY <2>1, <3>1, <5>1, <6>1, <6>2, OverlapsHaveBorders
        <5>3. m > 0 /\ pos[m] = i - 1
          BY <1>5, <5>1, <5>2
        <5>4. m \in 1 .. m /\ pos[m] # 0 /\ pos[m] < b + Len(v) /\ b \in 1 .. pos[m]
          BY <1>1, <3>1, <5>1, <5>3
        <5>5. m + r - pos[m] \in 1 .. m /\ pos[m + r - pos[m]] = r
          BY <1>6, <2>1, <5>1, <5>4
        <5> DEFINE q2 == m + r - pos[m]
        <5>6. q + r - pos2[q] = q2
          BY <1>1, <3>2, <5>1, <5>3
        <5>7. q2 \in 1 .. m /\ pos[q2] = r
          BY <5>5
        <5> HIDE DEF q2
        <5>8. q2 \in 1 .. m + 1 /\ pos2[q2] = r
          BY <1>1, <1>7, <5>7
        <5> QED
          BY <5>6, <5>8
      <4> QED
        BY <4>1, <4>2
    <3>3. CASE q \in 1 .. m /\ pos2[q] = pos[q] /\ pos[q] \in 0 .. i - 1
      <4>1. pos[q] # 0 /\ b \in 1 .. pos[q] /\ pos[q] < b + Len(v) /\ b \in Nat /\ r \in Nat
        BY <1>1, <2>1, <3>1, <3>3
      <4>2. CASE r < i
        <5>1. q + r - pos[q] \in 1 .. m /\ pos[q + r - pos[q]] = r
          BY <1>6, <2>1, <3>3, <4>1, <4>2
        <5> DEFINE q2 == q + r - pos[q]
        <5>2. q + r - pos2[q] = q2 /\ q2 \in 1 .. m /\ pos[q2] = r
          BY <3>3, <5>1
        <5> HIDE DEF q2
        <5>3. q2 \in 1 .. m + 1 /\ pos2[q2] = r
          BY <1>1, <1>7, <5>2
        <5> QED
          BY <5>2, <5>3
      <4>3. CASE r = i
        <5> DEFINE r1 == i - 1
        <5>1. r1 \in b .. b + Len(v) - 1 /\ r1 < i /\ r1 # 0 /\ r1 \in Nat
          BY <1>1, <3>1, <3>3, <4>1, <4>3
        <5> DEFINE x == q + r1 - pos[q]
        <5>2. x \in 1 .. m /\ pos[x] = r1
          BY <1>6, <2>1, <3>3, <4>1, <5>1
        <5>3. x + 1 = q + r - pos2[q]
          BY <1>1, <3>3, <4>3
        <5> HIDE DEF x
        <5>4. m - x <= i - 1 - pos[x]
          BY <1>4, <5>1, <5>2
        <5>5. x = m
          BY <1>1, <5>2, <5>4
        <5>6. q + r - pos2[q] = m + 1
          BY <5>3, <5>5
        <5> QED
          BY <1>1, <1>7, <4>3, <5>6
      <4>4. r < i \/ r = i
        BY <1>1, <2>1, <4>1
      <4> QED
        BY <4>2, <4>3, <4>4
    <3> QED
      BY <1>8, <3>2, <3>3
  <2> QED
    BY <1>2, <2>1 DEF Kept
<1> QED
  BY <1>9, <1>10, <1>11 DEF Masking, e, j

\* After k passes the search has gone past k.
SearchedSoFar(A, T, w, V, k, s) ==
    /\ s \in [next : 1 .. Len(T) + 1, done : Seq(A)]
    /\ k < s.next /\ Masking(T, w, V, s.next, s.done)

LEMMA MaskStepIsAPass ==
    ASSUME NEW A, NEW T \in Seq(A), Stars \in A, NEW w, IsSequence(w), w # <<>>, ~ Borders(w, w),
           NEW V, \A v \in V : Apart(v, w),
           NEW k \in 1 .. Len(T), NEW s, SearchedSoFar(A, T, w, V, k - 1, s)
    PROVE  SearchedSoFar(A, T, w, V, k, MaskStep(T, w, s))
<1> DEFINE i == s.next  d == s.done  n == Len(T)
<1>1. /\ s \in [next : 1 .. n + 1, done : Seq(A)] /\ i \in 1 .. n + 1 /\ d \in Seq(A)
      /\ k - 1 < i /\ Masking(T, w, V, i, d)
  BY DEF SearchedSoFar
<1>2. n \in Nat /\ Len(w) \in Nat /\ Len(w) > 0
  BY SequenceTypes, LenProperties
<1>3. CASE i > n
  <2>1. MaskStep(T, w, s) = s
    BY <1>3 DEF MaskStep
  <2>2. k < i
    BY <1>1, <1>2, <1>3
  <2> QED
    BY <1>1, <2>1, <2>2 DEF SearchedSoFar
<1>4. CASE i <= n /\ OccursAt(T, w, i)
  <2> DEFINE e == Append(d, Stars)  j == i + Len(w)
  <2>1. MaskStep(T, w, s) = [next |-> j, done |-> e]
    <3>1. ~ (s.next > Len(T)) /\ OccursAt(T, w, s.next)
      BY <1>1, <1>2, <1>4
    <3> QED
      BY <3>1 DEF MaskStep
  <2>2. e \in Seq(A)
    BY <1>1, AppendProperties
  <2>3. j \in 1 .. n + 1 /\ k < j
    <3>1. i + Len(w) - 1 <= n
      BY <1>4 DEF OccursAt
    <3> QED
      BY <1>1, <1>2, <3>1
  <2>4. Masking(T, w, V, j, e)
    <3>1. i \in 1 .. Len(T)
      BY <1>1, <1>2, <1>4
    <3> HIDE DEF i, d
    <3> QED
      BY <1>1, <1>4, <3>1, MaskingAnOccurrence
  <2> HIDE DEF e, j
  <2> QED
    BY <2>1, <2>2, <2>3, <2>4 DEF SearchedSoFar
<1>5. CASE i <= n /\ ~ OccursAt(T, w, i)
  <2> DEFINE e == Append(d, T[i])  j == i + 1
  <2>1. MaskStep(T, w, s) = [next |-> j, done |-> e]
    <3>1. ~ (s.next > Len(T)) /\ ~ OccursAt(T, w, s.next)
      BY <1>1, <1>2, <1>5
    <3> QED
      BY <3>1 DEF MaskStep
  <2>2. i \in 1 .. n
    BY <1>1, <1>2, <1>5
  <2>3. e \in Seq(A)
    BY <1>1, <2>2, AppendProperties, ElementOfSeq
  <2>4. j \in 1 .. n + 1 /\ k < j
    BY <1>1, <1>2, <1>5
  <2>5. Masking(T, w, V, j, e)
    BY <1>1, <1>5, <2>2, MaskingASymbol
  <2> HIDE DEF e, j
  <2> QED
    BY <2>1, <2>3, <2>4, <2>5 DEF SearchedSoFar
<1> QED
  BY <1>1, <1>2, <1>3, <1>4, <1>5

\* The search comes to the end of the text.
LEMMA MaskAllSearches ==
    ASSUME NEW A, NEW T \in Seq(A), Stars \in A, NEW w, IsSequence(w), w # <<>>, ~ Borders(w, w),
           NEW V, \A v \in V : Apart(v, w)
    PROVE  MaskAll(T, w) \in Seq(A) /\ Masking(T, w, V, Len(T) + 1, MaskAll(T, w))
<1> DEFINE n == Len(T)
           X == [next : 1 .. n + 1, done : Seq(A)]
           l == [next |-> 1, done |-> <<>>]
           So(k, m) == SearchedSoFar(A, T, w, V, k, m)
           Pass(k, m) == MaskStep(T, w, m)
           step == [k \in Nat |-> [m \in X |-> IF Pass(k, m) \in X THEN Pass(k, m) ELSE m]]
           Eq(f) == f = [k \in 0 .. n |-> IF k = 0 THEN l ELSE Pass(k, f[k - 1])]
<1>1. n \in Nat
  BY LenProperties
<1>2. So(0, l)
  <2> DEFINE pos == [q \in 1 .. Len(<<>>) |-> 0]
  <2>1. l \in X /\ l.next = 1 /\ l.done = <<>> /\ Len(<<>>) = 0 /\ 1 .. Len(<<>>) = {}
    BY <1>1, EmptySeq
  <2>2. Placed(T, 1, <<>>, pos) /\ Searched(T, w, 1, <<>>, pos) /\ Kept(T, V, 1, <<>>, pos)
    BY <2>1 DEF Placed, Searched, Kept
  <2>3. Masking(T, w, V, 1, <<>>)
    BY <2>2 DEF Masking
  <2> HIDE DEF l
  <2> QED
    BY <2>1, <2>3 DEF SearchedSoFar
<1>3. ASSUME NEW k \in 1 .. n, NEW m, So(k - 1, m) PROVE So(k, Pass(k, m))
  BY <1>3, MaskStepIsAPass
<1>4. ASSUME NEW k, NEW m, So(k, m) PROVE m \in X
  BY <1>4 DEF SearchedSoFar
<1>5. ASSUME NEW k \in Nat, NEW m \in X, Pass(k, m) \in X PROVE step[k][m] = Pass(k, m)
  <2> HIDE DEF Pass, X
  <2> QED
    BY <1>5
<1>6. step \in [Nat -> [X -> X]]
  <2> HIDE DEF Pass, X
  <2> QED
    OBVIOUS
<1> HIDE DEF So, Pass, step
<1>7. PICK f \in [0 .. n -> X] : f[0] = l /\ \A k \in 1 .. n : f[k] = step[k][f[k - 1]]
  <2>1. l \in X
    BY <1>2, <1>4
  <2> HIDE DEF n, X, l
  <2>2. \E f : Runs(f, n, X, l, step)
    BY <1>1, <1>6, <2>1, LoopsHaveValues
  <2> QED
    BY <2>2 DEF Runs, Passes
<1> HIDE DEF X
<1>8. \A k \in 0 .. n : So(k, f[k]) /\ (k # 0 => f[k] = Pass(k, f[k - 1]))
  <2> DEFINE S == {k \in Nat : k <= n =>
                       So(k, f[k]) /\ (k # 0 => f[k] = Pass(k, f[k - 1]))}
  <2>1. 0 \in S
    BY <1>2, <1>7
  <2>2. ASSUME NEW k \in Nat, k \in S PROVE k + 1 \in S
    <3> SUFFICES ASSUME k + 1 <= n
                 PROVE  So(k + 1, f[k + 1]) /\ f[k + 1] = Pass(k + 1, f[k])
      OBVIOUS
    <3>1. k + 1 \in 1 .. n /\ k <= n /\ (k + 1) - 1 = k
      BY <1>1
    <3>2. So(k, f[k])
      BY <2>2, <3>1
    <3>3. So(k + 1, Pass(k + 1, f[k]))
      BY <1>3, <3>1, <3>2
    <3>4. f[k] \in X /\ Pass(k + 1, f[k]) \in X
      BY <1>4, <3>2, <3>3
    <3>5. f[k + 1] = step[k + 1][f[k]]
      BY <1>7, <3>1
    <3>6. f[k + 1] = Pass(k + 1, f[k])
      BY <1>5, <3>1, <3>4, <3>5
    <3> QED
      BY <3>3, <3>6
  <2> HIDE DEF S
  <2>3. \A k \in Nat : k \in S
    BY <2>1, <2>2, EveryNumber
  <2> QED
    BY <1>1, <2>3 DEF S
<1>9. Eq(f)
  <2> HIDE DEF l
  <2> QED
    BY <1>7, <1>8
<1> DEFINE after == CHOOSE g : Eq(g)
<1>10. Eq(after)
  BY <1>9
<1>11. MaskAll(T, w) = after[n].done
  BY DEF MaskAll, Pass
<1> HIDE DEF after
<1>12. after[0] = l /\ \A k \in 1 .. n : after[k] = Pass(k, after[k - 1])
  <2> HIDE DEF l
  <2>1. \A k \in 0 .. n : after[k] = IF k = 0 THEN l ELSE Pass(k, after[k - 1])
    BY <1>10
  <2> QED
    BY <1>1, <2>1
<1> HIDE DEF l
<1>13. So(n, after[n])
  <2> DEFINE S == {k \in Nat : k <= n => So(k, after[k])}
  <2>1. 0 \in S
    BY <1>2, <1>12
  <2>2. ASSUME NEW k \in Nat, k \in S PROVE k + 1 \in S
    <3> SUFFICES ASSUME k + 1 <= n PROVE So(k + 1, after[k + 1])
      OBVIOUS
    <3>1. k + 1 \in 1 .. n /\ k <= n /\ (k + 1) - 1 = k
      BY <1>1
    <3>2. So(k, after[k]) /\ after[k + 1] = Pass(k + 1, after[k])
      BY <1>12, <2>2, <3>1
    <3> QED
      BY <1>3, <3>1, <3>2
  <2> HIDE DEF S
  <2>3. n \in S
    BY <1>1, <2>1, <2>2, EveryNumber
  <2> QED
    BY <1>1, <2>3 DEF S
<1> DEFINE z == after[n]
<1>14. /\ z \in [next : 1 .. n + 1, done : Seq(A)]
       /\ n < z.next /\ Masking(T, w, V, z.next, z.done)
  BY <1>13 DEF So, SearchedSoFar
<1>15. z.next = n + 1 /\ z.done \in Seq(A)
  <2> HIDE DEF z
  <2> QED
    BY <1>1, <1>14
<1> QED
  BY <1>11, <1>14, <1>15

\* What MaskAll leaves: masks, and symbols of the text that are in no occurrence of w; of
\* those that stay, none is farther from the end than it was, and with a symbol stays
\* the occurrence of a value of V that it is in.
LEMMA MaskAllMasks ==
    ASSUME NEW A, NEW T \in Seq(A), Stars \in A, NEW w, IsSequence(w), w # <<>>, ~ Borders(w, w),
           NEW V, \A v \in V : Apart(v, w)
    PROVE  LET M == MaskAll(T, w)
           IN  /\ M \in Seq(A)
               /\ \A q \in 1 .. Len(M) :
                    \/ M[q] = Stars
                    \/ \E p \in 1 .. Len(T) :
                        /\ M[q] = T[p] /\ Len(M) - q <= Len(T) - p /\ ~ Covered(T, w, p)
                        /\ \A v \in V : Covered(T, v, p) => Covered(M, v, q)
<1> DEFINE M == MaskAll(T, w)
<1>1. M \in Seq(A) /\ Masking(T, w, V, Len(T) + 1, M)
  BY MaskAllSearches
<1> HIDE DEF M
<1>2. Len(T) \in Nat /\ Len(M) \in Nat
  BY <1>1, LenProperties
<1>3. PICK pos : /\ Placed(T, Len(T) + 1, M, pos)
                 /\ Searched(T, w, Len(T) + 1, M, pos)
                 /\ Kept(T, V, Len(T) + 1, M, pos)
  BY <1>1 DEF Masking
<1>4. /\ pos \in [1 .. Len(M) -> 0 .. Len(T)]
      /\ \A q \in 1 .. Len(M) :
            /\ pos[q] = 0 => M[q] = Stars
            /\ pos[q] # 0 => M[q] = T[pos[q]] /\ Len(M) - q <= Len(T) - pos[q]
  <2>1. (Len(T) + 1) - 1 = Len(T)
    BY <1>2
  <2>2. pos \in [1 .. Len(M) -> 0 .. Len(T)]
    BY <1>3, <2>1 DEF Placed
  <2>3. \A q \in 1 .. Len(M) : pos[q] \in Int
    BY <1>2, <2>2
  <2> QED
    BY <1>3, <2>1, <2>2, <2>3 DEF Placed
<1>5. ASSUME NEW q \in 1 .. Len(M), M[q] # Stars
      PROVE  \E p \in 1 .. Len(T) :
                /\ M[q] = T[p] /\ Len(M) - q <= Len(T) - p /\ ~ Covered(T, w, p)
                /\ \A v \in V : Covered(T, v, p) => Covered(M, v, q)
  <2> DEFINE p == pos[q]
  <2>1. p # 0 /\ p \in 1 .. Len(T)
    BY <1>2, <1>4, <1>5
  <2>2. M[q] = T[p] /\ Len(M) - q <= Len(T) - p
    BY <1>4, <2>1
  <2>3. ~ Covered(T, w, p)
    BY <1>3, <2>1 DEF Searched
  <2>4. ASSUME NEW v \in V, Covered(T, v, p) PROVE Covered(M, v, q)
    <3>1. PICK b \in 1 .. p : p < b + Len(v) /\ OccursAt(T, v, b)
      BY <2>4 DEF Covered
    <3>2. IsSequence(v) /\ Len(v) \in Nat /\ DOMAIN v = 1 .. Len(v)
      BY SequenceTypes DEF Apart
    <3>3. b + Len(v) - 1 <= Len(T)
      BY <3>1 DEF OccursAt
    <3>4. ASSUME NEW r \in b .. b + Len(v) - 1
          PROVE  q + r - p \in 1 .. Len(M) /\ pos[q + r - p] = r
      <4>1. r < Len(T) + 1
        BY <1>2, <2>1, <3>1, <3>2, <3>3
      <4> QED
        BY <1>3, <2>1, <3>1, <4>1 DEF Kept
    <3> DEFINE b2 == q + b - p
    <3>5. b \in b .. b + Len(v) - 1 /\ b + Len(v) - 1 \in b .. b + Len(v) - 1
      BY <2>1, <3>1, <3>2
    <3>6. b2 \in 1 .. q /\ q < b2 + Len(v)
      <4>1. b2 \in 1 .. Len(M)
        BY <3>4, <3>5
      <4> QED
        BY <2>1, <3>1, <3>2, <4>1
    <3>7. b2 + Len(v) - 1 <= Len(M)
      <4>1. q + (b + Len(v) - 1) - p \in 1 .. Len(M)
        BY <3>4, <3>5
      <4> QED
        BY <1>2, <2>1, <3>1, <3>2, <4>1
    <3>8. ASSUME NEW k \in DOMAIN v PROVE M[b2 + k - 1].c = v[k]
      <4> DEFINE r == b + k - 1
      <4>1. r \in b .. b + Len(v) - 1 /\ r # 0 /\ q + r - p = b2 + k - 1
        BY <2>1, <3>1, <3>2
      <4>2. q + r - p \in 1 .. Len(M) /\ pos[q + r - p] = r
        BY <3>4, <4>1
      <4>3. T[r].c = v[k]
        BY <3>1 DEF OccursAt
      <4> HIDE DEF r, b2
      <4>4. M[q + r - p] = T[r]
        BY <1>4, <4>1, <4>2
      <4> QED
        BY <4>1, <4>3, <4>4
    <3>9. OccursAt(M, v, b2)
      BY <3>7, <3>8 DEF OccursAt
    <3> HIDE DEF b2
    <3> QED
      BY <3>6, <3>9 DEF Covered
  <2> QED
    BY <2>1, <2>2, <2>3, <2>4
<1> QED
  BY <1>1, <1>5 DEF M

-----------------------------------------------------------------------------
(* The redactor. *)

\* Symbol p of a text is near an end that has been cut: its value may go on behind it.
NearCut(T, cut, p) == cut /\ p > Len(T) - (Len(T[p].from) - 1)

\* What a redactor has to be for its masks to be whole: its values are texts, none is
\* empty, none comes before a longer one, and no two can overlap.
Redacts(R) ==
    /\ R \in Seq(ToSet(R))
    /\ \A j \in 1 .. Len(R) : IsSequence(R[j]) /\ R[j] # NoValue
    /\ \A j, k \in 1 .. Len(R) : j < k => Len(R[j]) >= Len(R[k])
    /\ ~ Overlapping(ToSet(R))

\* A symbol that is part of a value is so in a whole occurrence of it, or near a cut.
Intact(T, cut) ==
    /\ IsSequence(T)
    /\ \A p \in 1 .. Len(T) : T[p].from # NoValue =>
        /\ IsSequence(T[p].from)
        /\ NearCut(T, cut, p) \/ Covered(T, T[p].from, p)

\* After k masks, what is left of the values of the redactor is of later ones, and whole.
MaskedSoFar(A, R, cut, k, x) ==
    /\ x \in Seq(A)
    /\ \A q \in 1 .. Len(x) : x[q].from # NoValue =>
        /\ IsSequence(x[q].from)
        /\ \/ NearCut(x, cut, q)
           \/ \A j \in 1 .. Len(R) : x[q].from = R[j] => j > k /\ Covered(x, R[j], q)

LEMMA MaskAllIsAPass ==
    ASSUME NEW A, Stars \in A, NEW R, Redacts(R), NEW cut \in BOOLEAN,
           NEW k \in 1 .. Len(R), NEW x, MaskedSoFar(A, R, cut, k - 1, x)
    PROVE  MaskedSoFar(A, R, cut, k, MaskAll(x, R[k]))
<1> DEFINE w == R[k]  V == {R[j] : j \in k + 1 .. Len(R)}  M == MaskAll(x, w)
<1>1. Len(R) \in Nat /\ DOMAIN R = 1 .. Len(R) /\ k \in Nat
  BY LenProperties DEF Redacts
<1>2. IsSequence(w) /\ w # <<>>
  BY DEF Redacts, NoValue
<1>3. \A i, j \in 1 .. Len(R) : ~ Borders(R[i], R[j])
  <2>1. \A i \in 1 .. Len(R) : R[i] \in ToSet(R)
    BY <1>1 DEF ToSet
  <2> QED
    BY <2>1 DEF Redacts, Overlapping
<1>4. \A v \in V : Apart(v, w)
  <2>1. SUFFICES ASSUME NEW j \in k + 1 .. Len(R) PROVE Apart(R[j], R[k])
    OBVIOUS
  <2>2. j \in 1 .. Len(R) /\ k < j
    BY <1>1
  <2>3. IsSequence(R[j]) /\ Len(R[k]) >= Len(R[j]) /\ IsSequence(R[k])
    BY <2>2 DEF Redacts
  <2>4. Len(R[j]) <= Len(R[k])
    BY <2>3, SequenceTypes
  <2> QED
    BY <1>3, <2>2, <2>3, <2>4 DEF Apart
<1>5. ~ Borders(w, w)
  BY <1>3
<1>6. x \in Seq(A) /\ Len(x) \in Nat
  BY LenProperties DEF MaskedSoFar
<1> HIDE DEF w, V, M
<1>7. /\ M \in Seq(A)
      /\ \A q \in 1 .. Len(M) :
            \/ M[q] = Stars
            \/ \E p \in 1 .. Len(x) :
                /\ M[q] = x[p] /\ Len(M) - q <= Len(x) - p /\ ~ Covered(x, w, p)
                /\ \A v \in V : Covered(x, v, p) => Covered(M, v, q)
  BY <1>2, <1>4, <1>5, <1>6, MaskAllMasks DEF M
<1>8. Len(M) \in Nat
  BY <1>7, LenProperties
<1>9. ASSUME NEW q \in 1 .. Len(M), M[q].from # NoValue
      PROVE  /\ IsSequence(M[q].from)
             /\ \/ NearCut(M, cut, q)
                \/ \A j \in 1 .. Len(R) : M[q].from = R[j] => j > k /\ Covered(M, R[j], q)
  <2>1. M[q] # Stars
    BY <1>9 DEF Stars
  <2>2. PICK p \in 1 .. Len(x) :
                /\ M[q] = x[p] /\ Len(M) - q <= Len(x) - p /\ ~ Covered(x, w, p)
                /\ \A v \in V : Covered(x, v, p) => Covered(M, v, q)
    BY <1>7, <2>1
  <2>3. IsSequence(M[q].from) /\ M[q].from = x[p].from
    BY <1>9, <2>2 DEF MaskedSoFar
  <2>4. NearCut(x, cut, p)
        \/ \A j \in 1 .. Len(R) : x[p].from = R[j] => j > k - 1 /\ Covered(x, R[j], p)
    BY <1>9, <2>2 DEF MaskedSoFar
  <2>5. CASE NearCut(x, cut, p)
    <3>1. Len(M[q].from) \in Nat
      BY <2>3, SequenceTypes
    <3>2. cut /\ p > Len(x) - (Len(M[q].from) - 1)
      BY <2>3, <2>5 DEF NearCut
    <3>3. q > Len(M) - (Len(M[q].from) - 1)
      <4> DEFINE L == Len(M[q].from)  mm == Len(M)  n == Len(x)
      <4>1. /\ p \in Int /\ q \in Int /\ L \in Int /\ mm \in Int /\ n \in Int
            /\ p > n - (L - 1) /\ mm - q <= n - p
        <5>1. p \in Int /\ n \in Int /\ L \in Int
          BY <1>6, <3>1
        <5>2. q \in Int /\ mm \in Int
          BY <1>8
        <5>3. mm - q <= n - p
          BY <2>2
        <5>4. p > n - (L - 1)
          BY <3>2
        <5> QED
          BY <5>1, <5>2, <5>3, <5>4
      <4> HIDE DEF L, mm, n
      <4>2. q > mm - (L - 1)
        BY ONLY <4>1
      <4> QED
        BY <4>2 DEF L, mm
    <3> QED
      BY <2>3, <3>2, <3>3 DEF NearCut
  <2>6. ASSUME \A j \in 1 .. Len(R) : x[p].from = R[j] => j > k - 1 /\ Covered(x, R[j], p),
               NEW j \in 1 .. Len(R), M[q].from = R[j]
        PROVE  j > k /\ Covered(M, R[j], q)
    <3>1. j > k - 1 /\ Covered(x, R[j], p)
      BY <2>3, <2>6
    <3>2. j # k
      BY <2>2, <3>1 DEF w
    <3>3. j > k /\ j \in k + 1 .. Len(R)
      BY <1>1, <3>1, <3>2
    <3>4. R[j] \in V
      BY <3>3 DEF V
    <3> QED
      BY <2>2, <3>1, <3>3, <3>4
  <2> QED
    BY <2>3, <2>4, <2>5, <2>6
<1>10. MaskedSoFar(A, R, cut, k, M)
  BY <1>7, <1>9 DEF MaskedSoFar
<1> QED
  BY <1>10 DEF M, w

\* Of a value of the redactor nothing is left but what is near a cut.
LEMMA MaskedHidesValues ==
    ASSUME NEW R, Redacts(R), NEW cut \in BOOLEAN, NEW T, Intact(T, cut)
    PROVE  LET M == Masked(R, T)
           IN  /\ IsSequence(M)
               /\ \A q \in 1 .. Len(M) :
                    M[q].from # NoValue /\ M[q].from \in ToSet(R) => NearCut(M, cut, q)
<1> DEFINE n == Len(R)
           A == ToSet(T) \cup {Stars}
           X == Seq(A)
           So(k, m) == MaskedSoFar(A, R, cut, k, m)
           Pass(k, m) == MaskAll(m, R[k])
           step == [k \in Nat |-> [m \in X |-> IF Pass(k, m) \in X THEN Pass(k, m) ELSE m]]
           Eq(f) == f = [k \in 0 .. n |-> IF k = 0 THEN T ELSE Pass(k, f[k - 1])]
<1>1. n \in Nat /\ DOMAIN R = 1 .. n
  BY LenProperties DEF Redacts
<1>2. So(0, T)
  <2>1. T \in Seq(A)
    <3>1. T \in Seq(ToSet(T))
      BY DEF Intact, IsSequence
    <3> QED
      BY <3>1, SeqMonotonic
  <2>2. \A j \in 1 .. Len(R) : j > 0
    BY <1>1
  <2> HIDE DEF A
  <2> QED
    BY <2>1, <2>2 DEF MaskedSoFar, Intact
<1>3. ASSUME NEW k \in 1 .. n, NEW m, So(k - 1, m) PROVE So(k, Pass(k, m))
  <2>1. Stars \in A
    OBVIOUS
  <2> HIDE DEF A
  <2> QED
    BY <1>3, <2>1, MaskAllIsAPass
<1> HIDE DEF A
<1>4. ASSUME NEW k, NEW m, So(k, m) PROVE m \in X
  BY <1>4 DEF MaskedSoFar
<1>5. ASSUME NEW k \in Nat, NEW m \in X, Pass(k, m) \in X PROVE step[k][m] = Pass(k, m)
  <2> HIDE DEF Pass, X
  <2> QED
    BY <1>5
<1>6. step \in [Nat -> [X -> X]]
  <2> HIDE DEF Pass, X
  <2> QED
    OBVIOUS
<1> HIDE DEF So, Pass, step, X
<1>7. PICK f \in [0 .. n -> X] : f[0] = T /\ \A k \in 1 .. n : f[k] = step[k][f[k - 1]]
  <2>1. T \in X
    BY <1>2, <1>4
  <2> HIDE DEF n
  <2>2. \E f : Runs(f, n, X, T, step)
    BY <1>1, <1>6, <2>1, LoopsHaveValues
  <2> QED
    BY <2>2 DEF Runs, Passes
<1>8. \A k \in 0 .. n : So(k, f[k]) /\ (k # 0 => f[k] = Pass(k, f[k - 1]))
  <2> DEFINE S == {k \in Nat : k <= n =>
                       So(k, f[k]) /\ (k # 0 => f[k] = Pass(k, f[k - 1]))}
  <2>1. 0 \in S
    BY <1>2, <1>7
  <2>2. ASSUME NEW k \in Nat, k \in S PROVE k + 1 \in S
    <3> SUFFICES ASSUME k + 1 <= n
                 PROVE  So(k + 1, f[k + 1]) /\ f[k + 1] = Pass(k + 1, f[k])
      OBVIOUS
    <3>1. k + 1 \in 1 .. n /\ k <= n /\ (k + 1) - 1 = k
      BY <1>1
    <3>2. So(k, f[k])
      BY <2>2, <3>1
    <3>3. So(k + 1, Pass(k + 1, f[k]))
      BY <1>3, <3>1, <3>2
    <3>4. f[k] \in X /\ Pass(k + 1, f[k]) \in X
      BY <1>4, <3>2, <3>3
    <3>5. f[k + 1] = step[k + 1][f[k]]
      BY <1>7, <3>1
    <3>6. f[k + 1] = Pass(k + 1, f[k])
      BY <1>5, <3>1, <3>4, <3>5
    <3> QED
      BY <3>3, <3>6
  <2> HIDE DEF S
  <2>3. \A k \in Nat : k \in S
    BY <2>1, <2>2, EveryNumber
  <2> QED
    BY <1>1, <2>3 DEF S
<1>9. Eq(f)
  BY <1>7, <1>8
<1> DEFINE after == CHOOSE g : Eq(g)
<1>10. Eq(after)
  BY <1>9
<1>11. Masked(R, T) = after[n]
  BY DEF Masked, Pass
<1> HIDE DEF after
<1>12. after[0] = T /\ \A k \in 1 .. n : after[k] = Pass(k, after[k - 1])
  <2>1. \A k \in 0 .. n : after[k] = IF k = 0 THEN T ELSE Pass(k, after[k - 1])
    BY <1>10
  <2> QED
    BY <1>1, <2>1
<1>13. So(n, after[n])
  <2> DEFINE S == {k \in Nat : k <= n => So(k, after[k])}
  <2>1. 0 \in S
    BY <1>2, <1>12
  <2>2. ASSUME NEW k \in Nat, k \in S PROVE k + 1 \in S
    <3> SUFFICES ASSUME k + 1 <= n PROVE So(k + 1, after[k + 1])
      OBVIOUS
    <3>1. k + 1 \in 1 .. n /\ k <= n /\ (k + 1) - 1 = k
      BY <1>1
    <3>2. So(k, after[k]) /\ after[k + 1] = Pass(k + 1, after[k])
      BY <1>12, <2>2, <3>1
    <3> QED
      BY <1>3, <3>1, <3>2
  <2> HIDE DEF S
  <2>3. n \in S
    BY <1>1, <2>1, <2>2, EveryNumber
  <2> QED
    BY <1>1, <2>3 DEF S
<1> DEFINE M == Masked(R, T)
<1>14. MaskedSoFar(A, R, cut, n, M)
  BY <1>11, <1>13 DEF So
<1> HIDE DEF M
<1>15. IsSequence(M)
  BY <1>14 DEF MaskedSoFar, IsSequence, ToSet
<1>16. ASSUME NEW q \in 1 .. Len(M), M[q].from # NoValue, M[q].from \in ToSet(R)
       PROVE  NearCut(M, cut, q)
  <2>1. PICK j \in 1 .. n : M[q].from = R[j]
    BY <1>1, <1>16 DEF ToSet
  <2>2. ~ (j > n)
    BY <1>1
  <2> QED
    BY <1>14, <1>16, <2>1, <2>2 DEF MaskedSoFar
<1> QED
  BY <1>15, <1>16 DEF M

\* The redactor that is built from a finite set of texts has all of them but the empty one.
LEMMA LongestFirstRedacts ==
    ASSUME NEW S, IsFiniteSet(S), \A v \in S : IsSequence(v), NEW R \in LongestFirst(S),
           ~ Overlapping(ToSet(R))
    PROVE  Redacts(R) /\ ToSet(R) = S \ {NoValue}
<1> DEFINE Z == S \ {NoValue}  n == Cardinality(Z)
<1>1. IsFiniteSet(Z) /\ n \in Nat
  BY FS_Subset, FS_CardinalityType
<1>2. /\ R \in [1 .. n -> Z] /\ \A i, j \in 1 .. n : i # j => R[i] # R[j]
      /\ \A i, j \in DOMAIN R : i < j => Len(R[i]) >= Len(R[j])
  BY DEF LongestFirst, SetToSeqs
<1> HIDE DEF Z, n
<1>3. R \in Surjection(1 .. n, Z)
  <2>1. R \in Injection(1 .. n, Z)
    BY <1>2 DEF Injection, IsInjective
  <2>2. Cardinality(1 .. n) = n
    <3>1. Cardinality(1 .. n) = IF 1 > n THEN 0 ELSE n - 1 + 1
      BY <1>1, FS_Interval
    <3> QED
      BY <1>1, <3>1
  <2> QED
    BY <1>1, <2>1, <2>2, FS_Injection DEF n
<1>4. ToSet(R) = Z
  BY <1>2, <1>3 DEF Surjection, ToSet
<1>5. R \in Seq(Z) /\ Len(R) = n
  <2>1. R \in Seq(Z)
    BY <1>1, <1>2, SeqDef
  <2> QED
    BY <1>1, <1>2, <2>1, LenProperties
<1>6. \A j \in 1 .. n : IsSequence(R[j]) /\ R[j] # NoValue
  BY <1>2 DEF Z
<1> QED
  BY <1>2, <1>4, <1>5, <1>6 DEF Redacts, Z

-----------------------------------------------------------------------------
(* Texts that values are written into. *)

LEMMA SequencesAreSequences ==
    ASSUME NEW A, NEW s \in Seq(A)
    PROVE  IsSequence(s)
<1>1. Len(s) \in Nat /\ s \in [1 .. Len(s) -> A] /\ DOMAIN s = 1 .. Len(s)
  BY LenProperties
<1>2. s \in [1 .. Len(s) -> ToSet(s)]
  BY <1>1 DEF ToSet
<1> QED
  BY <1>1, <1>2, SeqDef DEF IsSequence

\* The characters of T are found d further on in U: so are the values.
LEMMA OccurrencesMove ==
    ASSUME NEW T, NEW U, NEW v, NEW v2, IsSequence(v), IsSequence(v2), Len(v2) = Len(v),
           Len(T) \in Nat, Len(U) \in Nat, NEW d \in Nat, Len(T) + d <= Len(U),
           \A i \in 1 .. Len(T), k \in 1 .. Len(v) : T[i].c = v[k] => U[i + d].c = v2[k],
           NEW p \in 1 .. Len(T), Covered(T, v, p)
    PROVE  Covered(U, v2, p + d)
<1>1. PICK b \in 1 .. p : p < b + Len(v) /\ OccursAt(T, v, b)
  BY DEF Covered
<1>2. Len(v) \in Nat /\ DOMAIN v = 1 .. Len(v) /\ DOMAIN v2 = 1 .. Len(v)
  BY SequenceTypes
<1>3. b + Len(v) - 1 <= Len(T) /\ \A k \in 1 .. Len(v) : T[b + k - 1].c = v[k]
  BY <1>1, <1>2 DEF OccursAt
<1> DEFINE b2 == b + d
<1>4. b2 \in 1 .. p + d /\ p + d < b2 + Len(v) /\ b2 + Len(v) - 1 <= Len(U)
  BY <1>1, <1>2, <1>3
<1>5. ASSUME NEW k \in 1 .. Len(v) PROVE U[b2 + k - 1].c = v2[k]
  <2> DEFINE i == b + k - 1
  <2>1. i \in 1 .. Len(T) /\ i + d = b2 + k - 1
    BY <1>1, <1>2, <1>3
  <2>2. T[i].c = v[k]
    BY <1>3
  <2> HIDE DEF i, b2
  <2> QED
    BY <2>1, <2>2
<1>6. OccursAt(U, v2, b2)
  BY <1>2, <1>4, <1>5 DEF OccursAt
<1> HIDE DEF b2
<1> QED
  BY <1>4, <1>6 DEF Covered

LEMMA EmptyIsIntact == Intact(<<>>, FALSE)
<1>1. Len(<<>>) = 0 /\ <<>> \in Seq({})
  BY EmptySeq
<1>2. IsSequence(<<>>)
  BY <1>1, SequencesAreSequences, Zenon
<1>3. 1 .. Len(<<>>) = {}
  BY <1>1
<1> QED
  BY <1>2, <1>3 DEF Intact

LEMMA PlainTextIsIntact ==
    ASSUME NEW v, IsSequence(v)
    PROVE  Intact(PlainText(v), FALSE)
<1> DEFINE x == PlainText(v)
<1>1. Len(v) \in Nat /\ DOMAIN v = 1 .. Len(v)
  BY SequenceTypes
<1>2. x = [i \in 1 .. Len(v) |-> [c |-> v[i], from |-> NoValue]]
  BY <1>1 DEF PlainText
<1>3. x \in Seq({[c |-> v[i], from |-> NoValue] : i \in 1 .. Len(v)})
  BY <1>1, <1>2, SeqDef
<1>4. IsSequence(x)
  BY <1>3, SequencesAreSequences
<1>5. \A p \in 1 .. Len(x) : x[p].from = NoValue
  <2>1. DOMAIN x = 1 .. Len(x)
    BY <1>4, SequenceTypes
  <2> QED
    BY <1>2, <2>1
<1> HIDE DEF x
<1>6. Intact(x, FALSE)
  BY <1>4, <1>5 DEF Intact
<1> QED
  BY <1>6 DEF x

LEMMA InjectedIsIntact ==
    ASSUME NEW v, IsSequence(v)
    PROVE  Intact(Injected(v), FALSE)
<1> DEFINE x == Injected(v)
<1>1. Len(v) \in Nat /\ DOMAIN v = 1 .. Len(v)
  BY SequenceTypes
<1>2. x = [i \in 1 .. Len(v) |-> [c |-> v[i], from |-> v]]
  BY <1>1 DEF Injected
<1>3. x \in Seq({[c |-> v[i], from |-> v] : i \in 1 .. Len(v)})
  BY <1>1, <1>2, SeqDef
<1>4. IsSequence(x) /\ Len(x) = Len(v)
  <2>1. DOMAIN x = 1 .. Len(v)
    BY <1>2
  <2> HIDE DEF x
  <2>2. DOMAIN x = 1 .. Len(x) /\ Len(x) \in Nat
    BY <1>3, LenProperties
  <2> QED
    BY <1>1, <1>3, <2>1, <2>2, SequencesAreSequences
<1>5. \A p \in 1 .. Len(v) : x[p].c = v[p] /\ x[p].from = v
  BY <1>2
<1> HIDE DEF x
<1>6. OccursAt(x, v, 1)
  <2>1. 1 + Len(v) - 1 <= Len(x) /\ \A k \in 1 .. Len(v) : 1 + k - 1 = k
    BY <1>1, <1>4
  <2> QED
    BY <1>1, <1>5, <2>1 DEF OccursAt
<1>7. ASSUME NEW p \in 1 .. Len(v) PROVE Covered(x, v, p)
  <2>1. 1 \in 1 .. p /\ p < 1 + Len(v)
    BY <1>1
  <2> QED
    BY <1>6, <2>1 DEF Covered
<1>8. Intact(x, FALSE)
  BY <1>4, <1>5, <1>7 DEF Intact
<1> QED
  BY <1>8 DEF x

\* What is whole in one of two texts is so in the two.
LEMMA ConcatenationIsIntact ==
    ASSUME NEW s, NEW t, Intact(s, FALSE), Intact(t, FALSE)
    PROVE  Intact(s \o t, FALSE)
<1> DEFINE A == ToSet(s) \cup ToSet(t)  x == s \o t
<1>1. s \in Seq(A) /\ t \in Seq(A)
  <2>1. s \in Seq(ToSet(s)) /\ t \in Seq(ToSet(t))
    BY DEF Intact, IsSequence
  <2> QED
    BY <2>1, SeqMonotonic
<1> HIDE DEF A
<1>2. Len(s) \in Nat /\ Len(t) \in Nat
  BY <1>1, LenProperties
<1>3. /\ x \in Seq(A) /\ Len(x) = Len(s) + Len(t)
      /\ \A i \in 1 .. Len(s) + Len(t) : x[i] = IF i <= Len(s) THEN s[i] ELSE t[i - Len(s)]
  BY <1>1, ConcatProperties
<1> HIDE DEF x
<1>4. /\ \A i \in 1 .. Len(s) : x[i] = s[i]
      /\ \A i \in 1 .. Len(t) : x[i + Len(s)] = t[i]
  <2>1. ASSUME NEW i \in 1 .. Len(s) PROVE x[i] = s[i]
    BY <1>2, <1>3
  <2>2. ASSUME NEW i \in 1 .. Len(t) PROVE x[i + Len(s)] = t[i]
    <3> DEFINE j == i + Len(s)
    <3>1. j \in 1 .. Len(s) + Len(t) /\ ~ (j <= Len(s)) /\ j - Len(s) = i
      BY <1>2
    <3> HIDE DEF j
    <3>2. x[j] = t[i]
      BY <1>3, <3>1
    <3> QED
      BY <3>2 DEF j
  <2> QED
    BY <2>1, <2>2
<1>5. ASSUME NEW p \in 1 .. Len(x), x[p].from # NoValue
      PROVE  IsSequence(x[p].from) /\ Covered(x, x[p].from, p)
  <2>1. CASE p \in 1 .. Len(s)
    <3> DEFINE v == s[p].from
    <3>1. x[p] = s[p]
      BY <1>4, <2>1
    <3>2. IsSequence(v) /\ Covered(s, v, p)
      BY <1>5, <2>1, <3>1 DEF Intact, NearCut
    <3> HIDE DEF v
    <3>3. Len(s) + 0 <= Len(x) /\ Len(x) \in Nat /\ \A i \in 1 .. Len(s) : i + 0 = i
      BY <1>2, <1>3
    <3>4. \A i \in 1 .. Len(s), k \in 1 .. Len(v) : s[i].c = v[k] => x[i + 0].c = v[k]
      BY <1>4, <3>3
    <3>5. Covered(x, v, p + 0)
      BY <1>2, <2>1, <3>2, <3>3, <3>4, OccurrencesMove
    <3>6. p + 0 = p
      BY <2>1, <3>3
    <3> QED
      BY <3>1, <3>2, <3>5, <3>6 DEF v
  <2>2. CASE p \notin 1 .. Len(s)
    <3> DEFINE q == p - Len(s)  v == t[q].from  d == Len(s)
    <3>1. q \in 1 .. Len(t) /\ p = q + d
      BY <1>2, <1>3, <2>2
    <3> HIDE DEF q
    <3>2. x[p] = t[q]
      BY <1>4, <3>1
    <3>3. IsSequence(v) /\ Covered(t, v, q)
      BY <1>5, <3>1, <3>2 DEF Intact, NearCut
    <3> HIDE DEF v
    <3>4. Len(t) + d <= Len(x) /\ Len(x) \in Nat /\ d \in Nat
      BY <1>2, <1>3
    <3>5. \A i \in 1 .. Len(t), k \in 1 .. Len(v) : t[i].c = v[k] => x[i + d].c = v[k]
      BY <1>4
    <3> HIDE DEF d
    <3>6. Covered(x, v, q + d)
      BY <1>2, <3>1, <3>3, <3>4, <3>5, OccurrencesMove
    <3> QED
      BY <3>1, <3>2, <3>3, <3>6 DEF v
  <2> QED
    BY <2>1, <2>2
<1>6. IsSequence(x)
  BY <1>3, SequencesAreSequences
<1>7. Intact(x, FALSE)
  BY <1>5, <1>6 DEF Intact
<1> QED
  BY <1>7 DEF x

\* Encoded, a value is whole where it was.
LEMMA EncodedIsIntact ==
    ASSUME NEW s, Intact(s, FALSE)
    PROVE  Intact(Encoded(s), FALSE)
<1> DEFINE x == Encoded(s)
           E(i) == [c |-> EncodedChar(s[i].c), from |-> EncodedValue(s[i].from)]
<1>1. IsSequence(s) /\ Len(s) \in Nat /\ DOMAIN s = 1 .. Len(s)
  BY SequenceTypes DEF Intact
<1>2. x = [i \in 1 .. Len(s) |-> E(i)]
  BY <1>1 DEF Encoded
<1>3. \A i \in 1 .. Len(s) : /\ x[i].c = EncodedChar(s[i].c)
                             /\ x[i].from = EncodedValue(s[i].from)
  BY <1>2
<1>4. x \in Seq({E(i) : i \in 1 .. Len(s)})
  <2> HIDE DEF E
  <2> QED
    BY <1>1, <1>2, SeqDef
<1>5. IsSequence(x) /\ Len(x) = Len(s)
  <2>1. DOMAIN x = 1 .. Len(s)
    BY <1>2
  <2> HIDE DEF x, E
  <2>2. DOMAIN x = 1 .. Len(x) /\ Len(x) \in Nat
    BY <1>4, LenProperties
  <2> QED
    BY <1>1, <1>4, <2>1, <2>2, SequencesAreSequences
<1> HIDE DEF x, E
<1>6. ASSUME NEW v, IsSequence(v)
      PROVE  /\ IsSequence(EncodedValue(v)) /\ Len(EncodedValue(v)) = Len(v)
             /\ \A k \in 1 .. Len(v) : EncodedValue(v)[k] = EncodedChar(v[k])
  <2> DEFINE e == EncodedValue(v)
  <2>1. Len(v) \in Nat /\ DOMAIN v = 1 .. Len(v)
    BY <1>6, SequenceTypes
  <2>2. e = [i \in 1 .. Len(v) |-> EncodedChar(v[i])]
    BY <2>1 DEF EncodedValue
  <2>3. e \in Seq({EncodedChar(v[i]) : i \in 1 .. Len(v)})
    BY <2>1, <2>2, SeqDef
  <2>4. DOMAIN e = 1 .. Len(v) /\ \A k \in 1 .. Len(v) : e[k] = EncodedChar(v[k])
    BY <2>2
  <2> HIDE DEF e
  <2>5. DOMAIN e = 1 .. Len(e) /\ Len(e) \in Nat
    BY <2>3, LenProperties
  <2>6. IsSequence(e) /\ Len(e) = Len(v)
    BY <2>1, <2>3, <2>4, <2>5, SequencesAreSequences
  <2> QED
    BY <2>4, <2>6 DEF e
<1>7. ASSUME NEW p \in 1 .. Len(x), x[p].from # NoValue
      PROVE  IsSequence(x[p].from) /\ Covered(x, x[p].from, p)
  <2> DEFINE v == s[p].from  v2 == EncodedValue(v)
  <2>1. p \in 1 .. Len(s) /\ x[p].from = v2
    BY <1>3, <1>5
  <2>2. v # NoValue
    <3>1. SUFFICES ASSUME v = NoValue PROVE v2 = NoValue
      BY <1>7, <2>1
    <3>2. IsSequence(<<>>) /\ Len(<<>>) = 0
      BY EmptyIsIntact, EmptySeq DEF Intact
    <3>3. IsSequence(v2) /\ Len(v2) = 0
      BY <1>6, <3>1, <3>2 DEF NoValue
    <3> HIDE DEF v2
    <3>4. v2 = <<>>
      BY <3>3, SequenceTypes
    <3> QED
      BY <3>4 DEF NoValue
  <2>3. IsSequence(v) /\ Covered(s, v, p)
    BY <2>1, <2>2 DEF Intact, NearCut
  <2> HIDE DEF v
  <2>4. /\ IsSequence(v2) /\ Len(v2) = Len(v)
        /\ \A k \in 1 .. Len(v) : v2[k] = EncodedChar(v[k])
    BY <1>6, <2>3
  <2> HIDE DEF v2
  <2>5. Len(s) + 0 <= Len(x) /\ Len(x) \in Nat /\ \A i \in 1 .. Len(s) : i + 0 = i
    BY <1>1, <1>5
  <2>6. \A i \in 1 .. Len(s), k \in 1 .. Len(v) : s[i].c = v[k] => x[i + 0].c = v2[k]
    BY <1>3, <2>4, <2>5
  <2>7. Covered(x, v2, p + 0)
    <3>1. Len(s) \in Nat /\ p \in 1 .. Len(s) /\ IsSequence(v2) /\ Len(v2) = Len(v)
      BY <1>1, <2>1, <2>4
    <3> QED
      BY <2>3, <2>5, <2>6, <3>1, OccurrencesMove
  <2>8. p + 0 = p
    BY <2>1, <2>5
  <2> QED
    BY <2>1, <2>4, <2>7, <2>8
<1>8. Intact(x, FALSE)
  BY <1>5, <1>7 DEF Intact
<1> QED
  BY <1>8 DEF x

\* A cut leaves values whole but near the end.
LEMMA CutIsIntact ==
    ASSUME NEW s, NEW cut \in BOOLEAN, Intact(s, cut), NEW n \in Nat
    PROVE  Intact(Cut(s, n), cut \/ Len(s) > n)
<1>1. s \in Seq(ToSet(s)) /\ IsSequence(s) /\ Len(s) \in Nat
  BY SequenceTypes DEF Intact, IsSequence
<1>2. CASE ~ (Len(s) > n)
  <2>1. Cut(s, n) = s /\ (cut \/ Len(s) > n) = cut
    BY <1>2 DEF Cut
  <2> QED
    BY <2>1
<1>3. CASE Len(s) > n
  <2> DEFINE x == SubSeq(s, 1, n)
  <2>1. \A i \in 1 .. n : s[i] \in ToSet(s)
    <3>1. \A i \in 1 .. n : i \in 1 .. Len(s)
      BY <1>1, <1>3
    <3> QED
      BY <1>1, <3>1, ElementOfSeq
  <2>2. /\ x \in Seq(ToSet(s)) /\ Len(x) = (IF 1 <= n THEN n - 1 + 1 ELSE 0)
        /\ \A i \in 1 .. n - 1 + 1 : x[i] = s[1 + i - 1]
    BY <2>1, SubSeqProperties
  <2> HIDE DEF x
  <2>3. Len(x) = n /\ \A i \in 1 .. n : x[i] = s[i]
    BY <2>2
  <2>4. IsSequence(x)
    BY <2>2, SequencesAreSequences
  <2>5. ASSUME NEW p \in 1 .. Len(x), x[p].from # NoValue
        PROVE  IsSequence(x[p].from) /\ (NearCut(x, TRUE, p) \/ Covered(x, x[p].from, p))
    <3> DEFINE v == s[p].from
    <3>1. p \in 1 .. Len(s) /\ x[p] = s[p] /\ p \in 1 .. n
      BY <1>1, <1>3, <2>3
    <3>2. IsSequence(v) /\ (NearCut(s, cut, p) \/ Covered(s, v, p))
      BY <2>5, <3>1 DEF Intact
    <3>3. Len(v) \in Nat /\ DOMAIN v = 1 .. Len(v)
      BY <3>2, SequenceTypes
    <3>4. NearCut(s, cut, p) => p > Len(s) - (Len(v) - 1)
      BY DEF NearCut
    <3>5. p > Len(x) - (Len(v) - 1) => NearCut(x, TRUE, p)
      BY <3>1 DEF NearCut
    <3> HIDE DEF v
    <3>6. CASE NearCut(s, cut, p)
      <4>1. p > Len(s) - (Len(v) - 1)
        BY <3>4, <3>6
      <4>2. p > Len(x) - (Len(v) - 1)
        BY <1>1, <1>3, <2>3, <3>1, <3>3, <4>1
      <4> QED
        BY <3>1, <3>2, <3>5, <4>2 DEF v
    <3>7. CASE Covered(s, v, p)
      <4>1. PICK b \in 1 .. p : p < b + Len(v) /\ OccursAt(s, v, b)
        BY <3>7 DEF Covered
      <4>2. CASE b + Len(v) - 1 <= n
        <5>1. ASSUME NEW k \in 1 .. Len(v) PROVE x[b + k - 1].c = v[k]
          <6> DEFINE i == b + k - 1
          <6>1. i \in 1 .. n
            BY <3>1, <3>3, <4>1, <4>2
          <6>2. s[i].c = v[k]
            BY <3>3, <4>1 DEF OccursAt
          <6> HIDE DEF i
          <6>3. x[i].c = v[k]
            BY <2>3, <6>1, <6>2
          <6> QED
            BY <6>3 DEF i
        <5>2. OccursAt(x, v, b)
          BY <2>3, <3>3, <4>2, <5>1 DEF OccursAt
        <5>3. Covered(x, v, p)
          BY <4>1, <5>2 DEF Covered
        <5> QED
          BY <3>1, <3>2, <5>3 DEF v
      <4>3. CASE b + Len(v) - 1 > n
        <5>1. p > Len(x) - (Len(v) - 1)
          BY <2>3, <3>1, <3>3, <4>1, <4>3
        <5> QED
          BY <3>1, <3>2, <3>5, <5>1 DEF v
      <4>4. b + Len(v) - 1 <= n \/ b + Len(v) - 1 > n
        <5>1. b \in Int /\ Len(v) \in Int /\ n \in Int
          BY <3>3, <4>1
        <5> QED
          BY ONLY <5>1
      <4> QED
        BY <4>2, <4>3, <4>4, Zenon
    <3> QED
      BY <3>2, <3>6, <3>7
  <2>6. Intact(x, TRUE)
    BY <2>4, <2>5 DEF Intact
  <2> QED
    BY <1>3, <2>6 DEF Cut, x
<1> QED
  BY <1>2, <1>3

-----------------------------------------------------------------------------
(* From the secrets to what is shown. *)

TextValued(f) == \A n \in DOMAIN f : IsSequence(f[n])

\* Variables and secrets have texts as their values.
ValuesInv == TextValued(bag) /\ TextValued(values) /\ TextValued(table)

\* What is resolved has the values that were written in whole, and the redactor's memory
\* is of the last answers.
ResolvedInv ==
    /\ used = given /\ IsFiniteSet(DOMAIN used) /\ TextValued(used)
    /\ \A f \in DOMAIN out : Intact(out[f], FALSE)
    /\ DOMAIN at = {"field", "i"} /\ (at.field # "none" => at.field \in DOMAIN out)

LastAnswers == {used[n] : n \in DOMAIN used}

\* What is sent is resolved, and its redactor is built from the last answers.
SentInv ==
    pc \in {"sent", "answered", "minted"} =>
        /\ NextFields \cup BodyFields = {} /\ wire \in Wires
        /\ redactor \in LongestFirst(LastAnswers)

AnswerInv ==
    pc = "answered" => /\ answer.cut \in BOOLEAN /\ Intact(answer.body, answer.cut)
                       /\ Intact(answer.header, FALSE)

InjectedInv == ValuesInv /\ ResolvedInv /\ SentInv /\ AnswerInv

LEMMA TextsStayValued ==
    ASSUME NEW f, TextValued(f), NEW n
    PROVE  /\ \A v : IsSequence(v) => TextValued(Assigned(f, n, v))
           /\ TextValued(Unassigned(f, n))
BY DEF TextValued, Assigned, Unassigned

LEMMA InjectedInvHoldsAtFirst ==
    ASSUME PipelineInit
    PROVE  InjectedInv
<1>1. /\ pc = "start" /\ request \in Requests /\ values = request.vars /\ bag = request.vars
      /\ table = request.secrets /\ used = given /\ DOMAIN used = {} /\ DOMAIN out = {}
      /\ at = [field |-> "none", i |-> 1]
  BY DEF PipelineInit, ScriptInit, NoText
<1>2. TextValued(request.vars) /\ TextValued(request.secrets)
  BY <1>1, RequestsAssumption DEF TextValued
<1>3. IsFiniteSet(DOMAIN used)
  BY <1>1, FS_EmptySet
<1>4. DOMAIN at = {"field", "i"} /\ at.field = "none"
  BY <1>1
<1> QED
  BY <1>1, <1>2, <1>3, <1>4
  DEF InjectedInv, ValuesInv, ResolvedInv, SentInv, AnswerInv, TextValued

LEMMA ScriptStepsKeepTheBag ==
    ASSUME TextValued(bag), ScriptStep
    PROVE  TextValued(bag)'
<1>1. ASSUME bag' = bag PROVE TextValued(bag)'
  BY <1>1 DEF TextValued
<1>2. ASSUME NEW n \in VarNames, UnsetVar(n) \/ \E v \in VarValues : SetVar(n, v)
      PROVE  TextValued(bag)'
  <2>1. CASE UnsetVar(n)
    <3>1. bag' = Unassigned(bag, n)
      BY <2>1 DEF UnsetVar
    <3>2. TextValued(bag')
      BY <3>1, TextsStayValued
    <3> QED
      BY <3>2 DEF TextValued
  <2>2. ASSUME NEW v \in VarValues, SetVar(n, v) PROVE TextValued(bag)'
    <3>1. bag' = Assigned(bag, n, v) /\ IsSequence(v)
      BY <2>2, ScriptAssumption DEF SetVar
    <3>2. TextValued(bag')
      BY <3>1, TextsStayValued
    <3> QED
      BY <3>2 DEF TextValued
  <2> QED
    BY <1>2, <2>1, <2>2
<1>3. ASSUME NEW v, WriteURL(v) \/ WriteBody(v) PROVE bag' = bag
  BY <1>3 DEF WriteURL, WriteBody, WriteText
<1>4. ASSUME NEW n, NEW v, AddHeader(n, v) \/ UpsertHeader(n, v) PROVE bag' = bag
  BY <1>4 DEF AddHeader, UpsertHeader, OnHeaders
<1>5. ASSUME NEW k, RemoveHeader(k) PROVE bag' = bag
  BY <1>5 DEF RemoveHeader, OnHeaders
<1>6. ASSUME EachStart \/ EachNext \/ EachEnd PROVE bag' = bag
  BY <1>6 DEF EachStart, EachNext, EachEnd, OnLoop
<1>7. ASSUME \/ \E passed \in BOOLEAN : Report(passed)
             \/ TestBegin \/ TestReturns \/ TestThrows
      PROVE  bag' = bag
  BY <1>7 DEF Report, TestBegin, TestReturns, TestThrows, OnTests
<1>8. ASSUME ScriptReturns \/ ScriptFails PROVE bag' = bag
  BY <1>8 DEF ScriptReturns, ScriptFails
<1>9. ASSUME NEW phase, ScriptStarts(phase) PROVE bag' = bag
  BY <1>9 DEF ScriptStarts
<1>10. ASSUME UNCHANGED scriptVars PROVE bag' = bag
  BY <1>10 DEF scriptVars
<1> QED
  BY <1>1, <1>2, <1>3, <1>4, <1>5, <1>6, <1>7, <1>8, <1>9, <1>10 DEF ScriptStep, Statement

LEMMA StepsKeepValues ==
    ASSUME ValuesInv, [PipelineNext]_pipelineVars
    PROVE  ValuesInv'
<1>1. TextValued(bag)'
  BY PipelineStepIsAScriptStep, ScriptStepsKeepTheBag DEF ValuesInv
<1>2. TextValued(values) /\ TextValued(table) /\ TextValued(bag)
  BY DEF ValuesInv
<1>3. ASSUME values' = values, table' = table PROVE ValuesInv'
  BY <1>1, <1>2, <1>3 DEF ValuesInv, TextValued
<1>4. CASE UNCHANGED pipelineVars
  BY <1>3, <1>4 DEF pipelineVars, dataVars
<1>5. ASSUME NEW n \in SecretNames, DeleteSecret(n) \/ \E v \in SecretValues : PutSecret(n, v)
      PROVE  ValuesInv'
  <2>1. values' = values
    BY <1>5 DEF DeleteSecret, PutSecret
  <2>2. TextValued(table')
    <3>1. CASE DeleteSecret(n)
      BY <1>2, <3>1, TextsStayValued DEF DeleteSecret
    <3>2. ASSUME NEW v \in SecretValues, PutSecret(n, v) PROVE TextValued(table')
      BY <1>2, <3>2, TextsStayValued, RequestsAssumption DEF PutSecret
    <3> QED
      BY <1>5, <3>1, <3>2
  <2> QED
    BY <1>1, <1>2, <2>1, <2>2 DEF ValuesInv, TextValued
<1>6. CASE PreReturns
  <2>1. /\ table' = table
        /\ values' = [n \in DOMAIN bag \cup DOMAIN values |->
                        IF n \in DOMAIN bag THEN bag[n] ELSE values[n]]
    BY <1>6 DEF PreReturns
  <2>2. TextValued(values')
    BY <1>2, <2>1 DEF TextValued
  <2> QED
    BY <1>1, <1>2, <2>1, <2>2 DEF ValuesInv, TextValued
<1>7. CASE Start \/ RunScript \/ PreFails \/ StartTest \/ TestEnds
  BY <1>3, <1>7 DEF Start, RunScript, PreFails, StartTest, TestEnds, dataVars
<1>8. ASSUME NEW f, BeginField(f) PROVE ValuesInv'
  BY <1>3, <1>8 DEF BeginField
<1>9. CASE ResolveSymbol \/ EndField
  BY <1>3, <1>9 DEF ResolveSymbol, EndField
<1>10. CASE Refuse \/ Send \/ MintTicket \/ Answered \/ CallFails
  BY <1>3, <1>10 DEF Refuse, Send, MintTicket, Answered, CallFails, dataVars
<1> QED
  BY <1>4, <1>5, <1>6, <1>7, <1>8, <1>9, <1>10 DEF PipelineNext

\* A symbol is replaced by a whole text, and a secret's last answer is remembered.
LEMMA ResolveSymbolKeepsResolved ==
    ASSUME ValuesInv, ResolvedInv, ResolveSymbol
    PROVE  ResolvedInv'
<1> DEFINE n == Symbol  f == at.field
<1>1. /\ f \in DOMAIN out /\ out' = [out EXCEPT ![f] = @ \o Replacement(n)]
      /\ used' = IF LookedUp(n) THEN Assigned(used, n, table[n]) ELSE used
      /\ given' = IF LookedUp(n) THEN Assigned(given, n, table[n]) ELSE given
      /\ at' = [at EXCEPT !.i = @ + 1]
  BY DEF ResolveSymbol, ResolvedInv, Remembered
<1> HIDE DEF n, f
<1>2. Intact(Replacement(n), FALSE)
  <2>1. CASE n \in DOMAIN values
    BY <2>1, PlainTextIsIntact DEF Replacement, ValuesInv, TextValued
  <2>2. CASE n \notin DOMAIN values /\ n \in DOMAIN table
    BY <2>2, InjectedIsIntact DEF Replacement, ValuesInv, TextValued
  <2>3. CASE n \notin DOMAIN values /\ n \notin DOMAIN table
    <3>1. <<n>> \in Seq({n})
      OBVIOUS
    <3>2. IsSequence(<<n>>)
      BY <3>1, SequencesAreSequences
    <3> QED
      BY <2>3, <3>2, PlainTextIsIntact DEF Replacement
  <2> QED
    BY <2>1, <2>2, <2>3
<1>3. \A g \in DOMAIN out' : Intact(out'[g], FALSE)
  <2>1. Intact(out[f] \o Replacement(n), FALSE)
    BY <1>1, <1>2, ConcatenationIsIntact DEF ResolvedInv
  <2> DEFINE x == out[f] \o Replacement(n)
  <2>2. out' = [out EXCEPT ![f] = x]
    BY <1>1
  <2> HIDE DEF x
  <2>3. \A g \in DOMAIN out' : g \in DOMAIN out /\ out'[g] = IF g = f THEN x ELSE out[g]
    BY <2>2
  <2> QED
    BY <2>1, <2>3 DEF ResolvedInv, x
<1>4. used' = given'
  BY <1>1 DEF ResolvedInv
<1>5. IsFiniteSet(DOMAIN used') /\ TextValued(used')
  <2>1. CASE LookedUp(n)
    <3>1. used' = Assigned(used, n, table[n]) /\ IsSequence(table[n])
      BY <1>1, <2>1 DEF LookedUp, ValuesInv, TextValued
    <3>2. DOMAIN used' = DOMAIN used \cup {n}
      BY <3>1 DEF Assigned
    <3>3. IsFiniteSet(DOMAIN used \cup {n})
      BY FS_AddElement DEF ResolvedInv
    <3>4. TextValued(Assigned(used, n, table[n]))
      BY <3>1, TextsStayValued DEF ResolvedInv
    <3> QED
      BY <3>1, <3>2, <3>3, <3>4
  <2>2. CASE ~ LookedUp(n)
    BY <1>1, <2>2 DEF ResolvedInv
  <2> QED
    BY <2>1, <2>2
<1>6. DOMAIN at' = {"field", "i"} /\ at'.field = f
  BY <1>1 DEF ResolvedInv, f
<1>7. f \in DOMAIN out'
  BY <1>1
<1> QED
  BY <1>3, <1>4, <1>5, <1>6, <1>7 DEF ResolvedInv, TextValued

LEMMA StepsKeepResolved ==
    ASSUME ValuesInv, ResolvedInv, [PipelineNext]_pipelineVars
    PROVE  ResolvedInv'
<1>1. ASSUME UNCHANGED <<used, given, out, at>> PROVE ResolvedInv'
  BY <1>1 DEF ResolvedInv, TextValued
<1>2. CASE UNCHANGED pipelineVars
  BY <1>1, <1>2 DEF pipelineVars, dataVars
<1>3. ASSUME NEW n \in SecretNames, DeleteSecret(n) \/ \E v \in SecretValues : PutSecret(n, v)
      PROVE  ResolvedInv'
  BY <1>1, <1>3 DEF DeleteSecret, PutSecret
<1>4. CASE Start \/ RunScript \/ PreFails \/ StartTest \/ TestEnds
  BY <1>1, <1>4 DEF Start, RunScript, PreFails, StartTest, TestEnds, dataVars
<1>5. CASE PreReturns
  BY <1>1, <1>5 DEF PreReturns
<1>6. ASSUME NEW f, BeginField(f) PROVE ResolvedInv'
  <2>1. out' = Assigned(out, f, <<>>) /\ at' = [field |-> f, i |-> 1] /\ used' = used /\ given' = given
    BY <1>6 DEF BeginField
  <2>2. \A g \in DOMAIN out' : Intact(out'[g], FALSE)
    BY <2>1, EmptyIsIntact DEF ResolvedInv, Assigned
  <2>3. at'.field \in DOMAIN out' /\ DOMAIN at' = {"field", "i"}
    BY <2>1 DEF Assigned
  <2> QED
    BY <2>1, <2>2, <2>3 DEF ResolvedInv, TextValued
<1>7. CASE ResolveSymbol
  BY <1>7, ResolveSymbolKeepsResolved
<1>8. CASE EndField
  <2>1. at' = [field |-> "none", i |-> 1] /\ UNCHANGED <<out, used, given>>
    BY <1>8 DEF EndField
  <2>2. at'.field = "none" /\ DOMAIN at' = {"field", "i"}
    BY <2>1
  <2> QED
    BY <2>1, <2>2 DEF ResolvedInv, TextValued
<1>9. CASE Refuse \/ Send \/ MintTicket \/ Answered \/ CallFails
  BY <1>1, <1>9 DEF Refuse, Send, MintTicket, Answered, CallFails, dataVars
<1> QED
  BY <1>2, <1>3, <1>4, <1>5, <1>6, <1>7, <1>8, <1>9 DEF PipelineNext

LEMMA WhatIsSentIsIntact ==
    ASSUME ResolvedInv, SentInv, pc \in {"sent", "answered", "minted"}
    PROVE  /\ Intact(out["url"], FALSE) /\ Intact(FinalURL, FALSE) /\ Intact(SentBody, FALSE)
           /\ \A h \in HeaderFields : Intact(out[h], FALSE)
           /\ \A x \in Received : Intact(x, FALSE)
<1>1. NextFields = {} /\ BodyFields = {} /\ wire \in Wires
  BY DEF SentInv
<1>2. "url" \in DOMAIN out /\ "query" \in DOMAIN out /\ \A h \in HeaderFields : h \in DOMAIN out
  BY <1>1 DEF NextFields, Todo
<1>3. "body" \in DOMAIN out \/ request.type = "none"
  BY <1>1 DEF BodyFields, Todo
<1>4. \A f \in DOMAIN out : Intact(out[f], FALSE)
  BY DEF ResolvedInv
<1>5. Intact(FinalURL, FALSE)
  <2>1. Intact(out["url"] \o out["query"], FALSE)
    BY <1>2, <1>4, ConcatenationIsIntact
  <2> QED
    BY <2>1, EncodedIsIntact DEF FinalURL
<1>6. Intact(SentBody, FALSE)
  <2>1. CASE request.type = "none"
    BY <2>1, EmptyIsIntact DEF SentBody
  <2>2. CASE request.type = "graphql"
    <3>1. Intact(out["body"], FALSE)
      BY <1>3, <1>4, <2>2
    <3> QED
      BY <2>2, <3>1, EncodedIsIntact DEF SentBody
  <2>3. CASE request.type # "none" /\ request.type # "graphql"
    BY <1>3, <1>4, <2>3 DEF SentBody
  <2> QED
    BY <2>1, <2>2, <2>3
<1>7. ASSUME NEW k \in DOMAIN wire PROVE Intact(HeaderText(wire[k]), FALSE)
  <2>1. PICK w \in HeadersSet :
          wire = IF JsonBody /\ NoContentType(w) THEN Assigned(w, ContentType, "json") ELSE w
    BY <1>1 DEF Wires
  <2>2. wire[k] = "json" \/ wire[k] \in HeaderFields
    BY <2>1 DEF HeadersSet, Assigned
  <2>3. Intact(PlainText(<<"application/json">>), FALSE)
    <3>1. ASSUME NEW c PROVE IsSequence(<<c>>)
      <4>1. <<c>> \in Seq({c})
        OBVIOUS
      <4> QED
        BY <4>1, SequencesAreSequences
    <3> QED
      BY <3>1, PlainTextIsIntact
  <2> QED
    BY <1>2, <1>4, <2>2, <2>3 DEF HeaderText
<1> QED
  BY <1>2, <1>4, <1>5, <1>6, <1>7 DEF Received

LEMMA StepsKeepSent ==
    ASSUME SentInv, [PipelineNext]_pipelineVars
    PROVE  SentInv'
<1>1. ASSUME pc' \notin {"sent", "answered", "minted"} PROVE SentInv'
  BY <1>1 DEF SentInv
<1>2. ASSUME UNCHANGED <<request, template, out>>, LastAnswers' = LastAnswers,
             NextFields \cup BodyFields = {}, wire' \in Wires, redactor' \in LongestFirst(LastAnswers)
      PROVE  SentInv'
  <2>1. NextFields' = NextFields /\ BodyFields' = BodyFields /\ Wires' = Wires
    BY <1>2 DEF NextFields, BodyFields, HeaderFields, Todo, Wires, HeadersSet, JsonBody,
                NoContentType
  <2> QED
    BY <1>2, <2>1 DEF SentInv
<1>3. ASSUME pc \in {"sent", "answered", "minted"},
             UNCHANGED <<request, template, out, used, wire, redactor>>
      PROVE  SentInv'
  <2>1. LastAnswers' = LastAnswers
    BY <1>3 DEF LastAnswers
  <2> QED
    BY <1>2, <1>3, <2>1 DEF SentInv
<1>4. CASE UNCHANGED pipelineVars
  BY <1>1, <1>3, <1>4 DEF pipelineVars, dataVars
<1>5. ASSUME NEW n \in SecretNames, DeleteSecret(n) \/ \E v \in SecretValues : PutSecret(n, v)
      PROVE  SentInv'
  BY <1>1, <1>5 DEF DeleteSecret, PutSecret, Looking
<1>6. CASE Start \/ RunScript \/ PreReturns \/ PreFails \/ StartTest \/ TestEnds
  BY <1>1, <1>6 DEF Start, RunScript, PreReturns, PreFails, StartTest, TestEnds
<1>7. ASSUME NEW f, BeginField(f) PROVE SentInv'
  BY <1>1, <1>7 DEF BeginField
<1>8. CASE ResolveSymbol \/ EndField \/ Refuse \/ CallFails
  BY <1>1, <1>8 DEF ResolveSymbol, EndField, Refuse, CallFails
<1>9. CASE Send \/ MintTicket
  <2>1. /\ UNCHANGED <<request, template, out, used>> /\ NextFields \cup BodyFields = {}
        /\ wire' \in Wires /\ redactor' \in LongestFirst(LastAnswers)
    BY <1>9 DEF Send, MintTicket, Resolved, LastAnswers
  <2>2. LastAnswers' = LastAnswers
    BY <2>1 DEF LastAnswers
  <2> QED
    BY <1>2, <2>1, <2>2
<1>10. CASE Answered
  BY <1>3, <1>10 DEF Answered
<1> QED
  BY <1>4, <1>5, <1>6, <1>7, <1>8, <1>9, <1>10 DEF PipelineNext

LEMMA StepsKeepAnswers ==
    ASSUME ResolvedInv, SentInv, AnswerInv, [PipelineNext]_pipelineVars
    PROVE  AnswerInv'
<1>1. ASSUME pc' # "answered" PROVE AnswerInv'
  BY <1>1 DEF AnswerInv
<1>2. CASE UNCHANGED pipelineVars
  BY <1>2 DEF AnswerInv, pipelineVars, dataVars
<1>3. ASSUME NEW n \in SecretNames, DeleteSecret(n) \/ \E v \in SecretValues : PutSecret(n, v)
      PROVE  AnswerInv'
  BY <1>1, <1>3 DEF DeleteSecret, PutSecret, Looking
<1>4. CASE Start \/ RunScript \/ PreReturns \/ PreFails \/ StartTest \/ TestEnds
  BY <1>1, <1>4 DEF Start, RunScript, PreReturns, PreFails, StartTest, TestEnds
<1>5. ASSUME NEW f, BeginField(f) PROVE AnswerInv'
  BY <1>1, <1>5 DEF BeginField
<1>6. CASE ResolveSymbol \/ EndField \/ Refuse \/ Send \/ MintTicket \/ CallFails
  BY <1>1, <1>6 DEF ResolveSymbol, EndField, Refuse, Send, MintTicket, CallFails
<1>7. CASE Answered
  <2>1. PICK s \in Received, x \in Received :
          answer' = [status |-> x, name |-> x, header |-> x, body |-> Cut(s \o x, BodyCap),
                     cut |-> Len(s \o x) > BodyCap]
    BY <1>7 DEF Answered
  <2>2. Intact(s, FALSE) /\ Intact(x, FALSE)
    BY <1>7, <2>1, WhatIsSentIsIntact DEF Answered
  <2> DEFINE b == s \o x  c == Len(b) > BodyCap  y == Cut(b, BodyCap)
  <2>3. Intact(b, FALSE)
    BY <2>2, ConcatenationIsIntact
  <2>4. answer' = [status |-> x, name |-> x, header |-> x, body |-> y, cut |-> c]
    BY <2>1
  <2> HIDE DEF b
  <2>5. Intact(y, c)
    <3>1. BodyCap \in Nat
      BY CapsAssumption
    <3>2. Intact(Cut(b, BodyCap), FALSE \/ Len(b) > BodyCap)
      BY <2>3, <3>1, CutIsIntact
    <3>3. (FALSE \/ Len(b) > BodyCap) = c
      OBVIOUS
    <3> QED
      BY <3>2, <3>3
  <2>6. c \in BOOLEAN
    OBVIOUS
  <2> HIDE DEF c, y
  <2>7. answer'.body = y /\ answer'.header = x /\ answer'.cut = c
    BY <2>4
  <2> QED
    BY <2>2, <2>5, <2>6, <2>7 DEF AnswerInv
<1> QED
  BY <1>2, <1>3, <1>4, <1>5, <1>6, <1>7 DEF PipelineNext

\* Of a value of the redactor a text that is shown has nothing but what is near a cut.
Hides(R, t) ==
    \A i \in Remains(t.text) :
        t.text[i].from \in ToSet(R) => t.cut /\ i > Len(t.text) - (Len(t.text[i].from) - 1)

LEMMA MaskedTextsHide ==
    ASSUME NEW R, Redacts(R), NEW part, NEW cut \in BOOLEAN, NEW x, Intact(x, cut)
    PROVE  Hides(R, Output(part, Masked(R, x), cut))
<1> DEFINE M == Masked(R, x)
<1>1. /\ IsSequence(M)
      /\ \A q \in 1 .. Len(M) :
            M[q].from # NoValue /\ M[q].from \in ToSet(R) => NearCut(M, cut, q)
  BY MaskedHidesValues
<1> HIDE DEF M
<1>2. DOMAIN M = 1 .. Len(M)
  BY <1>1, SequenceTypes
<1>3. Output(part, M, cut).text = M /\ Output(part, M, cut).cut = cut
  BY DEF Output
<1>4. \A i \in Remains(M) : M[i].from \in ToSet(R) =>
        cut /\ i > Len(M) - (Len(M[i].from) - 1)
  BY <1>1, <1>2 DEF Remains, NearCut
<1>5. Hides(R, Output(part, M, cut))
  BY <1>3, <1>4 DEF Hides
<1> QED
  BY <1>5 DEF M

LEMMA MaskedHeadersHide ==
    ASSUME NEW R, Redacts(R), NEW sensitive \in BOOLEAN, NEW x, Intact(x, FALSE)
    PROVE  Hides(R, Output("header", MaskedHeader(R, sensitive, x), FALSE))
<1>1. CASE sensitive
  <2>1. MaskedHeader(R, sensitive, x) = <<Stars>>
    BY <1>1 DEF MaskedHeader
  <2>2. Remains(<<Stars>>) = {}
    BY DEF Remains, Stars
  <2> QED
    BY <2>1, <2>2 DEF Hides, Output
<1>2. CASE ~ sensitive
  <2>1. MaskedHeader(R, sensitive, x) = Masked(R, x)
    BY <1>2 DEF MaskedHeader
  <2> QED
    BY <2>1, MaskedTextsHide
<1> QED
  BY <1>1, <1>2

LEMMA WhatIsShownHides ==
    ASSUME InjectedInv, pc \in {"answered", "minted"}, Redacts(redactor), NEW t \in Shown,
           t.part \notin PassedOn
    PROVE  Hides(redactor, t)
<1>1. /\ Intact(out["url"], FALSE) /\ Intact(FinalURL, FALSE) /\ Intact(SentBody, FALSE)
      /\ \A h \in HeaderFields : Intact(out[h], FALSE)
      /\ \A x \in Received : Intact(x, FALSE)
  BY WhatIsSentIsIntact DEF InjectedInv
<1>2. ASSUME NEW x, Intact(x, FALSE), NEW part PROVE Hides(redactor, Whole(part, x))
  BY <1>2, MaskedTextsHide DEF Whole
<1>5. ASSUME NEW x, NEW part, t = AsItCame(part, x) PROVE part \notin PassedOn
  BY <1>5 DEF AsItCame, Output
<1>3. CASE pc = "minted"
  <2>1. t \in RelayShows
    BY <1>3 DEF Shown
  <2>2. ASSUME NEW x \in Received, NEW part \in {"subprotocol", "event type", "event id"},
               t = AsItCame(part, x)
        PROVE  FALSE
    BY <1>5, <2>2 DEF PassedOn
  <2>3. t = Whole("url", out["url"]) \/ \E x \in Received : t = Whole("data", x)
    <3>1. ASSUME NEW x \in Received,
                 t \in {Whole("data", x), AsItCame("subprotocol", x), AsItCame("event type", x),
                        AsItCame("event id", x)}
          PROVE  t = Whole("data", x)
      BY <2>2, <3>1
    <3> QED
      BY <2>1, <3>1 DEF RelayShows
  <2> QED
    BY <1>1, <1>2, <2>3
<1>4. CASE pc = "answered"
  <2>1. t \in TestRequest \cup TestResponse \cup RequestSnapshot \cup ResponseSnapshot
    BY <1>4 DEF Shown
  <2>2. /\ answer.cut \in BOOLEAN /\ Intact(answer.body, answer.cut)
        /\ Intact(answer.header, FALSE)
    BY <1>4 DEF InjectedInv, AnswerInv
  <2>3. t \in AnswerHeaders => Hides(redactor, t)
    <3>1. t # AsItCame("header name", answer.name)
      BY <1>5 DEF PassedOn
    <3>2. Hides(redactor, Output("header", MaskedHeader(redactor, FALSE, answer.header), FALSE))
      BY <2>2, MaskedHeadersHide
    <3> QED
      BY <3>1, <3>2 DEF AnswerHeaders
  <2>10. t # AsItCame("status text", answer.status)
    BY <1>5 DEF PassedOn
  <2>4. Hides(redactor, AnswerBody)
    BY <2>2, MaskedTextsHide DEF AnswerBody
  <2>5. ASSUME NEW n \in HeaderFields
        PROVE  Hides(redactor,
                     Output("header",
                            MaskedHeader(redactor, KeyOf[n] \in SensitiveHeaders, out[n]), FALSE))
    <3> DEFINE sensitive == KeyOf[n] \in SensitiveHeaders
    <3>1. sensitive \in BOOLEAN
      OBVIOUS
    <3> HIDE DEF sensitive
    <3>2. Intact(out[n], FALSE)
      BY <1>1
    <3>3. Hides(redactor, Output("header", MaskedHeader(redactor, sensitive, out[n]), FALSE))
      BY <3>1, <3>2, MaskedHeadersHide
    <3> QED
      BY <3>3 DEF sensitive
  <2>6. Hides(redactor,
              Output("body", Masked(redactor, HistoryBody),
                     answer.cut \/ Len(answer.body) > HistoryCap))
    <3>1. HistoryCap \in Nat
      BY CapsAssumption
    <3> DEFINE c == answer.cut \/ Len(answer.body) > HistoryCap
    <3>2. Intact(HistoryBody, c)
      BY <2>2, <3>1, CutIsIntact DEF HistoryBody
    <3>3. c \in BOOLEAN
      OBVIOUS
    <3> HIDE DEF c
    <3>4. Hides(redactor, Output("body", Masked(redactor, HistoryBody), c))
      BY <3>2, <3>3, MaskedTextsHide
    <3> QED
      BY <3>4 DEF c
  <2>7. CASE t \in TestRequest
    <3>1. CASE t \in {Whole("url", out["url"]), Whole("body", SentBody)}
      BY <1>1, <1>2, <3>1
    <3>2. CASE t \in RedactedRequestHeaders
      BY <2>5, <3>2 DEF RedactedRequestHeaders
    <3> QED
      BY <2>7, <3>1, <3>2 DEF TestRequest
  <2>8. CASE t \in TestResponse \cup RequestSnapshot
    <3>1. /\ Hides(redactor, Whole("url", FinalURL))
          /\ Hides(redactor, Whole("body", SentBody))
      BY <1>1, <1>2
    <3> QED
      BY <2>3, <2>4, <2>8, <2>10, <3>1 DEF TestResponse, RequestSnapshot
  <2>9. CASE t \in ResponseSnapshot
    BY <2>3, <2>6, <2>9 DEF ResponseSnapshot
  <2> QED
    BY <2>1, <2>7, <2>8, <2>9
<1> QED
  BY <1>3, <1>4

LEMMA InjectedInvIsEnough ==
    ASSUME InjectedInv
    PROVE  InjectedIsMasked
<1> SUFFICES ASSUME pc \in {"answered", "minted"}, NEW t \in Shown,
                    NEW i \in Remains(t.text), t.part \notin PassedOn,
                    NEW n \in DOMAIN given, given[n] = t.text[i].from,
                    ~ Overlapping(ToSet(redactor))
             PROVE  t.cut /\ i > Len(t.text) - (Len(t.text[i].from) - 1)
  BY DEF InjectedIsMasked
<1>1. used = given /\ IsFiniteSet(DOMAIN used) /\ TextValued(used)
  BY DEF InjectedInv, ResolvedInv
<1>2. IsFiniteSet(LastAnswers) /\ \A v \in LastAnswers : IsSequence(v)
  <2>1. LastAnswers = {used[m] : m \in DOMAIN used}
    BY DEF LastAnswers
  <2> DEFINE answers == [m \in DOMAIN used |-> used[m]]
  <2>2. answers \in Surjection(DOMAIN used, LastAnswers)
    BY <2>1 DEF Surjection
  <2> QED
    BY <1>1, <2>1, <2>2, FS_Surjection DEF TextValued
<1>3. redactor \in LongestFirst(LastAnswers)
  BY DEF InjectedInv, SentInv
<1>4. Redacts(redactor) /\ ToSet(redactor) = LastAnswers \ {NoValue}
  BY <1>2, <1>3, LongestFirstRedacts
<1>5. t.text[i].from \in ToSet(redactor)
  <2>1. given[n] \in LastAnswers
    BY <1>1 DEF LastAnswers
  <2>2. t.text[i].from # NoValue
    BY DEF Remains
  <2> QED
    BY <1>4, <2>1, <2>2
<1> QED
  BY <1>4, <1>5, WhatIsShownHides DEF Hides

\* No character of the last answer for a secret is shown, in the answer, to the test
\* script, in the history or by a relay, but for overlaps, cuts and the parts that are
\* passed on as they come (status text, header names, subprotocol, type and id of an
\* event): the resolver remembers the last answer for each name and the redactor masks
\* the longest first
\* (executor/resolve.go, redact.go and their use in execute.go and realtime.go).
THEOREM PipelineInjectedIsMasked == PipelineSpec => []InjectedIsMasked
<1>1. PipelineInit => InjectedInv
  BY InjectedInvHoldsAtFirst
<1>2. InjectedInv /\ [PipelineNext]_pipelineVars => InjectedInv'
  BY StepsKeepValues, StepsKeepResolved, StepsKeepSent, StepsKeepAnswers DEF InjectedInv
<1>3. InjectedInv => InjectedIsMasked
  BY InjectedInvIsEnough
<1> QED
  BY <1>1, <1>2, <1>3, PTL DEF PipelineSpec
==============================================================================
