------------------------------- MODULE Lemmas -------------------------------
(***************************************************************************)
(* What several proofs rest on.  Tables: what NewId, Put and Without give, *)
(* for any ids and rows; an INSERT goes past every row there is, and       *)
(* neither it nor a DELETE disturbs the rows that it is not about.         *)
(* Induction: a loop of any number of passes has its values, so that there *)
(* is such a recursive function.  Remainders: what one more leaves.        *)
(* Sequences: of one, of a function, joined, and their parts.              *)
(***************************************************************************)
EXTENDS SqlTable, NaturalsInduction, WellFoundedInduction, SequenceTheorems, TLAPS

-----------------------------------------------------------------------------
(* Tables. *)

\* A bounded set of numbers that is not empty has a largest member, and Max is
\* that member: the id that an INSERT goes past.
LEMMA MaxIsLargest ==
    ASSUME NEW S \in SUBSET Nat, S # {}, NEW bound \in Nat, \A n \in S : n <= bound
    PROVE  Max(S) \in S /\ \A n \in S : n <= Max(S)
<1> DEFINE above == {m \in Nat : \A n \in S : n <= m}
<1>1. \E m \in above : \A k \in above : <<k, m>> \notin OpToRel(<, Nat)
  <2>1. bound \in above /\ above \subseteq Nat
    OBVIOUS
  <2> QED
    BY <2>1, NatLessThanWellFounded, WFMin
<1>2. PICK m \in above : \A k \in above : ~ (k < m)
  BY <1>1 DEF OpToRel
<1>3. m \in S
  <2> SUFFICES ASSUME m \notin S PROVE FALSE
    OBVIOUS
  <2>1. m \in Nat /\ \A n \in S : n \in Nat /\ n < m
    BY <1>2
  <2>2. m - 1 \in Nat
    <3>1. PICK n \in S : TRUE
      OBVIOUS
    <3> QED
      BY <2>1, <3>1
  <2>3. m - 1 \in above
    BY <2>1, <2>2
  <2> QED
    BY <1>2, <2>1, <2>3
<1>4. \E x \in S : \A y \in S : x >= y
  BY <1>2, <1>3
<1>5. Max(S) \in S /\ \A y \in S : Max(S) >= y
  BY <1>4 DEF Max
<1> QED
  BY <1>5

\* A table is a function on some of its ids.
LEMMA TablesAreFunctions ==
    ASSUME NEW I, NEW R, NEW t
    PROVE  t \in Table(I, R) <=> DOMAIN t \subseteq I /\ t \in [DOMAIN t -> R]
  BY DEF Table

LEMMA NoRowsAreATable ==
    ASSUME NEW I, NEW R
    PROVE  <<>> \in Table(I, R)
<1>1. DOMAIN <<>> = {} /\ <<>> \in [{} -> R]
  OBVIOUS
<1> QED
  BY <1>1, TablesAreFunctions

\* INSERT goes past every row there is.
LEMMA NewIdIsNew ==
    ASSUME NEW bound \in Nat, NEW R, NEW t \in Table(1 .. bound, R), NewId(t) <= bound
    PROVE  /\ NewId(t) \in 1 .. bound /\ NewId(t) \notin DOMAIN t
           /\ \A i \in DOMAIN t : i < NewId(t)
<1> DEFINE S == {0} \cup DOMAIN t
<1>1. S \in SUBSET Nat /\ S # {} /\ \A n \in S : n <= bound
  BY TablesAreFunctions
<1>2. Max(S) \in S /\ \A n \in S : n <= Max(S)
  BY <1>1, MaxIsLargest
<1>3. NewId(t) = Max(S) + 1 /\ Max(S) \in Nat
  BY <1>1, <1>2 DEF NewId
<1>4. ASSUME NEW i \in DOMAIN t PROVE i < NewId(t) /\ i \in Nat
  <2>1. i <= Max(S) /\ i \in Nat
    BY <1>1, <1>2
  <2> QED
    BY <1>3, <2>1
<1>5. ASSUME NewId(t) \in DOMAIN t PROVE FALSE
  <2>1. NewId(t) < NewId(t)
    BY <1>4, <1>5
  <2> QED
    BY <1>3, <2>1
<1>6. NewId(t) \in 1 .. bound
  BY <1>3
<1> QED
  BY <1>4, <1>5, <1>6

\* Put adds one row and keeps the others.
LEMMA PutKeepsTheOthers ==
    ASSUME NEW I, NEW R, NEW t \in Table(I, R), NEW id \in I, NEW row \in R
    PROVE  /\ Put(t, id, row) \in Table(I, R)
           /\ DOMAIN Put(t, id, row) = DOMAIN t \cup {id}
           /\ \A i \in DOMAIN t \ {id} : Put(t, id, row)[i] = t[i]
  BY TablesAreFunctions DEF Put

\* And the row it adds is that row.
LEMMA PutGivesTheRow ==
    ASSUME NEW t, NEW id, NEW row
    PROVE  Put(t, id, row)[id] = row
  BY DEF Put

\* Without drops rows and keeps the others.
LEMMA WithoutKeepsTheOthers ==
    ASSUME NEW I, NEW R, NEW t \in Table(I, R), NEW S
    PROVE  /\ Without(t, S) \in Table(I, R)
           /\ DOMAIN Without(t, S) = DOMAIN t \ S
           /\ \A i \in DOMAIN t \ S : Without(t, S)[i] = t[i]
  BY TablesAreFunctions DEF Without

-----------------------------------------------------------------------------
(* Induction. *)

\* A set with zero and, with a number, the next, has all numbers.
LEMMA EveryNumber ==
    ASSUME NEW S, 0 \in S, \A n \in Nat : n \in S => n + 1 \in S
    PROVE  \A n \in Nat : n \in S
<1> SUFFICES ASSUME Nat \ S # {} PROVE FALSE
  OBVIOUS
<1> DEFINE T == Nat \ S
<1>1. \E x \in T : \A y \in T : ~ (<<y, x>> \in OpToRel(<, Nat))
  BY NatLessThanWellFounded, WFMin
<1>2. PICK x \in T : \A y \in T : ~ (y < x)
  BY <1>1 DEF OpToRel
<1>3. x - 1 \in Nat /\ x - 1 \notin T
  BY <1>2
<1> QED
  BY <1>2, <1>3

\* A loop of n passes: f has the values before the first and after each of them.
Passes(f, n, first, step) == f[0] = first /\ \A k \in 1 .. n : f[k] = step[k][f[k - 1]]

Runs(f, n, X, first, step) == f \in [0 .. n -> X] /\ Passes(f, n, first, step)

LEMMA LoopsHaveValues ==
    ASSUME NEW n \in Nat, NEW X, NEW first \in X, NEW step \in [Nat -> [X -> X]]
    PROVE  \E f : Runs(f, n, X, first, step)
<1> DEFINE Has(m) == \E f \in [0 .. m -> X] :
                        f[0] = first /\ \A k \in 1 .. m : f[k] = step[k][f[k - 1]]
           S == {m \in Nat : Has(m)}
<1>1. 0 \in S
  <2> DEFINE z == [k \in 0 .. 0 |-> first]
  <2>1. z \in [0 .. 0 -> X] /\ z[0] = first
    OBVIOUS
  <2> HIDE DEF z
  <2>2. Has(0)
    BY <2>1
  <2> QED
    BY <2>2
<1>2. ASSUME NEW m \in Nat, m \in S PROVE m + 1 \in S
  <2>1. PICK f \in [0 .. m -> X] : f[0] = first /\ \A k \in 1 .. m : f[k] = step[k][f[k - 1]]
    BY <1>2
  <2> DEFINE g == [k \in 0 .. m + 1 |-> IF k <= m THEN f[k] ELSE step[k][f[m]]]
  <2>2. g \in [0 .. m + 1 -> X] /\ g[0] = first
    BY <2>1
  <2>3. ASSUME NEW k \in 1 .. m + 1
        PROVE  g[k] = step[k][g[k - 1]]
    <3>1. CASE k \in 1 .. m
      <4>1. f[k] = step[k][f[k - 1]]
        BY <2>1, <3>1
      <4>2. g[k] = f[k] /\ g[k - 1] = f[k - 1]
        BY <3>1
      <4> QED
        BY ONLY <4>1, <4>2
    <3>2. CASE k = m + 1
      <4>1. g[k] = step[k][f[m]] /\ g[k - 1] = f[m]
        BY <3>2
      <4> QED
        BY ONLY <4>1
    <3> QED
      BY <3>1, <3>2
  <2> HIDE DEF g
  <2> QED
    BY <2>2, <2>3
<1>3. n \in S
  <2> HIDE DEF S
  <2> QED
    BY <1>1, <1>2, EveryNumber
<1> QED
  BY <1>3 DEF Runs, Passes

\* Two loops of the same passes, from the same value, have the same values.
LEMMA LoopsHaveOneValue ==
    ASSUME NEW n \in Nat, NEW f, NEW g, NEW first, NEW step,
           Passes(f, n, first, step), Passes(g, n, first, step)
    PROVE  \A k \in 0 .. n : f[k] = g[k]
<1> DEFINE S == {k \in Nat : k <= n => f[k] = g[k]}
<1>1. 0 \in S
  BY DEF Passes
<1>2. ASSUME NEW k \in Nat, k \in S PROVE k + 1 \in S
  <2> SUFFICES ASSUME k + 1 <= n PROVE f[k + 1] = g[k + 1]
    OBVIOUS
  <2>1. k + 1 \in 1 .. n /\ k <= n /\ (k + 1) - 1 = k
    OBVIOUS
  <2>2. f[k] = g[k]
    BY <1>2, <2>1
  <2>3. f[k + 1] = step[k + 1][f[k]] /\ g[k + 1] = step[k + 1][g[k]]
    BY <2>1 DEF Passes
  <2> QED
    BY ONLY <2>2, <2>3
<1>3. \A k \in Nat : k \in S
  <2> HIDE DEF S
  <2> QED
    BY <1>1, <1>2, EveryNumber
<1> QED
  BY <1>3

-----------------------------------------------------------------------------
(* Remainders. *)

\* What is left when d are taken as often as can be.
LEMMA RestsAreRests ==
    ASSUME NEW d \in Nat \ {0}, NEW q \in Nat, NEW r \in 0 .. d - 1
    PROVE  d * q + r \in Nat /\ (d * q + r) % d = r
  BY SMTT(30)

\* What is left of one more is one more, or nothing.
LEMMA RestsGrow ==
    ASSUME NEW n \in Nat, NEW d \in Nat \ {0}
    PROVE  /\ n % d \in 0 .. d - 1 /\ n % d <= n
           /\ (n + 1) % d = IF n % d = d - 1 THEN 0 ELSE (n % d) + 1
<1> DEFINE Divides(m) == \E q \in Nat, r \in 0 .. d - 1 : m = d * q + r
           S == {m \in Nat : Divides(m)}
<1>1. 0 \in S
  <2>1. 0 \in 0 .. d - 1 /\ 0 = d * 0 + 0
    OBVIOUS
  <2> QED
    BY <2>1
<1>2. ASSUME NEW m \in Nat, m \in S PROVE m + 1 \in S
  <2>1. PICK q \in Nat, r \in 0 .. d - 1 : m = d * q + r
    BY <1>2
  <2>2. d * (q + 1) = d * q + d /\ d * q \in Nat
    OBVIOUS
  <2>3. CASE r = d - 1
    <3>1. m + 1 = d * (q + 1) + 0 /\ q + 1 \in Nat /\ 0 \in 0 .. d - 1
      BY <2>1, <2>2, <2>3
    <3>2. Divides(m + 1)
      BY <3>1
    <3> QED
      BY <3>2
  <2>4. CASE r # d - 1
    <3>1. m + 1 = d * q + (r + 1) /\ r + 1 \in 0 .. d - 1
      BY <2>1, <2>2, <2>4
    <3>2. Divides(m + 1)
      BY <3>1
    <3> QED
      BY <3>2
  <2> QED
    BY <2>3, <2>4
<1>3. n \in S
  <2> HIDE DEF S
  <2> QED
    BY <1>1, <1>2, EveryNumber
<1>4. PICK q \in Nat, r \in 0 .. d - 1 : n = d * q + r
  BY <1>3
<1>5. n % d = r /\ d * q \in Nat /\ r <= n
  BY <1>4, RestsAreRests
<1>6. CASE r = d - 1
  <2>1. n + 1 = d * (q + 1) + 0 /\ q + 1 \in Nat /\ 0 \in 0 .. d - 1
    BY <1>4, <1>6
  <2>2. (n + 1) % d = 0
    <3>1. d * (q + 1) + 0 \in Nat /\ (d * (q + 1) + 0) % d = 0
      BY <2>1, RestsAreRests
    <3> QED
      BY ONLY <2>1, <3>1
  <2> QED
    BY <1>5, <1>6, <2>2
<1>7. CASE r # d - 1
  <2>1. n + 1 = d * q + (r + 1) /\ r + 1 \in 0 .. d - 1
    BY <1>4, <1>5, <1>7
  <2>2. (n + 1) % d = r + 1
    <3> PICK m, p : m = n + 1 /\ p = r + 1
      OBVIOUS
    <3>1. m = d * q + p /\ p \in 0 .. d - 1 /\ q \in Nat
      BY <2>1
    <3>2. m % d = p
      BY ONLY <3>1, d \in Nat \ {0}, RestsAreRests
    <3> QED
      BY <3>2
  <2> QED
    BY <1>5, <1>7, <2>2
<1> QED
  BY <1>6, <1>7

-----------------------------------------------------------------------------
(* Sequences. *)

\* A sequence of one.
LEMMA Singles ==
    ASSUME NEW X, NEW x \in X
    PROVE  /\ <<x>> \in Seq(X) /\ Len(<<x>>) = 1 /\ <<x>>[1] = x /\ DOMAIN <<x>> = 1 .. 1
           /\ <<x>> # <<>>
           /\ \A s \in Seq(X) : Len(s) = 1 /\ s[1] = x => s = <<x>>
<1>1. <<>> \in Seq(X) /\ Len(<<>>) = 0 /\ <<x>> = Append(<<>>, x)
  BY EmptySeq
<1> PICK t : t = <<x>>
  OBVIOUS
<1>2. t \in Seq(X) /\ Len(t) = 1 /\ t[1] = x /\ t # <<>>
  <2>1. /\ t \in Seq(X) /\ t # <<>> /\ Len(t) = 0 + 1 /\ t[0 + 1] = x
    BY <1>1, AppendProperties
  <2> QED
    BY <2>1
<1>3. DOMAIN t = 1 .. 1
  BY <1>2, LenProperties
<1>4. \A s \in Seq(X) : Len(s) = 1 /\ s[1] = x => s = t
  <2> SUFFICES ASSUME NEW s \in Seq(X), Len(s) = 1, s[1] = x PROVE s = t
    OBVIOUS
  <2>1. \A i \in 1 .. Len(s) : s[i] = t[i]
    BY <1>2
  <2> QED
    BY <1>2, <2>1, SeqEqual
<1> QED
  BY <1>2, <1>3, <1>4

\* A function from 1 to n is a sequence of n.
LEMMA FunctionsAreSequences ==
    ASSUME NEW X, NEW n \in Nat, NEW f \in [1 .. n -> X]
    PROVE  f \in Seq(X) /\ Len(f) = n
  OBVIOUS

\* Two sequences, one behind the other.
LEMMA Joined ==
    ASSUME NEW X, NEW s \in Seq(X), NEW t \in Seq(X)
    PROVE  /\ s \o t \in Seq(X) /\ Len(s \o t) = Len(s) + Len(t)
           /\ \A i \in 1 .. Len(s) : (s \o t)[i] = s[i]
           /\ \A i \in 1 .. Len(t) : (s \o t)[Len(s) + i] = t[i]
<1> PICK u : u = s \o t
  OBVIOUS
<1> PICK m, n : m = Len(s) /\ n = Len(t)
  OBVIOUS
<1>1. m \in Nat /\ n \in Nat
  BY LenProperties
<1>2. /\ u \in Seq(X) /\ Len(u) = m + n
      /\ \A i \in 1 .. m + n : u[i] = IF i <= m THEN s[i] ELSE t[i - m]
  BY ConcatProperties
<1>3. ASSUME NEW i \in 1 .. m PROVE u[i] = s[i]
  BY <1>1, <1>2
<1>4. ASSUME NEW i \in 1 .. n PROVE u[m + i] = t[i]
  <2>1. m + i \in 1 .. m + n /\ ~ m + i <= m /\ (m + i) - m = i
    BY <1>1
  <2> QED
    BY <1>2, <2>1
<1> QED
  BY <1>1, <1>2, <1>3, <1>4

\* A part of a sequence has the members between its ends.
LEMMA PartsAre ==
    ASSUME NEW X, NEW s \in Seq(X), NEW a \in Nat, NEW b \in Nat, a >= 1, a <= b + 1,
           b <= Len(s)
    PROVE  /\ SubSeq(s, a, b) \in Seq(X) /\ Len(SubSeq(s, a, b)) = b + 1 - a
           /\ \A k \in 1 .. b + 1 - a : SubSeq(s, a, b)[k] = s[a + k - 1]
<1>1. \A k \in a .. b : s[k] \in X
  <2>1. \A k \in a .. b : k \in 1 .. Len(s)
    BY LenProperties
  <2> QED
    BY <2>1, ElementOfSeq
<1>2. a \in Int /\ b \in Int /\ b - a + 1 = b + 1 - a
      /\ (IF a <= b THEN b - a + 1 ELSE 0) = b + 1 - a
  OBVIOUS
<1> DEFINE p == SubSeq(s, a, b)
<1>3. /\ p \in Seq(X) /\ Len(p) = IF a <= b THEN b - a + 1 ELSE 0
      /\ \A k \in 1 .. b - a + 1 : p[k] = s[a + k - 1]
  BY <1>1, <1>2, SubSeqProperties
<1> QED
  BY <1>2, <1>3

\* Sequences that agree between two places have the same part there.
LEMMA PartsOfPrefix ==
    ASSUME NEW X, NEW s \in Seq(X), NEW t \in Seq(X), NEW a \in Nat, NEW b \in Nat, a >= 1,
           a <= b + 1, b <= Len(s), b <= Len(t), \A k \in a .. b : s[k] = t[k]
    PROVE  SubSeq(s, a, b) = SubSeq(t, a, b)
<1> DEFINE p == SubSeq(s, a, b)
           q == SubSeq(t, a, b)
<1>1. /\ p \in Seq(X) /\ Len(p) = b + 1 - a
      /\ \A k \in 1 .. b + 1 - a : p[k] = s[a + k - 1]
  BY PartsAre
<1>2. /\ q \in Seq(X) /\ Len(q) = b + 1 - a
      /\ \A k \in 1 .. b + 1 - a : q[k] = t[a + k - 1]
  BY PartsAre
<1> HIDE DEF p, q
<1>3. \A k \in 1 .. b + 1 - a : p[k] = q[k]
  <2>1. \A k \in 1 .. b + 1 - a : a + k - 1 \in a .. b
    OBVIOUS
  <2> QED
    BY <1>1, <1>2, <2>1
<1>4. p = q
  BY <1>1, <1>2, <1>3, SeqEqual
<1> QED
  BY <1>4 DEF p, q

\* A part that is one member longer is the part with that member appended.
LEMMA PartsGrow ==
    ASSUME NEW X, NEW s \in Seq(X), NEW b \in 1 .. Len(s), NEW a \in 1 .. b
    PROVE  SubSeq(s, a, b) = Append(SubSeq(s, a, b - 1), s[b])
<1> DEFINE p == SubSeq(s, a, b)
           q == SubSeq(s, a, b - 1)
           r == Append(q, s[b])
<1>1. /\ a \in Nat /\ a >= 1 /\ b \in Nat /\ b - 1 \in Nat /\ a <= b + 1 /\ a <= (b - 1) + 1
      /\ b <= Len(s) /\ b - 1 <= Len(s) /\ (b - 1) + 1 - a = b - a /\ b - a \in Nat
      /\ b + 1 - a = (b - a) + 1 /\ a + ((b - a) + 1) - 1 = b
  BY LenProperties
<1>2. /\ p \in Seq(X) /\ Len(p) = b + 1 - a
      /\ \A k \in 1 .. b + 1 - a : p[k] = s[a + k - 1]
  BY <1>1, PartsAre
<1>3. /\ q \in Seq(X) /\ Len(q) = (b - 1) + 1 - a
      /\ \A k \in 1 .. (b - 1) + 1 - a : q[k] = s[a + k - 1]
  BY <1>1, PartsAre
<1>4. s[b] \in X
  BY ElementOfSeq
<1> HIDE DEF p, q
<1>5. /\ r \in Seq(X) /\ Len(r) = (b - a) + 1 /\ r[(b - a) + 1] = s[b]
      /\ \A k \in 1 .. b - a : r[k] = q[k]
  BY <1>1, <1>3, <1>4, AppendProperties
<1> HIDE DEF r
<1>6. \A k \in 1 .. (b - a) + 1 : p[k] = r[k]
  <2>1. \A k \in 1 .. (b - a) + 1 : k \in 1 .. b - a \/ k = (b - a) + 1
    BY <1>1
  <2>2. \A k \in 1 .. b - a : p[k] = r[k]
    BY <1>1, <1>2, <1>3, <1>5
  <2>3. p[(b - a) + 1] = s[b]
    <3>1. (b - a) + 1 \in 1 .. b + 1 - a
      BY <1>1
    <3>2. p[(b - a) + 1] = s[a + ((b - a) + 1) - 1]
      BY <1>2, <3>1
    <3> QED
      BY <1>1, <3>2
  <2> QED
    BY <1>5, <2>1, <2>2, <2>3
<1>7. p = r
  BY <1>1, <1>2, <1>5, <1>6, SeqEqual
<1> QED
  BY <1>7 DEF p, q, r

=============================================================================
