------------------------------- MODULE Expect -------------------------------
(***************************************************************************)
(* pm.expect: which assertions hold of which JavaScript values.  A value   *)
(* is a record whose field t is its type; arrays, objects and functions    *)
(* have an identity.  Exporting a value to Go forgets the identity and     *)
(* makes null and undefined the same nil.  The chain of an expectation is  *)
(* its two modifiers, not and deep.  A script that asserts is a script of    *)
(* Script whose test reports what its assertion does.                      *)
(***************************************************************************)
EXTENDS Script

CONSTANTS
    JsValues,       \* the values that assertions are made of
    Infinity,       \* the largest number; - Infinity is the smallest
    DepthLimit      \* jsDeepEqual's limit on nested values

VARIABLE
    subject         \* history: the two values of the script's assertion

Undefined == [t |-> "undefined"]
Null == [t |-> "null"]
Bool(b) == [t |-> "boolean", b |-> b]
NaN == [t |-> "nan"]
Num(n) == [t |-> "number", n |-> n]
Str(s) == [t |-> "string", s |-> s]
Arr(id, items) == [t |-> "array", id |-> id, items |-> items]
Obj(id, map) == [t |-> "object", id |-> id, cyclic |-> FALSE, map |-> map]

\* An object whose one property, k, is the object itself.
Cyclic(id) == [t |-> "object", id |-> id, cyclic |-> TRUE, map |-> <<>>]

MapOf(v) == IF v.cyclic THEN [k \in {"k"} |-> v] ELSE v.map

Fun(id) == [t |-> "function", id |-> id]

IsNil(v) == v.t \in {"undefined", "null"}
IsFloat(v) == v.t \in {"number", "nan"}
IsObject(v) == v.t \in {"array", "object", "function"}

-----------------------------------------------------------------------------
(* Equality. *)

\* Two references to one object.
SameObject(a, b) == IsObject(a) /\ a.t = b.t /\ a.id = b.id

SameFloat(a, b) == a.t = "number" /\ b.t = "number" /\ a.n = b.n

\* Numbers by value, other primitives with their type; exported null is undefined.
SamePrimitive(a, b) ==
    \/ SameFloat(a, b)
    \/ a.t = "string" /\ b.t = "string" /\ a.s = b.s
    \/ a.t = "boolean" /\ b.t = "boolean" /\ a.b = b.b
    \/ IsNil(a) /\ IsNil(b)

RECURSIVE JsDeepEqual(_, _, _), JsPrefixEqual(_, _, _)

JsPrefixEqual(a, b, depth) ==
    /\ depth <= DepthLimit
    /\ \/ SamePrimitive(a, b)
       \/ /\ a.t = "array" /\ b.t = "array" /\ Len(a.items) <= Len(b.items)
          /\ \A i \in DOMAIN a.items : JsPrefixEqual(a.items[i], b.items[i], depth + 1)
       \/ /\ a.t = "object" /\ b.t = "object"
          /\ \A k \in DOMAIN MapOf(a) : /\ k \in DOMAIN MapOf(b)
                                        /\ JsPrefixEqual(MapOf(a)[k], MapOf(b)[k], depth + 1)

\* Every item, and every key of either; functions never.
JsDeepEqual(a, b, depth) ==
    /\ depth <= DepthLimit
    /\ \/ SamePrimitive(a, b)
       \/ /\ a.t = "array" /\ b.t = "array" /\ Len(a.items) = Len(b.items)
          /\ \A i \in DOMAIN a.items : JsDeepEqual(a.items[i], b.items[i], depth + 1)
       \/ /\ a.t = "object" /\ b.t = "object"
          /\ Cardinality(DOMAIN MapOf(a)) = Cardinality(DOMAIN MapOf(b))
          /\ \A k \in DOMAIN MapOf(a) : /\ k \in DOMAIN MapOf(b)
                                        /\ JsDeepEqual(MapOf(a)[k], MapOf(b)[k], depth + 1)

EqualValues(a, b, deep) == SamePrimitive(a, b) \/ (deep /\ JsDeepEqual(a, b, 0))

-----------------------------------------------------------------------------
(* What the other assertions look at. *)

\* strings.Contains on strings, membership in arrays, a subset of objects.
ContainsValue(v, want) ==
    CASE v.t = "string" -> want.t = "string" /\ \E i \in 0 .. Len(v.s) - Len(want.s) :
                                SubSeq(v.s, i + 1, i + Len(want.s)) = want.s
      [] v.t = "array" -> \E i \in DOMAIN v.items : JsDeepEqual(v.items[i], want, 0)
      [] v.t = "object" -> /\ want.t = "object"
                           /\ \A k \in DOMAIN MapOf(want) :
                                /\ k \in DOMAIN MapOf(v)
                                /\ JsDeepEqual(MapOf(v)[k], MapOf(want)[k], 0)
      [] OTHER -> FALSE

\* What arrays and functions inherit, each kind by one of its methods.
Inherited(v) == IF v.t = "array" THEN {"push"} ELSE {"call"}

\* The values of a property: none or one.  An object has the keys of its export, an
\* array and a function what Get finds, inherited properties too; a string has none.
PropertyOf(v, name) ==
    CASE v.t = "object" -> {MapOf(v)[k] : k \in DOMAIN MapOf(v) \cap {name}}
      [] v.t = "array" /\ name = "length" -> {Num(Len(v.items))}
      [] v.t = "function" /\ name = "length" -> {Num(0)}
      [] v.t \in {"array", "function"} /\ name \in Inherited(v) -> {Fun(name)}
      [] v.t = "array" -> {v.items[i] : i \in {k \in DOMAIN v.items : ToString(k - 1) = name}}
      [] OTHER -> {}

LengthOf(v) ==
    CASE v.t = "string" -> Len(v.s)
      [] v.t = "array" -> Len(v.items)
      [] v.t = "object" -> Cardinality(DOMAIN MapOf(v))
      [] OTHER -> -1

IsTruthy(v) ==
    ~ \/ IsNil(v) \/ v.t = "nan"
      \/ v.t = "boolean" /\ ~ v.b
      \/ v.t = "number" /\ v.n = 0
      \/ v.t = "string" /\ v.s = <<>>

\* Whether chai's type name of v is this one.
IsA(v, name) == name = IF v.t = "nan" THEN "number" ELSE v.t

\* The sign of got - limit: none when the difference is not a number.
Sign(got, limit) ==
    IF got.t # "number" \/ limit.t # "number" THEN {}
    ELSE IF got.n = limit.n /\ got.n \in {Infinity, - Infinity} THEN {}
    ELSE IF got.n > limit.n THEN {1}
    ELSE IF got.n < limit.n THEN {-1} ELSE {0}

Comparison(signs, got, limit) == Sign(got, limit) \cap signs # {}

Within(v, lo, hi) ==
    v.t = "number" /\ lo.t = "number" /\ hi.t = "number" /\ lo.n <= v.n /\ v.n <= hi.n

-----------------------------------------------------------------------------
(* Assertions. *)

Expectation(v, negate, deep) == [v |-> v, negate |-> negate, deep |-> deep]

CheckAlways(e, holds) == holds

\* check throws when the assertion did not hold, or held while negated.
Check(e, holds) == holds # e.negate

Equal(e, want) == Check(e, SameObject(e.v, want) \/ EqualValues(e.v, want, e.deep))
Eql(e, want) == Check(e, JsDeepEqual(e.v, want, 0))

\* A limit that is no number throws, negated or not.
Compare(e, signs, limit) == IsFloat(limit) /\ Check(e, Comparison(signs, e.v, limit))

Above(e, limit) == Compare(e, {1}, limit)
Below(e, limit) == Compare(e, {-1}, limit)
Least(e, limit) == Compare(e, {0, 1}, limit)
Most(e, limit) == Compare(e, {-1, 0}, limit)
WithinRange(e, lo, hi) == IsFloat(lo) /\ IsFloat(hi) /\ Check(e, Within(e.v, lo, hi))
A(e, name) == Check(e, IsA(e.v, name))
Include(e, want) == Check(e, ContainsValue(e.v, want))
LengthIs(e, n) == Check(e, LengthOf(e.v) = n)
Property(e, name) == Check(e, PropertyOf(e.v, name) # {})
PropertyIs(e, name, want) ==
    Check(e, \E v \in PropertyOf(e.v, name) : EqualValues(v, want, e.deep))
OneOf(e, of) ==
    of.t = "array" /\ Check(e, \E i \in DOMAIN of.items : EqualValues(e.v, of.items[i], e.deep))
Satisfy(e, Predicate(_)) == Check(e, Predicate(e.v))

\* The assertions that are read, not called.
Reads(e, name) ==
    Check(e, CASE name = "ok" -> IsTruthy(e.v)
               [] name = "true" -> e.v.t = "boolean" /\ e.v.b
               [] name = "false" -> e.v.t = "boolean" /\ ~ e.v.b
               [] name = "null" -> e.v.t = "null"
               [] name = "undefined" -> e.v.t = "undefined"
               [] name = "NaN" -> e.v.t = "nan"
               [] name = "exist" -> ~ IsNil(e.v)
               [] OTHER -> LengthOf(e.v) = 0)

ReadNames == {"ok", "true", "false", "null", "undefined", "NaN", "exist", "empty"}

ExpectInit == subject = <<>>

\* A pm.test of one assertion: equality, in any of the chains that lead to it.
AssertEqual ==
    \E a, b \in JsValues, negate, deep \in BOOLEAN :
        /\ Report(Equal(Expectation(a, negate, deep), b))
        /\ subject' = <<a, b>>

-----------------------------------------------------------------------------
(* Correctness: references that do not follow the code. *)

RECURSIVE Tree(_), Nesting(_)

\* A value as the tree of what it holds, without identities; a cyclic one has none.
Tree(v) ==
    CASE IsNil(v) -> Null
      [] v.t = "array" -> Arr(0, [i \in DOMAIN v.items |-> Tree(v.items[i])])
      [] v.t = "object" /\ ~ v.cyclic -> Obj(0, [k \in DOMAIN v.map |-> Tree(v.map[k])])
      [] OTHER -> v

Parts(v) ==
    CASE v.t = "array" -> ToSet(v.items)
      [] v.t = "object" -> {v.map[k] : k \in DOMAIN v.map}
      [] OTHER -> {}

\* The heights at which a value has parts: 0 is itself, the last its depth.
Nesting(v) == {0} \cup UNION {{n + 1 : n \in Nesting(p)} : p \in Parts(v)}

RECURSIVE HasUnequal(_)

\* NaN, functions and cyclic objects equal nothing, not even themselves.
HasUnequal(v) ==
    \/ v.t \in {"nan", "function"} \/ (v.t = "object" /\ v.cyclic)
    \/ \E p \in Parts(v) : HasUnequal(p)

\* JavaScript's ===.
Strictly(a, b) ==
    \/ SameObject(a, b)
    \/ ~ IsObject(a) /\ a.t # "nan" /\ a.t = b.t /\ a = b

Plainly(v) == Expectation(v, FALSE, FALSE)

\* What an assertion says does not depend on how it is written: equal is ===, but
\* for null and undefined, which are one value in Go; eql compares the trees of two
\* values as far as the depth limit, and so is symmetric; deep.equal of one object
\* with itself holds whatever is in it.
EqualityLaws(a, b) ==
    /\ ~ (IsNil(a) /\ IsNil(b)) => (Equal(Plainly(a), b) <=> Strictly(a, b))
    /\ Eql(Plainly(a), b) <=>
          /\ a.t = b.t \/ (IsNil(a) /\ IsNil(b))
          /\ Tree(a) = Tree(b)
          /\ ~ HasUnequal(a) /\ \A n \in Nesting(a) : n <= DepthLimit
    /\ Eql(Plainly(a), b) => Equal(Expectation(b, FALSE, TRUE), a)
    /\ SameObject(a, b) => Equal(Expectation(a, FALSE, TRUE), b)

\* An assertion and its negation: one of the two, or neither when the call is no good.
Sides(good) == IF good THEN {<<TRUE, FALSE>>, <<FALSE, TRUE>>} ELSE {<<FALSE, FALSE>>}

\* Exactly one of an assertion and its negation holds, so no test passes both ways;
\* a value that has no length, or is no number, is neither side's exception.  Only
\* what an assertion is called with can make both fail: a limit that is no number, a
\* choice that is no array.
NegationLaws(a, b) ==
    \A deep \in BOOLEAN :
        LET e == Expectation(a, FALSE, deep)
            n == Expectation(a, TRUE, deep)
        IN  /\ Equal(e, b) # Equal(n, b) /\ Eql(e, b) # Eql(n, b)
            /\ Include(e, b) # Include(n, b)
            /\ <<Above(e, b), Above(n, b)>> \in Sides(IsFloat(b))
            /\ <<Below(e, b), Below(n, b)>> \in Sides(IsFloat(b))
            /\ <<Least(e, b), Least(n, b)>> \in Sides(IsFloat(b))
            /\ <<Most(e, b), Most(n, b)>> \in Sides(IsFloat(b))
            /\ <<WithinRange(e, b, b), WithinRange(n, b, b)>> \in Sides(IsFloat(b))
            /\ <<OneOf(e, b), OneOf(n, b)>> \in Sides(b.t = "array")
            /\ \A name \in ReadNames : Reads(e, name) # Reads(n, name)
            /\ Reads(e, "null") \/ Reads(e, "undefined") <=> Reads(n, "exist")
            /\ ~ (Reads(e, "true") /\ Reads(e, "false"))
            /\ Reads(e, "true") => Reads(e, "ok")

\* The comparisons of two numbers agree with each other and with within, but for
\* one infinity compared with itself, whose difference is not a number.
OrderLaws(a, b) ==
    LET e == Plainly(a)
        infinite == a.t = "number" /\ b.t = "number" /\ a.n = b.n
                    /\ a.n \in {Infinity, - Infinity}
    IN  /\ IsFloat(a) /\ IsFloat(b) => (Above(e, b) <=> Below(Plainly(b), a))
        /\ Least(e, b) <=> Above(e, b) \/ (Equal(e, b) /\ a.t = "number" /\ ~ infinite)
        /\ Most(e, b) <=> Below(e, b) \/ (Equal(e, b) /\ a.t = "number" /\ ~ infinite)
        /\ \A c \in {v \in JsValues : IsFloat(v)} :
             WithinRange(e, b, c) <=>
                /\ Least(e, b) \/ infinite
                /\ Most(e, c) \/ (c.t = "number" /\ a.t = "number" /\ a.n = c.n)

\* What is included, what has a property and what is empty agree: an item included
\* in an array is one of its properties and one of its members, a property equal to
\* a value is an object included.
PartLaws(a, b) ==
    LET e == Expectation(a, FALSE, TRUE)
    IN  /\ a.t = "array" =>
             /\ Include(e, b) <=> OneOf(Expectation(b, FALSE, TRUE), a)
             /\ Include(e, b) <=>
                    \E k \in 1 .. LengthOf(a) : PropertyIs(e, ToString(k - 1), b)
             /\ PropertyIs(e, "length", Num(LengthOf(a)))
        /\ a.t = "object" =>
             \A k \in {"k", "l"} :
                PropertyIs(e, k, b) <=> Include(e, Obj(0, [m \in {k} |-> b]))
        /\ Reads(e, "empty") =>
             ~ \E k \in {"0", "k"} : Property(e, k)
        /\ Include(e, b) => ~ Reads(e, "empty") \/ b.t = "string" \/ b.t = "object"
        /\ \A n \in 0 .. 2 : LengthIs(e, n) /\ n > 0 => ~ Reads(e, "empty")

Laws(a, b) == EqualityLaws(a, b) /\ NegationLaws(a, b) /\ OrderLaws(a, b) /\ PartLaws(a, b)

\* The assertions of pm.expect about two values agree with what the values are and
\* with each other.
AssertionsAgree == subject # <<>> => Laws(subject[1], subject[2])
=============================================================================
