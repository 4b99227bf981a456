------------------------------- MODULE Script -------------------------------
(***************************************************************************)
(* What a script does to its execution: the texts, headers and variables   *)
(* it writes, the tests it reports.  The header list is a Go slice: a backing *)
(* array that removals shift in place, that appends write into as long as  *)
(* there is room, and that headers.each goes on reading while its function *)
(* changes the list.  The test script works on a copy of the request that  *)
(* nobody reads; only its variables and its tests are modelled.  Deadlines *)
(* and interrupts are in Sandbox: here a script may be cut off anywhere.   *)
(***************************************************************************)
EXTENDS Integers, Sequences, FiniteSets, SequencesExt

CONSTANTS
    HeaderNames,    \* names as they are spelled
    KeyOf,          \* the key of a name: its spelling without the case
    HeaderValues,   \* values (templates) a script gives to headers and texts
    VarNames,       \* names of variables
    VarValues,      \* values a script gives to variables
    MaxCalls        \* bound on the calls into pm of one script

IsSequence(s) == s \in Seq(ToSet(s))

ASSUME ScriptAssumption ==
    /\ MaxCalls \in Nat /\ DOMAIN KeyOf = HeaderNames
    /\ \A v \in HeaderValues \cup VarValues : IsSequence(v)

VARIABLES
    running,        \* the script that runs: "no", "pre" or "test"
    texts,          \* RequestCtx.URL and RequestCtx.Body
    list,           \* RequestCtx.Headers: [arr |-> backing array, len |-> length]
    loop,           \* the headers.each that is under way
    bag,            \* Env.Vars
    changed,        \* Env.Changed
    results,        \* Runtime.tests: [id |-> number of the test, passed |-> BOOLEAN]
    open,           \* the pm.test calls under way, outermost first
    calls,          \* calls of this script so far
    begun,          \* history: tests begun
    threw,          \* history: tests whose function threw or that asserted falsehood
    wrote           \* history: what the script last did to each text, header key, variable

scriptVars == <<running, texts, list, loop, bag, changed, results, open, calls, begun,
                threw, wrote>>

Texts == {"url", "body"}

Keys == {KeyOf[n] : n \in HeaderNames}

Header(n, v) == [name |-> n, value |-> v]

Blank == Header("", <<>>)

Wrote(op, v) == [op |-> op, value |-> v]

Nothing == Wrote("nothing", <<>>)

NoLoop == [on |-> FALSE, i |-> 0, n |-> 0, depth |-> 0, old |-> <<>>,
           start |-> <<>>, seen |-> <<>>, kept |-> TRUE]

Live(l) == SubSeq(l.arr, 1, l.len)

\* The array from slot i on.
Slots(l, i) == SubSeq(l.arr, i, Len(l.arr))

NewList(headers) == [arr |-> headers, len |-> Len(headers)]

\* NewEnv: a copy of the caller's variables, nothing changed yet.
ScriptInit(request, headers, values) ==
    /\ running = "no"
    /\ texts = [t \in Texts |-> request[t]]
    /\ list = NewList(headers) /\ loop = NoLoop
    /\ bag = values /\ changed = [n \in {} |-> <<>>]
    /\ results = <<>> /\ open = <<>> /\ calls = 0
    /\ begun = 0 /\ threw = {}
    /\ wrote = [text |-> [t \in Texts |-> Nothing], header |-> [k \in Keys |-> Nothing],
                var |-> [n \in VarNames |-> Nothing]]

-----------------------------------------------------------------------------
(* The header list. *)

\* append(Headers[:i], Headers[i+1:]...): what follows moves up in place, and the
\* last slot keeps its old header.
RemovedAt(l, i) ==
    [arr |-> SubSeq(l.arr, 1, i - 1) \o SubSeq(l.arr, i + 1, l.len) \o Slots(l, l.len),
     len |-> l.len - 1]

Drop(l, i, key) == IF KeyOf[l.arr[i].name] = key THEN RemovedAt(l, i) ELSE l

\* Every spelling of the key, from the end of the list.
RemovedKey(l, key) ==
    LET after[k \in 0 .. l.len] ==
            IF k = 0 THEN l ELSE Drop(after[k - 1], l.len + 1 - k, key)
    IN  after[l.len]

RemovedFirst(l, key) ==
    LET hits == {i \in 1 .. l.len : KeyOf[l.arr[i].name] = key}
    IN  IF hits = {} THEN l ELSE RemovedAt(l, CHOOSE i \in hits : \A k \in hits : i <= k)

Fits(l) == l.len < Len(l.arr)

\* append(Headers, h): in place, or into a new array of twice the size.
Appended(l, h) ==
    IF Fits(l) THEN [arr |-> Append(Live(l), h) \o Slots(l, l.len + 2), len |-> l.len + 1]
    ELSE [arr |-> Append(Live(l), h) \o [i \in 1 .. l.len - 1 |-> Blank], len |-> l.len + 1]

\* A loop that reads an array the list has left goes on reading that one.
LeftBehind(l) ==
    IF loop.on /\ loop.old = <<>> /\ ~ Fits(l) THEN [loop EXCEPT !.old = l.arr] ELSE loop

-----------------------------------------------------------------------------
(* Calls into pm. *)

Calls == running # "no" /\ calls < MaxCalls /\ calls' = calls + 1

OnHeaders ==
    /\ running = "pre" /\ Calls
    /\ UNCHANGED <<running, texts, bag, changed, results, open, begun, threw>>

WriteText(t, v) ==
    /\ running = "pre" /\ Calls
    /\ texts' = [texts EXCEPT ![t] = v]
    /\ wrote' = [wrote EXCEPT !.text[t] = Wrote("set", v)]
    /\ UNCHANGED <<running, list, loop, bag, changed, results, open, begun, threw>>

\* pm.request.url = v, its value and its update; so with the body and its raw.
WriteURL(v) == WriteText("url", v)

WriteBody(v) == WriteText("body", v)

AddHeader(n, v) ==
    /\ OnHeaders
    /\ list' = Appended(list, Header(n, v)) /\ loop' = LeftBehind(list)
    /\ wrote' = [wrote EXCEPT !.header[KeyOf[n]] = Wrote("added", v)]

UpsertFirst(n, v) ==
    LET l == RemovedFirst(list, KeyOf[n])
    IN  /\ OnHeaders
        /\ list' = Appended(l, Header(n, v))
        /\ loop' = [LeftBehind(l) EXCEPT !.kept = FALSE]
        /\ wrote' = [wrote EXCEPT !.header[KeyOf[n]] = Wrote("set", v)]

UpsertHeader(n, v) ==
    LET l == RemovedKey(list, KeyOf[n])
    IN  /\ OnHeaders
        /\ list' = Appended(l, Header(n, v))
        /\ loop' = [LeftBehind(l) EXCEPT !.kept = FALSE]
        /\ wrote' = [wrote EXCEPT !.header[KeyOf[n]] = Wrote("set", v)]

RemoveHeader(key) ==
    /\ OnHeaders
    /\ list' = RemovedKey(list, key) /\ loop' = [loop EXCEPT !.kept = FALSE]
    /\ wrote' = [wrote EXCEPT !.header[key] = Wrote("removed", <<>>)]

OnLoop == UNCHANGED <<running, texts, list, bag, changed, results, open, begun, threw, wrote>>

\* headers.each: the range statement takes the slice, its length with it, once.
EachStart ==
    /\ running = "pre" /\ ~ loop.on /\ Calls
    /\ loop' = [NoLoop EXCEPT !.on = TRUE, !.n = list.len, !.depth = Len(open),
                              !.start = Live(list)]
    /\ OnLoop

LoopArray == IF loop.old = <<>> THEN list.arr ELSE loop.old

EachNextLive ==
    /\ loop.on /\ Len(open) = loop.depth /\ loop.i < list.len
    /\ loop' = [loop EXCEPT !.i = @ + 1, !.seen = Append(@, list.arr[loop.i + 1])]
    /\ calls' = calls /\ OnLoop

\* The function is called with the next header; what it does comes before the
\* next call.
EachNext ==
    /\ loop.on /\ Len(open) = loop.depth /\ loop.i < loop.n
    /\ loop' = [loop EXCEPT !.i = @ + 1, !.seen = Append(@, LoopArray[loop.i + 1])]
    /\ calls' = calls /\ OnLoop

EachEnd ==
    /\ loop.on /\ Len(open) = loop.depth /\ loop.i >= loop.n
    /\ loop' = NoLoop
    /\ calls' = calls /\ OnLoop

OnVariables == Calls /\ UNCHANGED <<running, texts, list, loop, results, open, begun, threw>>

Assigned(f, n, v) == [m \in DOMAIN f \cup {n} |-> IF m = n THEN v ELSE f[m]]

Unassigned(f, n) == [m \in DOMAIN f \ {n} |-> f[m]]

SetVar(n, v) ==
    /\ OnVariables
    /\ bag' = Assigned(bag, n, v) /\ changed' = Assigned(changed, n, v)
    /\ wrote' = [wrote EXCEPT !.var[n] = Wrote("set", v)]

UnsetKeepingChanged(n) ==
    /\ OnVariables
    /\ bag' = Unassigned(bag, n) /\ changed' = changed
    /\ wrote' = [wrote EXCEPT !.var[n] = Wrote("removed", <<>>)]

UnsetVar(n) ==
    /\ OnVariables
    /\ bag' = Unassigned(bag, n) /\ changed' = Unassigned(changed, n)
    /\ wrote' = [wrote EXCEPT !.var[n] = Wrote("removed", <<>>)]

-----------------------------------------------------------------------------
(* Tests. *)

OnTests == UNCHANGED <<running, texts, list, bag, changed, wrote>>

Result(id, passed) == [id |-> id, passed |-> passed]

\* tests[name] = value, and pm.test without a function.
Report(passed) ==
    /\ Calls
    /\ begun' = begun + 1 /\ results' = Append(results, Result(begun + 1, passed))
    /\ threw' = IF passed THEN threw ELSE threw \cup {begun + 1}
    /\ UNCHANGED <<loop, open>> /\ OnTests

TestBegin ==
    /\ Calls
    /\ begun' = begun + 1 /\ open' = Append(open, begun + 1)
    /\ UNCHANGED <<loop, results, threw>> /\ OnTests

\* The loop, if any, was begun before the innermost test.
Innermost == open # <<>> /\ (loop.on => loop.depth < Len(open))

TestReturns ==
    /\ Innermost
    /\ results' = Append(results, Result(Last(open), TRUE)) /\ open' = Front(open)
    /\ UNCHANGED <<loop, calls, begun, threw>> /\ OnTests

\* An exception in the function of a test ends it and a loop begun in it.
TestThrows ==
    /\ open # <<>>
    /\ results' = Append(results, Result(Last(open), FALSE)) /\ open' = Front(open)
    /\ loop' = IF loop.on /\ loop.depth >= Len(open) THEN NoLoop ELSE loop
    /\ threw' = threw \cup {Last(open)}
    /\ UNCHANGED <<calls, begun>> /\ OnTests

-----------------------------------------------------------------------------
(* Runs. *)

ScriptStarts(phase) ==
    /\ running' = phase /\ calls' = 0
    /\ UNCHANGED <<texts, list, loop, bag, changed, results, open, begun, threw, wrote>>

ScriptReturns ==
    /\ running # "no" /\ open = <<>> /\ ~ loop.on
    /\ running' = "no"
    /\ UNCHANGED <<texts, list, loop, bag, changed, results, open, calls, begun, threw, wrote>>

ScriptFailsSilently ==
    /\ running # "no"
    /\ running' = "no" /\ loop' = NoLoop /\ open' = <<>>
    /\ UNCHANGED <<texts, list, bag, changed, results, calls, begun, threw, wrote>>

\* An exception outside every test, or an interrupt, which fails the tests it
\* finds under way, innermost first.
ScriptFails ==
    /\ running # "no"
    /\ running' = "no" /\ loop' = NoLoop /\ open' = <<>>
    /\ results' = results \o [i \in DOMAIN open |-> Result(open[Len(open) + 1 - i], FALSE)]
    /\ threw' = threw \cup ToSet(open)
    /\ UNCHANGED <<texts, list, bag, changed, calls, begun, wrote>>

Statement ==
    \/ \E v \in HeaderValues : WriteURL(v) \/ WriteBody(v)
    \/ \E n \in HeaderNames, v \in HeaderValues : AddHeader(n, v) \/ UpsertHeader(n, v)
    \/ \E k \in Keys : RemoveHeader(k)
    \/ EachStart \/ EachNext \/ EachEnd
    \/ \E n \in VarNames : UnsetVar(n) \/ \E v \in VarValues : SetVar(n, v)
    \/ \E passed \in BOOLEAN : Report(passed)
    \/ TestBegin \/ TestReturns \/ TestThrows

\* HeaderMap: of equal names the last wins; other spellings of a key stay.
HeaderMap(l) ==
    [n \in {l.arr[i].name : i \in 1 .. l.len} |->
        l.arr[CHOOSE i \in 1 .. l.len :
                  l.arr[i].name = n /\ \A k \in i + 1 .. l.len : l.arr[k].name # n].value]

-----------------------------------------------------------------------------
(* Correctness. *)

\* headers.each calls its function once per header there was when it began,
\* whatever the function does to the list, and as long as it removes nothing these
\* are the headers it sees, in order; so a function that adds headers ends.
EachSeesTheList ==
    loop.on =>
        /\ loop.i <= loop.n /\ Len(loop.seen) = loop.i
        /\ loop.kept => IsPrefix(loop.seen, loop.start)

\* Every test begun is reported once: when it is over, failed if its function threw
\* or the script was cut off in it, beside the tests of the other script.
EveryTestReported ==
    LET reported == {results[i].id : i \in DOMAIN results}
    IN  /\ reported \cup ToSet(open) = 1 .. begun
        /\ Len(results) + Len(open) = begun
        /\ \A i \in DOMAIN results : results[i].passed <=> results[i].id \notin threw
=============================================================================
