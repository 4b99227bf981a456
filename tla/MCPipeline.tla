----------------------------- MODULE MCPipeline -----------------------------
(***************************************************************************)
(* Three families of executions: scripts that rewrite two headers, one of  *)
(* them in two spellings, and a variable; requests without a script whose  *)
(* fields hold two secrets, of every shape that masking tells apart; and a *)
(* script of one assertion, about any two of the JavaScript values.        *)
(***************************************************************************)
EXTENDS Pipeline, Expect

MCKeyOf == [n \in HeaderNames |-> IF n = "H" THEN "h" ELSE n]

MCHeaderValues == {<<>>, <<"v">>}
MCVarValues == {<<"x">>}

\* One inside the other, two that overlap, one that an encoding rewrites.
MCSecretValues == {<<"a", "b">>, <<"a">>, <<"b", "a">>, <<"q">>}

Scripted ==
    {[headers |-> <<Header("H", <<"x">>), Header("h", <<"v">>), Header("k", <<"x">>)>>,
      url |-> <<"v">>, query |-> <<>>, body |-> with.body, type |-> with.type,
      vars |-> with.vars, secrets |-> [n \in {} |-> <<>>], pre |-> pre, test |-> ~ pre] :
        pre \in BOOLEAN,
        with \in {[body |-> <<"v">>, type |-> "json", vars |-> [n \in {"v"} |-> <<"a">>]],
                 [body |-> <<>>, type |-> "none", vars |-> NoText]}}

Secretive ==
    {[headers |-> <<h>>, url |-> <<"x", "s">>, query |-> q,
      body |-> <<"t", "s">>, type |-> t,
      vars |-> [n \in {"v"} |-> <<"s">>], secrets |-> sec, pre |-> FALSE, test |-> FALSE] :
        h \in {Header("k", <<"s">>), Header("h", <<"v", "t">>)}, q \in {<<>>, <<"t">>}, t \in {"none", "raw", "graphql", "realtime"},
        sec \in [SecretNames -> MCSecretValues \cup {<<"a", "b", "b">>}]}

\* A script of one assertion.
Asserting ==
    [headers |-> <<>>, url |-> <<"x">>, query |-> <<>>, body |-> <<>>, type |-> "none",
     vars |-> [n \in {} |-> <<>>], secrets |-> [n \in {} |-> <<>>], pre |-> TRUE,
     test |-> FALSE]

MCRequests == Scripted \cup Secretive \cup {Asserting}

One == Arr(1, <<Num(1)>>)

MCJsValues ==
    {Undefined, Null, Bool(TRUE), Bool(FALSE), NaN, Num(-2), Num(0), Num(1), Num(2),
     Str(<<>>), Str(<<"a">>), Str(<<"a", "b">>), Fun(1), Fun(2),
     Arr(0, <<>>), One, Arr(2, <<Num(1)>>), Arr(3, <<Num(1), Str(<<"a">>)>>),
     Arr(4, <<One>>), Arr(5, <<Arr(4, <<One>>)>>), Arr(6, <<NaN>>),
     Arr(7, <<Null, Undefined>>),
     Obj(9, [k \in {} |-> Null]), Obj(10, [k \in {"k"} |-> Num(1)]),
     Obj(11, [k \in {"k"} |-> Num(1)]), Obj(12, [k \in {"k", "l"} |-> Num(1)]),
     Obj(13, [k \in {"k"} |-> One]), Obj(14, [k \in {"k"} |-> Undefined]),
     Cyclic(15), Cyclic(16), Arr(17, <<Cyclic(15)>>)}

Init == PipelineInit /\ ExpectInit

\* The asserting script does nothing but assert, once.
Next ==
    \/ PipelineNext /\ (request = Asserting /\ pc = "pre" => pc' # pc) /\ UNCHANGED subject
    \/ /\ request = Asserting /\ pc = "pre" /\ calls = 0
       /\ AssertEqual
       /\ UNCHANGED <<pc, dataVars>>

Spec == Init /\ [][Next]_<<pipelineVars, subject>>
=============================================================================
