------------------------------ MODULE Pipeline ------------------------------
(***************************************************************************)
(* The data of one execution: what the pre-request script makes of the     *)
(* request, the placeholders resolved with variables and secrets, what is  *)
(* sent, and the masked texts that the answer, the test script and the     *)
(* history row get; or, for a realtime request, the ticket it ends in.     *)
(* Admins write secrets between any two lookups.  The control of the       *)
(* handler is in Execution, that of the relay in Realtime and EventStream, *)
(* the decrypted-value cache whose answers table stands for in Vault.      *)
(***************************************************************************)
EXTENDS Script, Redaction

CONSTANTS
    SecretNames,        \* placeholders of secrets, "sec." included
    SecretValues,       \* values of secrets
    SensitiveHeaders,   \* header keys that are always masked
    ContentType,        \* the key of Content-Type
    Requests,           \* the executions asked for
    MaxPuts,            \* bound on writes of secrets
    BodyCap,            \* maxBodyBytes
    HistoryCap          \* historyBodyBytes

ASSUME CapsAssumption == BodyCap \in Nat /\ HistoryCap \in 0 .. BodyCap

\* The fields of a request have labels; those of its headers are their names, and the
\* header that is sent by default has one of its own.
ASSUME FieldsAssumption == HeaderNames \cap {"url", "query", "body", "json"} = {}

\* Headers are listed, values are strings, and the secrets are those of placeholders.
ASSUME RequestsAssumption ==
    /\ \A v \in SecretValues : IsSequence(v)
    /\ \A r \in Requests :
        /\ DOMAIN r = {"url", "query", "body", "headers", "type", "vars", "secrets",
                       "pre", "test"}
        /\ IsSequence(r.headers) /\ \A h \in ToSet(r.headers) : h.name \in HeaderNames
        /\ \A n \in DOMAIN r.vars : IsSequence(r.vars[n])
        /\ DOMAIN r.secrets \subseteq SecretNames
        /\ \A n \in DOMAIN r.secrets : IsSequence(r.secrets[n])

VARIABLES
    pc,         \* where the handler is
    request,    \* the request it is asked to execute; its body type may change
    table,      \* table[n]: what a lookup of secret n answers now
    puts,       \* writes of secrets so far
    values,     \* Resolver.Values: the variables
    template,   \* template[f]: field f before its resolution
    out,        \* out[f]: what is resolved of field f
    at,         \* the field and the symbol that is resolved next
    used,       \* Resolver.used
    given,      \* history: given[n] is the last value a lookup of n has answered
    redactor,   \* the redactor's values in their order
    wire,       \* wire[k]: the name whose value header k is sent with, or "json"
    answer      \* the answer of upstream

dataVars == <<request, table, puts, values, template, out, at, used, given, redactor,
              wire, answer>>

pipelineVars == <<scriptVars, pc, dataVars>>

Names == VarNames \cup SecretNames

NoText == [n \in {} |-> <<>>]

FieldsOf(text, query, headers) ==
    [f \in {"url", "query", "body"} \cup DOMAIN headers |->
        CASE f \in DOMAIN headers -> headers[f] [] f = "query" -> query [] OTHER -> text[f]]

PipelineInit ==
    /\ pc = "start"
    /\ request \in Requests
    /\ ScriptInit(request, request.headers, request.vars)
    /\ table = request.secrets /\ puts = 0
    /\ values = request.vars
    /\ template = FieldsOf(request, request.query, HeaderMap(NewList(request.headers)))
    /\ out = NoText /\ used = NoText /\ given = NoText /\ wire = NoText
    /\ at = [field |-> "none", i |-> 1]
    /\ redactor = <<>>
    /\ answer = [status |-> <<>>, name |-> <<>>, header |-> <<>>, body |-> <<>>, cut |-> FALSE]

-----------------------------------------------------------------------------
(* Secrets. *)

\* Other writes are not seen by this execution.
Looking == pc = "resolve"

PutSecret(n, v) ==
    /\ Looking /\ puts < MaxPuts /\ puts' = puts + 1
    /\ table' = Assigned(table, n, v)
    /\ UNCHANGED <<scriptVars, pc, request, values, template, out, at, used, given,
                   redactor, wire, answer>>

DeleteSecret(n) ==
    /\ Looking /\ puts < MaxPuts /\ n \in DOMAIN table /\ puts' = puts + 1
    /\ table' = Unassigned(table, n)
    /\ UNCHANGED <<scriptVars, pc, request, values, template, out, at, used, given,
                   redactor, wire, answer>>

-----------------------------------------------------------------------------
(* The pre-request script. *)

Start ==
    /\ pc = "start"
    /\ IF request.pre THEN ScriptStarts("pre") /\ pc' = "pre"
       ELSE UNCHANGED scriptVars /\ pc' = "resolve"
    /\ UNCHANGED dataVars

RunScript ==
    /\ pc \in {"pre", "test"}
    /\ Statement
    /\ UNCHANGED <<pc, dataVars>>

\* A body that a script has written into a request without one.
BodyType(type, body) == IF type = "none" /\ body # <<>> THEN "raw" ELSE type

\* The texts, the headers as a map, and the bag's variables over the handler's.
PreReturns ==
    /\ pc = "pre" /\ ScriptReturns
    /\ pc' = "resolve"
    /\ request' = [request EXCEPT !.type = BodyType(@, texts["body"])]
    /\ template' = FieldsOf(texts, request.query, HeaderMap(list))
    /\ values' = [n \in DOMAIN bag \cup DOMAIN values |->
                    IF n \in DOMAIN bag THEN bag[n] ELSE values[n]]
    /\ UNCHANGED <<table, puts, out, at, used, given, redactor, wire, answer>>

PreFails ==
    /\ pc = "pre" /\ ScriptFails
    /\ pc' = "refused"
    /\ UNCHANGED dataVars

-----------------------------------------------------------------------------
(* Resolution: one symbol of one field at a time. *)

HeaderFields == DOMAIN template \ {"url", "query", "body"}

Todo(f) == f \notin DOMAIN out

\* The URL, the headers in any order, the query, the body unless its type is none; of
\* a ticket, the body is its protocols and the type of its events.
NextFields ==
    CASE Todo("url") -> {"url"}
      [] \E h \in HeaderFields : Todo(h) -> {h \in HeaderFields : Todo(h)}
      [] OTHER -> {f \in {"query"} : Todo(f)}

BodyFields == IF NextFields = {} /\ Todo("body") /\ request.type # "none"
              THEN {"body"} ELSE {}

BeginField(f) ==
    /\ pc = "resolve" /\ at.field = "none" /\ f \in NextFields \cup BodyFields
    /\ at' = [field |-> f, i |-> 1]
    /\ out' = Assigned(out, f, <<>>)
    /\ UNCHANGED <<scriptVars, pc, request, table, puts, values, template, used, given,
                   redactor, wire, answer>>

Symbol == template[at.field][at.i]

\* Variables come before secrets; an unresolved placeholder stays as it is, and what
\* is put in its place is not looked at again.
Replacement(n) ==
    IF n \in DOMAIN values THEN PlainText(values[n])
    ELSE IF n \in DOMAIN table THEN Injected(table[n])
    ELSE PlainText(<<n>>)

LookedUp(n) == n \in (SecretNames \ DOMAIN values) \cap DOMAIN table

RememberedOnce(n) == LookedUp(n) /\ n \notin DOMAIN used

\* Resolver.used keeps the last answer for a name.
Remembered(n) == LookedUp(n)

ResolveSymbol ==
    /\ pc = "resolve" /\ at.field # "none" /\ at.i <= Len(template[at.field])
    /\ out' = [out EXCEPT ![at.field] = @ \o Replacement(Symbol)]
    /\ used' = IF Remembered(Symbol) THEN Assigned(used, Symbol, table[Symbol]) ELSE used
    /\ given' = IF LookedUp(Symbol) THEN Assigned(given, Symbol, table[Symbol]) ELSE given
    /\ at' = [at EXCEPT !.i = @ + 1]
    /\ UNCHANGED <<scriptVars, pc, request, table, puts, values, template, redactor, wire,
                   answer>>

EndField ==
    /\ pc = "resolve" /\ at.field # "none" /\ at.i > Len(template[at.field])
    /\ at' = [field |-> "none", i |-> 1]
    /\ UNCHANGED <<scriptVars, pc, request, table, puts, values, template, out, used,
                   given, redactor, wire, answer>>

-----------------------------------------------------------------------------
(* The call. *)

Resolved == pc = "resolve" /\ at.field = "none" /\ NextFields \cup BodyFields = {}

HasPlaceholder(text) == \E i \in DOMAIN text : text[i].c \in Names

Refuse ==
    /\ Resolved /\ HasPlaceholder(out["url"])
    /\ pc' = "refused"
    /\ UNCHANGED <<scriptVars, dataVars>>

\* A GraphQL body is sent as JSON.
JsonBody == request.type \in {"json", "graphql"}

\* Header.Set for every name in the map's order: of two spellings of one key either
\* may come last.
HeadersSet ==
    LET keys == {KeyOf[n] : n \in HeaderFields}
    IN  {w \in [keys -> HeaderFields] : \A k \in keys : KeyOf[w[k]] = k}

\* The Content-Type of a JSON body is missing, or empty.
NoContentType(w) == ContentType \in DOMAIN w => out[w[ContentType]] = <<>>

Wires ==
    {IF JsonBody /\ NoContentType(w) THEN Assigned(w, ContentType, "json") ELSE w :
        w \in HeadersSet}

\* application/json is one symbol that is no secret.
HeaderText(n) == IF n = "json" THEN PlainText(<<"application/json">>) ELSE out[n]

SentBody ==
    CASE request.type = "none" -> <<>>
      [] request.type = "graphql" -> Encoded(out["body"])
      [] OTHER -> out["body"]

Realtime == request.type = "realtime"

Send ==
    /\ Resolved /\ ~ HasPlaceholder(out["url"]) /\ ~ Realtime
    /\ redactor' \in LongestFirst({used[n] : n \in DOMAIN used})
    /\ wire' \in Wires
    /\ pc' = "sent"
    /\ UNCHANGED <<scriptVars, request, table, puts, values, template, out, at, used, given,
                   answer>>

\* realtimeConnect, instead of a call: the ticket keeps the texts and the redactor.
MintTicket ==
    /\ Resolved /\ ~ HasPlaceholder(out["url"]) /\ Realtime
    /\ redactor' \in LongestFirst({used[n] : n \in DOMAIN used})
    /\ wire' \in Wires
    /\ pc' = "minted"
    /\ UNCHANGED <<scriptVars, request, table, puts, values, template, out, at, used, given,
                   answer>>

FinalURL == Encoded(out["url"] \o out["query"])

\* What upstream has been given, and may give back.
Received == {FinalURL, SentBody} \cup {HeaderText(wire[k]) : k \in DOMAIN wire}

Answered ==
    /\ pc = "sent"
    /\ \E s, t \in Received :
        answer' = [status |-> t, name |-> t, header |-> t, body |-> Cut(s \o t, BodyCap),
                   cut |-> Len(s \o t) > BodyCap]
    /\ pc' = "answered"
    /\ UNCHANGED <<scriptVars, request, table, puts, values, template, out, at, used,
                   given, redactor, wire>>

CallFails ==
    /\ pc = "sent"
    /\ pc' = "refused"
    /\ UNCHANGED <<scriptVars, dataVars>>

StartTest ==
    /\ pc = "answered"
    /\ IF request.test THEN ScriptStarts("test") /\ pc' = "test"
       ELSE UNCHANGED scriptVars /\ pc' = "done"
    /\ UNCHANGED dataVars

TestEnds ==
    /\ pc = "test"
    /\ ScriptReturns \/ ScriptFails
    /\ pc' = "done"
    /\ UNCHANGED dataVars

PipelineNext ==
    \/ \E n \in SecretNames : DeleteSecret(n) \/ \E v \in SecretValues : PutSecret(n, v)
    \/ Start \/ RunScript \/ PreReturns \/ PreFails
    \/ \E f \in DOMAIN template : BeginField(f)
    \/ ResolveSymbol \/ EndField
    \/ Refuse \/ Send \/ MintTicket \/ Answered \/ CallFails
    \/ StartTest \/ TestEnds

PipelineSpec == PipelineInit /\ [][PipelineNext]_pipelineVars

-----------------------------------------------------------------------------
(* What leaves the handler: texts that are masked, and some that are not. *)

HistoryBody == Cut(answer.body, HistoryCap)

Output(part, text, cut) == [part |-> part, text |-> text, cut |-> cut]

Whole(part, text) == Output(part, Masked(redactor, text), FALSE)

AsItCame(part, text) == Output(part, text, FALSE)

\* What redactedRequestHeaders leaves of the headers that were sent.
RedactedRequestHeaders ==
    {Output("header", MaskedHeader(redactor, KeyOf[n] \in SensitiveHeaders, out[n]), FALSE) :
        n \in HeaderFields}

\* A header of the answer: the value is masked, the name is not.
AnswerHeaders ==
    {AsItCame("header name", answer.name),
     Output("header", MaskedHeader(redactor, FALSE, answer.header), FALSE)}

AnswerBody == Output("body", Masked(redactor, answer.body), answer.cut)

\* What the test script is given; the response has a part of it.
TestRequest == {Whole("url", out["url"]), Whole("body", SentBody)} \cup RedactedRequestHeaders

TestResponse ==
    {AsItCame("status text", answer.status), AnswerBody, Whole("url", FinalURL)} \cup AnswerHeaders

\* The two texts of the history row.
RequestSnapshot == {Whole("url", FinalURL), Whole("body", SentBody)} \cup AnswerHeaders

ResponseSnapshot ==
    {Output("body", Masked(redactor, HistoryBody),
            answer.cut \/ Len(answer.body) > HistoryCap)} \cup AnswerHeaders

\* What the holder of a ticket gets, from the relay or in the history: the URL, and what
\* upstream sends.
RelayShows ==
    {Whole("url", out["url"])}
        \cup UNION {{Whole("data", t), AsItCame("subprotocol", t), AsItCame("event type", t),
                     AsItCame("event id", t)} : t \in Received}

Shown ==
    IF pc = "minted" THEN RelayShows
    ELSE TestRequest \cup TestResponse \cup RequestSnapshot \cup ResponseSnapshot

-----------------------------------------------------------------------------
(* Correctness. *)

\* The parts that go out as upstream sent them.
PassedOn == {"status text", "header name", "subprotocol", "event type", "event id"}

\* But for these parts, the last answer for each secret is masked wherever it was
\* written: no character of it is shown, except where it can overlap another value of
\* the redactor, and where the cut of a long body has cut it.  Nothing is said of an
\* earlier answer for the same name, and of a value that an encoding has rewritten.
InjectedIsMasked ==
    pc \in {"answered", "minted"} =>
        \A t \in Shown : \A i \in Remains(t.text) :
            LET value == t.text[i].from
            IN  \/ t.part \in PassedOn
                \/ \A n \in DOMAIN given : given[n] # value
                \/ Overlapping(ToSet(redactor))
                \/ t.cut /\ i > Len(t.text) - (Len(value) - 1)

Defaults(k) == k = ContentType /\ JsonBody

\* What the pre-request script did last is what goes out: the URL or the body it wrote,
\* a body it wrote into a request that had none too, a header it upserted with
\* that value alone, whatever other spellings there were, one it removed not at all,
\* and a variable it set with its value; the variables that the answer shows as
\* written are those whose last write was a set.  One header has the last word without
\* the script: with a JSON body, a Content-Type that the script removed, or upserted
\* with what resolves to nothing, goes out as application/json.
LastWriteIsSent ==
    pc = "sent" =>
        /\ \A t \in Texts : wrote.text[t].op = "set" =>
              /\ template[t] = wrote.text[t].value
              /\ t \in DOMAIN out \/ template[t] = <<>>
        /\ \A k \in Keys :
            /\ wrote.header[k].op = "set" =>
                  \E n \in HeaderFields :
                     /\ KeyOf[n] = k /\ template[n] = wrote.header[k].value
                     /\ k \in DOMAIN wire
                     /\ wire[k] = IF Defaults(k) /\ out[n] = <<>> THEN "json" ELSE n
            /\ wrote.header[k].op = "removed" =>
                  IF Defaults(k) THEN k \in DOMAIN wire /\ wire[k] = "json"
                  ELSE k \notin DOMAIN wire
        /\ \A n \in VarNames : wrote.var[n].op = "set" => values[n] = wrote.var[n].value
        /\ DOMAIN changed = {n \in VarNames : wrote.var[n].op = "set"}

\* Every string that leaves the request path is masked: none has a value of the redactor
\* in it.  Those of PassedOn do.
EveryStringIsMasked ==
    pc \in {"answered", "minted"} =>
        \A t \in Shown, v \in ToSet(redactor) : \A i \in DOMAIN t.text : ~ OccursAt(t.text, v, i)
=============================================================================
