---------------------------- MODULE EventStream ----------------------------
(***************************************************************************)
(* The relay of a server-sent event stream: DialSSE reads the lines of the *)
(* upstream and makes events of them, realtimeSSE writes each event to the *)
(* browser.  The upstream sends when it likes, stops, breaks off in the    *)
(* middle of a line or refuses; the browser may go away at any time, which *)
(* ends the context of the request, or stay and stop reading, so that what *)
(* is written to it waits.  A line is its field and its value.             *)
(***************************************************************************)
EXTENDS Integers, Sequences, FiniteSets, SequencesExt

CONSTANTS
    Values,         \* Values[field]: the values of a field, "" among them
    Secret,         \* the value that the redactor of the ticket masks
    EventType,      \* the type the ticket asks for, or ""
    MaxBlock,       \* wsMaxFrameBytes, in lines
    MaxLines        \* bound on the lines of the upstream

ASSUME EventBlockAssumption == MaxBlock \in Nat

VARIABLES
    source,     \* the whole lines the upstream has sent
    upstream,   \* "dialled", "open", "refused", or "ended"
    atLine,     \* how many of the lines DialSSE has read
    block,      \* the lines of the block being read
    relayed,    \* the lines written to the browser
    eventCount, \* events relayed
    browser,    \* "there", "full" (it does not read, and its buffers are full) or "gone"
    relay,      \* "dialling", "reading", "returned", "judged" or "recorded"
    outcome,    \* what DialSSE returned: "nil" or "error"
    failed,     \* an error that the browser is to be told of
    record,     \* the rows this relay has added to the history
    warned      \* the history has not taken the row

conclusion == <<failed, record, warned>>

eventVars == <<source, upstream, atLine, block, relayed, eventCount, browser, relay, outcome,
               conclusion>>

Line(field, value) == [field |-> field, value |-> value]

Blank == Line("blank", "")

\* A field that is none of the three, and a comment, count for nothing.
Lines == {Blank, Line("comment", "")}
         \cup UNION {{Line(field, v) : v \in Values[field]} : field \in {"data", "event", "id"}}

EventsInit ==
    /\ source = <<>> /\ upstream = "dialled" /\ atLine = 0 /\ block = <<>>
    /\ relayed = <<>> /\ eventCount = 0 /\ browser = "there" /\ relay = "dialling"
    /\ outcome = "nil" /\ failed = FALSE /\ record = <<>> /\ warned = FALSE

-----------------------------------------------------------------------------
(* Events. *)

\* The values of the lines that have this field.
ValuesOf(lines, field) ==
    LET upTo[k \in 0 .. Len(lines)] ==
            IF k = 0 THEN <<>>
            ELSE IF lines[k].field = field THEN Append(upTo[k - 1], lines[k].value)
            ELSE upTo[k - 1]
    IN  upTo[Len(lines)]

LastOr(values, default) == IF values = <<>> THEN default ELSE Last(values)

\* The data of an event is its lines; no line and one empty line are the same text.
DataOf(values) == IF values = <<>> THEN <<"">> ELSE values

ParseSSEEvent(lines) ==
    [type |-> LastOr(ValuesOf(lines, "event"), ""),
     data |-> DataOf(ValuesOf(lines, "data")),
     id   |-> LastOr(ValuesOf(lines, "id"), "")]

NoData(event) == event.data = <<"">>

Nothing(event) == NoData(event) /\ event.type = "" /\ event.id = ""

MaskedText(value) == IF value = Secret THEN "***" ELSE value

\* An event that the ticket did not ask for is left out, one with no type never is.
Wanted(event) == EventType = "" \/ event.type = "" \/ event.type = EventType

Field(name, value) == IF value = "" THEN <<>> ELSE <<Line(name, value)>>

WrittenUnsplit(event) ==
    Field("event", event.type) \o Field("id", event.id)
        \o <<Line("data", MaskedText(event.data[1])), Blank>>

\* The lines the browser is sent for an event: the data is masked, type and id not.
Written(event) ==
    Field("event", event.type) \o Field("id", event.id)
        \o [i \in DOMAIN event.data |-> Line("data", MaskedText(event.data[i]))] \o <<Blank>>

\* Nothing limits the time of a write: it goes on when the browser reads, or is gone.
CanWrite == browser # "full"

YieldEvent(event) ==
    IF Wanted(event)
    THEN CanWrite /\ relayed' = relayed \o Written(event) /\ eventCount' = eventCount + 1
    ELSE UNCHANGED <<relayed, eventCount>>

-----------------------------------------------------------------------------
(* The upstream and the browser, which do as they like. *)

OnUpstream ==
    UNCHANGED <<atLine, block, relayed, eventCount, browser, relay, outcome, conclusion>>

UpstreamAnswers ==
    /\ upstream = "dialled"
    /\ upstream' \in {"open", "refused"}
    /\ UNCHANGED source /\ OnUpstream

UpstreamSends(line) ==
    /\ upstream = "open" /\ Len(source) < MaxLines
    /\ source' = Append(source, line)
    /\ UNCHANGED upstream /\ OnUpstream

\* The body ends, or the connection does; what follows the last line feed is never
\* seen as a line.
UpstreamEnds ==
    /\ upstream = "open"
    /\ upstream' = "ended"
    /\ UNCHANGED source /\ OnUpstream

OnBrowser ==
    UNCHANGED <<source, upstream, atLine, block, relayed, eventCount, relay, outcome, conclusion>>

BrowserGoes ==
    /\ browser # "gone" /\ relay # "recorded"
    /\ browser' = "gone" /\ OnBrowser

\* It stops reading and stays, and reads again, if ever.
BrowserStalls ==
    /\ browser = "there" /\ relay # "recorded"
    /\ browser' = "full" /\ OnBrowser

BrowserReads ==
    /\ browser = "full"
    /\ browser' = "there" /\ OnBrowser

-----------------------------------------------------------------------------
(* DialSSE. *)

OnRelay == UNCHANGED <<source, upstream, browser, conclusion>>

\* client.Do: the request fails, is refused by its status, or is given up with the
\* context.
Dials ==
    /\ relay = "dialling"
    /\ \/ upstream \in {"open", "ended"} /\ relay' = "reading" /\ UNCHANGED outcome
       \/ (upstream = "refused" \/ browser = "gone")
          /\ relay' = "returned" /\ outcome' = "error"
    /\ UNCHANGED <<atLine, block, relayed, eventCount>> /\ OnRelay

BlockOf(line) == LET longer == Append(block, line)
                 IN  IF Len(longer) > MaxBlock THEN <<>> ELSE longer

\* flush: the block is an event, unless it says nothing.
Flush ==
    /\ block' = <<>>
    /\ LET event == ParseSSEEvent(block)
       IN  IF block = <<>> \/ Nothing(event) THEN UNCHANGED <<relayed, eventCount>>
           ELSE YieldEvent(event)

\* One turn of the loop; a context that has ended is noticed after a line of a block.
ReadLine ==
    /\ relay = "reading" /\ atLine < Len(source)
    /\ atLine' = atLine + 1
    /\ LET line == source[atLine + 1]
       IN  IF line = Blank
           THEN Flush /\ UNCHANGED <<relay, outcome>>
           ELSE /\ block' = BlockOf(line)
                /\ IF browser = "gone" THEN relay' = "returned" /\ outcome' = "error"
                   ELSE UNCHANGED <<relay, outcome>>
                /\ UNCHANGED <<relayed, eventCount>>
    /\ OnRelay

OverAlone == upstream = "ended" /\ atLine = Len(source)

\* A read fails when there is nothing more to come, or with the context.
Over == (upstream = "ended" /\ atLine = Len(source)) \/ browser = "gone"

\* An event without the blank line that ends it still counts, unless it is an id.
ReadEnds ==
    /\ relay = "reading" /\ Over
    /\ relay' = "returned" /\ UNCHANGED <<outcome, atLine, block>>
    /\ LET event == ParseSSEEvent(block)
       IN  IF block = <<>> \/ (NoData(event) /\ event.type = "")
           THEN UNCHANGED <<relayed, eventCount>>
           ELSE YieldEvent(event)
    /\ OnRelay

-----------------------------------------------------------------------------
(* realtimeSSE, after DialSSE: an error is one only while the context goes on. *)

ErrorEvent == <<Line("event", "error"), Line("data", "upstream"), Blank>>

Judges ==
    /\ relay = "returned"
    /\ relay' = "judged"
    /\ failed' = (outcome = "error" /\ browser # "gone")
    /\ UNCHANGED <<source, upstream, atLine, block, relayed, eventCount, browser, outcome,
                   record, warned>>

Row == [status |-> IF failed THEN 502 ELSE 200, events |-> eventCount]

\* The browser is told, then the row is inserted; an insert that fails is a warning.
Records ==
    /\ relay = "judged" /\ (failed => CanWrite)
    /\ relay' = "recorded"
    /\ relayed' = relayed \o (IF failed THEN ErrorEvent ELSE <<>>)
    /\ \/ record' = Append(record, Row) /\ UNCHANGED warned
       \/ warned' = TRUE /\ UNCHANGED record
    /\ UNCHANGED <<source, upstream, atLine, block, eventCount, browser, outcome, failed>>

RelayStep == Dials \/ ReadLine \/ ReadEnds \/ Judges \/ Records

EventsNext ==
    \/ UpstreamAnswers \/ UpstreamEnds \/ BrowserGoes \/ BrowserStalls \/ BrowserReads
    \/ \E line \in Lines : UpstreamSends(line)
    \/ Dials \/ ReadLine \/ ReadEnds \/ Judges \/ Records

\* The goroutine of the request runs, unless it waits for the browser to read; neither
\* the upstream nor the browser need ever do anything.
EventsFairness == WF_eventVars(RelayStep)

EventsSpec == EventsInit /\ [][EventsNext]_eventVars

-----------------------------------------------------------------------------
(* Correctness. *)

\* The lines between the blank line before i, if there is one, and line i.
Stretch(lines, i) ==
    LET blanks == {k \in 1 .. i - 1 : lines[k] = Blank}
    IN  SubSeq(lines, Max({0} \cup blanks) + 1, i - 1)

\* Of a stretch, the lines that a block of MaxBlock lines at most is left with.
LeftOf(stretch) ==
    LET n == Len(stretch)
    IN  SubSeq(stretch, n - (n % (MaxBlock + 1)) + 1, n)

\* The event that the upstream has sent before its line i, and the one that the
\* browser has read before its own.
SentEvent(i) == ParseSSEEvent(LeftOf(Stretch(source, i)))

ReadEvent(i) == ParseSSEEvent(Stretch(relayed, i))

\* The lines behind which they end: those of the upstream that the ticket asks for; the
\* last one, when no blank line ends it; and those of the browser.
EventsSent ==
    {i \in 1 .. atLine : source[i] = Blank /\ ~ Nothing(SentEvent(i)) /\ Wanted(SentEvent(i))}

EventBehind ==
    LET event == SentEvent(atLine + 1)
    IN  IF (NoData(event) /\ event.type = "") \/ ~ Wanted(event) THEN {} ELSE {atLine + 1}

EventsRead == {i \in DOMAIN relayed : relayed[i] = Blank /\ ~ Nothing(ReadEvent(i))}

Masked(event) == [event EXCEPT !.data = [i \in DOMAIN event.data |-> MaskedText(event.data[i])]]

EventNo(ends, i) == Cardinality({k \in ends : k <= i})

\* These events of the browser are those of the upstream, in order, with the data masked.
Survive(sent, read) ==
    /\ Cardinality(read) = Cardinality(sent)
    /\ \A r \in read, s \in sent :
          EventNo(read, r) = EventNo(sent, s) => ReadEvent(r) = Masked(SentEvent(s))

\* What the browser reads are the events of the upstream, those the ticket asked for,
\* each whole and in order, with the data masked: so far those that a blank line
\* ended, and when the upstream was read to its end, the last one too.
\* A relay that is over has left one row, unless the history has refused it, which is
\* a warning; the row counts the events the browser was sent and says 502 exactly when
\* the browser was told of an error, as it is of every error while it stays.
EventsSurviveRelay ==
    LET over  == relay \in {"returned", "judged", "recorded"}
        told  == relay = "recorded" /\ failed
        sent  == EventsSent \cup (IF over /\ outcome = "nil" THEN EventBehind ELSE {})
        error == IF told THEN {Len(relayed)} ELSE {}
    IN  /\ Survive(sent, EventsRead \ error)
        /\ \A i \in error : i \in EventsRead /\ ReadEvent(i) = ParseSSEEvent(Front(ErrorEvent))
        /\ record = IF relay # "recorded" \/ warned THEN <<>>
                    ELSE <<[status |-> IF told THEN 502 ELSE 200,
                            events |-> Cardinality(EventsRead \ error)]>>
        /\ told => outcome = "error"
        /\ relay = "recorded" /\ outcome = "error" /\ browser # "gone" => told

\* Once the browser is gone, or the upstream has ended, the relay ends, unless the
\* browser stays and stops reading again and again, or for good: nothing ends a relay
\* whose write to such a browser waits.
RelayEnds ==
    [](browser = "gone" \/ upstream \in {"ended", "refused"}
         => <>(relay = "recorded") \/ []<>(browser = "full"))
=============================================================================
