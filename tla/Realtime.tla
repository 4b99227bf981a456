------------------------------ MODULE Realtime ------------------------------
(***************************************************************************)
(* The realtime relay of httpapi/realtime.go: the tickets that             *)
(* realtimeConnect mints and realtimeWS or realtimeSSE takes, and one      *)
(* WebSocket relay: the handler, its two pump goroutines, the connection   *)
(* to the browser ("down") and the one to the target ("up").               *)
(*                                                                         *)
(* A connection has one deadline for its reads and its writes; it is kept  *)
(* as the time left, 0 being past it.  A pump moves one message at a time, *)
(* so the messages of a direction are counted, not named.                  *)
(***************************************************************************)
EXTENDS Integers, Sequences

CONSTANTS
    Tickets,        \* the ids rand.Read may return
    realtimeTicketTTL,
    realtimeIdle,   \* both in clock ticks
    MaxSent         \* bound on the messages each peer sends

ASSUME TicketTTLAssumption == realtimeTicketTTL \in Nat
ASSUME IdleAssumption == realtimeIdle \in Nat \ {0}
ASSUME SentAssumption == MaxSent \in Nat

VARIABLES
    tickets,    \* the keys of rtTickets
    ttl,        \* ttl[t]: time until the ticket's `expires`, -1 is past it
    minted,     \* history: the ids drawn so far
    taken,      \* history: taken[t] is how often takeTicket(t) said true
    handler,    \* where realtimeWS is
    conn,       \* conn[c]: "open", "closed" by the handler
    deadline,   \* deadline[c]: time left of SetDeadline
    sent,       \* sent[c]: messages the peer of c has put on the wire
    gone,       \* gone[c]: the peer of c has sent a close frame or vanished
    pump,       \* pump[c]: the goroutine that reads connection c
    count,      \* count[c]: downCount and upCount, messages read from c
    written,    \* written[c]: messages read from c that reached the other peer
    errCh,      \* the pumps whose errors are in the channel, first come first
    summary,    \* the counts that writeRealtimeHistory stores
    quiet       \* history: time since a message was last read, up to realtimeIdle

ticketVars == <<tickets, ttl, minted, taken>>
relayVars == <<handler, conn, deadline, sent, gone, pump, count, written, errCh, summary, quiet>>
vars == <<ticketVars, relayVars>>

Conns == {"down", "up"}
Other(c) == CHOOSE d \in Conns : d # c

TypeOK ==
    /\ tickets \in SUBSET Tickets /\ minted \in SUBSET Tickets
    /\ ttl \in [Tickets -> -1 .. realtimeTicketTTL]
    /\ taken \in [Tickets -> Nat]
    /\ handler \in {"none", "dial", "wait", "close up", "close down", "done"}
    /\ conn \in [Conns -> {"none", "open", "closed"}]
    /\ deadline \in [Conns -> 0 .. realtimeIdle]
    /\ sent \in [Conns -> 0 .. MaxSent] /\ gone \in [Conns -> BOOLEAN]
    /\ pump \in [Conns -> {"none", "reading", "writing", "ended"}]
    /\ count \in [Conns -> 0 .. MaxSent] /\ written \in [Conns -> 0 .. MaxSent]
    /\ errCh \in Seq(Conns) /\ Len(errCh) <= 2
    /\ summary \in [Conns -> 0 .. MaxSent]
    /\ quiet \in 0 .. realtimeIdle

Zero == [c \in Conns |-> 0]

Init ==
    /\ tickets = {} /\ minted = {}
    /\ ttl = [t \in Tickets |-> -1]
    /\ taken = [t \in Tickets |-> 0]
    /\ handler = "none"
    /\ conn = [c \in Conns |-> "none"]
    /\ deadline = Zero
    /\ sent = Zero /\ gone = [c \in Conns |-> FALSE]
    /\ pump = [c \in Conns |-> "none"]
    /\ count = Zero /\ written = Zero
    /\ errCh = <<>>
    /\ summary = Zero
    /\ quiet = 0

-----------------------------------------------------------------------------
(* Tickets; each call holds rtMu. *)

Live == {t \in tickets : ttl[t] >= 0}

\* mintTicket: the new entry, then the sweep.
Mint(t) ==
    /\ t \notin minted
    /\ minted' = minted \cup {t}
    /\ ttl' = [ttl EXCEPT ![t] = realtimeTicketTTL]
    /\ tickets' = Live \cup {t}
    /\ UNCHANGED <<taken, relayVars>>

TakeKeeping(t) ==
    /\ t \in tickets
    /\ taken' = [taken EXCEPT ![t] = IF t \in Live THEN @ + 1 ELSE @]
    /\ tickets' = IF t \in Live THEN tickets ELSE tickets \ {t}
    /\ UNCHANGED <<ttl, minted>>

\* takeTicket: the entry goes either way; an expired one is refused.
Take(t) ==
    /\ t \in tickets
    /\ taken' = [taken EXCEPT ![t] = IF t \in Live THEN @ + 1 ELSE @]
    /\ tickets' = tickets \ {t}
    /\ UNCHANGED <<ttl, minted>>

\* A taken ticket that leads to no relay here: it was expired, of the other
\* protocol, for SSE, or the upgrade of the browser's connection failed.
TakeOnly(t) == Take(t) /\ UNCHANGED relayVars

\* realtimeWS up to ServeWS.
Accept(t) ==
    /\ t \in Live
    /\ Take(t)
    /\ handler = "none"
    /\ handler' = "dial"
    /\ conn' = [conn EXCEPT !["down"] = "open"]
    /\ UNCHANGED <<deadline, sent, gone, pump, count, written, errCh, summary, quiet>>

-----------------------------------------------------------------------------
(* The relay. *)

\* DialWS fails or times out: the browser is told, history gets a 502, down is
\* closed.
DialFails ==
    /\ handler = "dial"
    /\ handler' = "done"
    /\ conn' = [conn EXCEPT !["down"] = "closed"]
    /\ UNCHANGED <<ticketVars, deadline, sent, gone, pump, count, written, errCh, summary, quiet>>

\* DialWS succeeds, both deadlines are set, both pumps start.
StartPumps ==
    /\ handler = "dial"
    /\ handler' = "wait"
    /\ conn' = [conn EXCEPT !["up"] = "open"]
    /\ deadline' = [c \in Conns |-> realtimeIdle]
    /\ pump' = [c \in Conns |-> "reading"]
    /\ quiet' = 0
    /\ UNCHANGED <<ticketVars, sent, gone, count, written, errCh, summary>>

Relaying == handler \notin {"none", "dial"}

\* A peer sends a message, or closes, or vanishes.
PeerSends(c) ==
    /\ Relaying /\ ~ gone[c] /\ sent[c] < MaxSent
    /\ sent' = [sent EXCEPT ![c] = @ + 1]
    /\ UNCHANGED <<ticketVars, handler, conn, deadline, gone, pump, count, written, errCh,
                   summary, quiet>>

PeerLeaves(c) ==
    /\ Relaying /\ ~ gone[c]
    /\ gone' = [gone EXCEPT ![c] = TRUE]
    /\ UNCHANGED <<ticketVars, handler, conn, deadline, sent, pump, count, written, errCh,
                   summary, quiet>>

Usable(c) == conn[c] = "open" /\ deadline[c] > 0

\* ReadMessage returns a message; the pump counts it and moves the deadline of
\* the OTHER connection.
Read(c) ==
    /\ pump[c] = "reading"
    /\ Usable(c) /\ count[c] < sent[c]
    /\ count' = [count EXCEPT ![c] = @ + 1]
    /\ deadline' = [deadline EXCEPT ![Other(c)] = realtimeIdle]
    /\ pump' = [pump EXCEPT ![c] = "writing"]
    /\ quiet' = 0
    /\ UNCHANGED <<ticketVars, handler, conn, sent, gone, written, errCh, summary>>

\* The message is written to the other connection.  It may take as long as that
\* peer pleases: writeFrame holds writeMu and waits for room.
Write(c) ==
    /\ pump[c] = "writing"
    /\ Usable(Other(c)) /\ ~ gone[Other(c)]
    /\ written' = [written EXCEPT ![c] = @ + 1]
    /\ pump' = [pump EXCEPT ![c] = "reading"]
    /\ UNCHANGED <<ticketVars, handler, conn, deadline, sent, gone, count, errCh, summary, quiet>>

\* The pump reports its error and ends; errCh has room for both pumps.
End(c) ==
    /\ errCh' = Append(errCh, c)
    /\ pump' = [pump EXCEPT ![c] = "ended"]
    /\ UNCHANGED <<ticketVars, handler, conn, deadline, sent, gone, count, written, summary, quiet>>

\* ReadMessage fails: closed, past the deadline, or nothing left of a peer that
\* is gone.
ReadFails(c) ==
    /\ pump[c] = "reading"
    /\ ~ Usable(c) \/ (gone[c] /\ count[c] = sent[c])
    /\ End(c)

WriteFails(c) ==
    /\ pump[c] = "writing"
    /\ ~ Usable(Other(c)) \/ gone[Other(c)]
    /\ End(c)

\* What the handler may read of the counters: the receive from errCh orders it
\* after the pump that sent, and after nothing of the other pump, which may still
\* be running; of that one it may see any value there has been.
SeenCounts(sender) ==
    {seen \in [Conns -> 0 .. MaxSent] :
        seen[sender] = count[sender] /\ seen[Other(sender)] <= count[Other(sender)]}

WakeEarly ==
    /\ handler = "wait"
    /\ \E sender \in Conns : summary' \in SeenCounts(sender)
    /\ handler' = "close up"
    /\ UNCHANGED <<ticketVars, conn, deadline, sent, gone, pump, count, written, errCh, quiet>>

\* The first error wakes the handler, which puts the counts into its history row (an
\* insert that fails is a warning).
Wake ==
    /\ handler = "wait" /\ errCh # <<>>
    /\ errCh' = Tail(errCh)
    /\ summary' \in SeenCounts(Head(errCh))
    /\ handler' = "close up"
    /\ UNCHANGED <<ticketVars, conn, deadline, sent, gone, pump, count, written, quiet>>

\* The deferred Close of connection c wants writeMu for its close frame: a pump
\* that is writing to c goes first.
Close(c, from, to) ==
    /\ handler = from
    /\ pump[Other(c)] # "writing"
    /\ conn' = [conn EXCEPT ![c] = "closed"]
    /\ handler' = to
    /\ UNCHANGED <<ticketVars, deadline, sent, gone, pump, count, written, errCh, summary, quiet>>

LeaveUpOpen ==
    /\ handler = "close up"
    /\ handler' = "close down"
    /\ UNCHANGED <<ticketVars, conn, deadline, sent, gone, pump, count, written, errCh, summary,
                   quiet>>

CloseUp == Close("up", "close up", "close down")

CloseDown == Close("down", "close down", "done")

-----------------------------------------------------------------------------
Less(n) == IF n > 0 THEN n - 1 ELSE 0

Tick ==
    /\ ttl' = [t \in Tickets |-> IF ttl[t] >= 0 THEN ttl[t] - 1 ELSE -1]
    /\ deadline' = [c \in Conns |-> Less(deadline[c])]
    /\ quiet' = IF Relaying /\ quiet < realtimeIdle THEN quiet + 1 ELSE quiet
    /\ UNCHANGED <<tickets, minted, taken, handler, conn, sent, gone, pump, count, written, errCh,
                   summary>>

\* What the goroutines do by themselves.
Pump(c) == Read(c) \/ ReadFails(c) \/ WriteFails(c)
Handler == StartPumps \/ Wake \/ CloseUp \/ CloseDown

Next ==
    \/ \E t \in Tickets : Mint(t) \/ TakeOnly(t) \/ Accept(t)
    \/ DialFails
    \/ \E c \in Conns : PeerSends(c) \/ PeerLeaves(c) \/ Write(c) \/ Pump(c)
    \/ Handler
    \/ Tick

\* The clock runs and a goroutine that can go on does.  Nothing is assumed of the
\* peers: a write they do not make room for may last until the deadline.
Spec ==
    /\ Init /\ [][Next]_vars
    /\ WF_vars(Tick) /\ WF_vars(Handler) /\ \A c \in Conns : WF_vars(Pump(c))

-----------------------------------------------------------------------------
(* Correctness. *)

\* realtimeConnect's tickets are single-use.
OneTime == INSTANCE OneTimeTokens WITH
            Tokens <- Tickets, live <- Live, spent <- {t \in Tickets : taken[t] > 0}

TicketsAreOneTimeTokens == OneTime!Spec

\* A relay that falls silent ends, whatever the peers do: the handler returns,
\* both connections are closed and neither pump is left behind, although a pump
\* may hold writeMu when the handler wants it and only one error is waited for.
SilentRelayEnds ==
    (handler = "wait") ~>
        (handler = "done" /\ \A c \in Conns : conn[c] = "closed" /\ pump[c] = "ended")

\* The pump that ended first has told the handler all its messages: its count in
\* history is final.  (The other pump may go on for a while; its is not.)
EndedPumpIsCounted ==
    handler \in {"close up", "close down", "done"} /\ conn["up"] # "none" =>
        \E c \in Conns : pump[c] = "ended" /\ summary[c] = count[c]

\* Of the messages of a direction at most one is between the two connections, and only
\* the one whose write failed is lost on the way.
AtMostOneInFlight ==
    \A c \in Conns :
        /\ written[c] <= count[c] /\ count[c] <= written[c] + 1 /\ count[c] <= sent[c]
        /\ pump[c] \in {"none", "reading"} => written[c] = count[c]
        /\ pump[c] = "writing" => written[c] # count[c]

\* Both pumps run once the target was dialled and neither did before; each error in
\* the channel is that of another pump that has ended.
PumpsReportOnce ==
    /\ handler \in {"none", "dial"} => conn["up"] = "none"
    /\ conn["up"] = "none" => /\ handler \in {"none", "dial", "done"} /\ errCh = <<>>
                              /\ \A c \in Conns : pump[c] = "none"
    /\ conn["up"] # "none" => \A c \in Conns : pump[c] # "none"
    /\ errCh \in {<<>>} \cup {<<c>> : c \in Conns} \cup {<<c, Other(c)>> : c \in Conns}
    /\ \A i \in DOMAIN errCh : pump[errCh[i]] = "ended"

\* No connection is closed under a handler that still relays, and a handler that has
\* returned leaves none open.
ConnectionsFollowHandler ==
    /\ handler = "none" => \A c \in Conns : conn[c] = "none"
    /\ handler = "dial" => conn["down"] = "open"
    /\ handler \in {"wait", "close up"} => \A c \in Conns : conn[c] = "open"
    /\ handler = "close down" => conn["up"] = "closed" /\ conn["down"] = "open"
    /\ handler = "done" => conn["up"] # "open" /\ conn["down"] = "closed"

\* A ticket in the table was drawn, and none that was taken is in the table.
TicketsAreFresh ==
    /\ tickets \subseteq minted
    /\ \A t \in Tickets : taken[t] > 0 => t \in minted \ tickets

\* The relay is well formed, its deadlines and counters within their bounds, its row
\* counts the pump that ended, and what has ended has closed both connections.
RelayInv ==
    /\ TypeOK
    /\ EndedPumpIsCounted /\ AtMostOneInFlight /\ PumpsReportOnce
    /\ ConnectionsFollowHandler /\ TicketsAreFresh

\* DESIGN.md, line 477: the relay is cut after 300 s of idleness.  A read that
\* runs into its deadline means that nothing was relayed for realtimeIdle.
CutOnlyWhenIdle ==
    [][\A c \in Conns :
          pump[c] = "reading" /\ pump'[c] = "ended" /\ conn[c] = "open" /\ ~ gone[c]
              => quiet = realtimeIdle]_vars
=============================================================================
