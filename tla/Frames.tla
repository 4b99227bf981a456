------------------------------- MODULE Frames -------------------------------
(***************************************************************************)
(* One end of a WebSocket: a WSConn that reads the frames of its peer and  *)
(* that three goroutines write to: the pump that sends messages, the       *)
(* reader, which answers pings and closes, and the handler that closes.    *)
(* A frame goes out in two writes, its header and its payload, either of   *)
(* which may fail; writeMu is held over both, and Close closes the         *)
(* connection after it has released it.  A payload is its length, which is *)
(* read as an int64: a negative one ends the process.  When frames are     *)
(* read and written, and the deadlines, are in Realtime.                   *)
(***************************************************************************)
EXTENDS Integers, Sequences, FiniteSets, SequencesExt

CONSTANTS
    Radix,              \* the number of values of a byte: 256
    wsMaxFrameBytes,    \* the longest payload of a frame
    Inputs,             \* what the peer may send: sequences of frames
    Lengths,            \* lengths of the messages the pump is given
    IsClient,           \* whether the pump masks its frames
    MaxSends,           \* bound on the messages of the pump
    MaxFailures         \* bound on writes that fail

\* The numbers of two and of eight bytes, and the top bit of one.
Radix2 == Radix * Radix
Radix8 == Radix2 * (Radix2 * (Radix2 * Radix2))
TopBit == Radix \div 2

ASSUME RadixAssumption == Radix \in Nat /\ Radix >= 8 /\ Radix % 2 = 0
ASSUME FrameBytesAssumption == wsMaxFrameBytes \in Nat /\ wsMaxFrameBytes < Radix8 \div 2
ASSUME FrameInputsAssumption ==
    /\ \A frames \in Inputs : frames \in Seq([op : Nat, fin : BOOLEAN, len : 0 .. Radix8 - 1])
    /\ Lengths \subseteq Nat /\ IsClient \in BOOLEAN

VARIABLES
    input,      \* the frames of the peer
    framesRead,      \* how many of them readFrame has read
    msg,        \* ReadMessage: the lengths of the payloads assembled so far
    delivered,  \* what ReadMessage has returned
    reading,    \* whether the reader still reads
    lock,       \* the holder of writeMu, or "none"
    task,       \* task[w]: the frame that writer w has to write
    wire,       \* what the connection has been given: headers and payloads
    sends,      \* messages given to the pump
    failures,   \* writes that failed
    closing,    \* the handler is in Close, or through with it
    closed,     \* the connection is closed
    crashed     \* the process has ended of a panic

framesVars == <<input, framesRead, msg, delivered, reading, lock, task, wire, sends, failures,
                closing, closed, crashed>>

Writers == {"pump", "reader", "handler"}

Text == 1
CloseOp == 8
Ping == 9
Pong == 10

Frame(op, fin, len) == [op |-> op, fin |-> fin, len |-> len]

NoTask == Frame(0, FALSE, 0)

FramesInit ==
    /\ input \in Inputs
    /\ framesRead = 0 /\ msg = <<>> /\ delivered = <<>> /\ reading = TRUE
    /\ lock = "none" /\ task = [w \in Writers |-> NoTask]
    /\ wire = <<>> /\ sends = 0 /\ failures = 0
    /\ closing = FALSE /\ closed = FALSE /\ crashed = FALSE

-----------------------------------------------------------------------------
(* Headers: the bytes after the first, which say how long the payload is.   *)

\* byte(n), byte(n >> 8), and n >> 16.
Low(n) == n % Radix
High(n) == (n \div Radix) % Radix
Shift(n) == n \div Radix2

\* What stands for a length of two bytes and for one of eight: 126 and 127.
TwoFollow == TopBit - 2
EightFollow == TopBit - 1

Short(n, maskBit) == <<n + maskBit>>

Extended(n, maskBit) == <<TwoFollow + maskBit, High(n), Low(n)>>

Long(n, maskBit) ==
    LET a == Shift(n)  b == Shift(a)  c == Shift(b)
    IN  <<EightFollow + maskBit, High(c), Low(c), High(b), Low(b), High(a), Low(a),
          High(n), Low(n)>>

MaskBit(mask) == IF mask THEN TopBit ELSE 0

LengthBytes(n, mask) ==
    IF n < TwoFollow THEN Short(n, MaskBit(mask))
    ELSE IF n < Radix2 THEN Extended(n, MaskBit(mask)) ELSE Long(n, MaskBit(mask))

\* length<<8 | byte, twice.
TwoMore(length, bytes, i) == Radix2 * length + Radix * bytes[i] + bytes[i + 1]

\* Eight bytes as an int64.
Signed(n) == IF n < Radix8 \div 2 THEN n ELSE n - Radix8

\* readFrame: the length that these bytes announce.
AnnouncedLength(bytes) ==
    CASE bytes[1] % TopBit = TwoFollow -> TwoMore(0, bytes, 2)
      [] bytes[1] % TopBit = EightFollow ->
            Signed(TwoMore(TwoMore(TwoMore(TwoMore(0, bytes, 2), bytes, 4), bytes, 6), bytes, 8))
      [] OTHER -> bytes[1] % TopBit

-----------------------------------------------------------------------------
(* Reading. *)

\* The peer writes each length in any form that has room for it.
PeerForms(n, bit) ==
    {Long(n, bit)}
    \cup (IF n < Radix2 THEN {Extended(n, bit)} ELSE {})
    \cup (IF n < TwoFollow THEN {Short(n, bit)} ELSE {})

Size(lengths) ==
    LET upTo[k \in 0 .. Len(lengths)] == IF k = 0 THEN 0 ELSE upTo[k - 1] + lengths[k]
    IN  upTo[Len(lengths)]

CanRead == reading /\ task["reader"] = NoTask

StopReading == reading' = FALSE /\ UNCHANGED <<msg, delivered, task>>

Give(w, frame) == task' = [task EXCEPT ![w] = frame]

\* A frame of a message: assembled, delivered when it is the last, refused when
\* the message is too long and there is more to come.
TakeData(frame, length) ==
    LET assembled == Append(msg, length)
    IN  IF frame.fin
        THEN /\ delivered' = Append(delivered, assembled) /\ msg' = <<>>
             /\ UNCHANGED <<reading, task>>
        ELSE IF Size(assembled) > wsMaxFrameBytes THEN StopReading
        ELSE msg' = assembled /\ UNCHANGED <<delivered, reading, task>>

TakeControlDropping(frame, length) ==
    /\ msg' = <<>> /\ UNCHANGED <<delivered, reading>>
    /\ task' = IF frame.op = Ping THEN [task EXCEPT !["reader"] = Frame(Pong, TRUE, length)]
               ELSE task

\* Pings are answered; pongs are ignored.
TakeControl(frame, length) ==
    /\ UNCHANGED <<msg, delivered, reading>>
    /\ task' = IF frame.op = Ping THEN [task EXCEPT !["reader"] = Frame(Pong, TRUE, length)]
               ELSE task

TakeClose ==
    /\ reading' = FALSE /\ Give("reader", Frame(CloseOp, TRUE, 0))
    /\ UNCHANGED <<msg, delivered>>

TakeFrame(frame, length) ==
    CASE frame.op \in {0, 1, 2} -> TakeData(frame, length)
      [] frame.op = CloseOp -> TakeClose
      [] frame.op \in {Ping, Pong} -> TakeControl(frame, length)
      [] OTHER -> StopReading

\* A length beyond the cap is refused; make panics of a negative one, in a goroutine
\* where nothing recovers.
ReadFrame ==
    /\ CanRead /\ framesRead < Len(input)
    /\ framesRead' = framesRead + 1
    /\ \E mask \in BOOLEAN :
       \E bytes \in PeerForms(input[framesRead + 1].len, MaskBit(mask)) :
         LET length == AnnouncedLength(bytes)
         IN  \/ length > wsMaxFrameBytes /\ StopReading /\ UNCHANGED crashed
             \/ length < 0 /\ StopReading /\ crashed' = TRUE
             \/ length \in 0 .. wsMaxFrameBytes /\ TakeFrame(input[framesRead + 1], length)
                /\ UNCHANGED crashed
    /\ UNCHANGED <<input, lock, wire, sends, failures, closing, closed>>

\* The peer is gone, or the connection is closed or past its deadline.
ReadError ==
    /\ CanRead
    /\ StopReading
    /\ UNCHANGED <<input, framesRead, lock, wire, sends, failures, closing, closed, crashed>>

-----------------------------------------------------------------------------
(* Writing. *)

\* WriteText and WriteMessage; a message that is too long is refused at once.
SendMessage(n) ==
    /\ task["pump"] = NoTask /\ sends < MaxSends
    /\ sends' = sends + 1
    /\ IF n > wsMaxFrameBytes THEN UNCHANGED task ELSE Give("pump", Frame(Text, TRUE, n))
    /\ UNCHANGED <<input, framesRead, msg, delivered, reading, lock, wire, failures, closing,
                   closed, crashed>>

\* Close, with its close frame first.
CloseConn ==
    /\ task["handler"] = NoTask /\ ~ closing
    /\ closing' = TRUE /\ Give("handler", Frame(CloseOp, TRUE, 0))
    /\ UNCHANGED <<input, framesRead, msg, delivered, reading, lock, wire, sends, failures, closed,
                   crashed>>

\* conn.Close, whatever became of the frame: writeMu is free again, and may be taken.
CloseNow ==
    /\ closing /\ task["handler"] = NoTask /\ ~ closed
    /\ closed' = TRUE
    /\ UNCHANGED <<input, framesRead, msg, delivered, reading, lock, task, wire, sends, failures,
                   closing, crashed>>

\* Control frames are never masked.
Header(w, frame) ==
    [part |-> "header", by |-> w, op |-> frame.op,
     bytes |-> LengthBytes(frame.len, IsClient /\ frame.op = Text)]

Payload(w, frame) == [part |-> "payload", by |-> w, len |-> frame.len]

OnWrite == UNCHANGED <<input, framesRead, msg, delivered, reading, sends, closing, closed, crashed>>

FreeAlways(w) == lock # w

\* writeMu is free for w, which does not hold it.
Free(w) == lock = "none"

WriteHeader(w) ==
    /\ task[w] # NoTask /\ Free(w) /\ ~ closed
    /\ wire' = Append(wire, Header(w, task[w]))
    /\ IF task[w].len = 0 THEN Give(w, NoTask) /\ UNCHANGED lock
       ELSE lock' = w /\ UNCHANGED task
    /\ OnWrite /\ UNCHANGED failures

WritePayload(w) ==
    /\ lock = w /\ ~ closed
    /\ wire' = Append(wire, Payload(w, task[w]))
    /\ lock' = "none" /\ Give(w, NoTask)
    /\ OnWrite /\ UNCHANGED failures

\* A deadline or a lost connection, at the header or at the payload; every write
\* to a closed connection fails.
WriteError(w) ==
    /\ task[w] # NoTask /\ (lock = w \/ Free(w))
    /\ \/ closed /\ UNCHANGED failures
       \/ failures < MaxFailures /\ failures' = failures + 1
    /\ lock' = IF lock = w THEN "none" ELSE lock
    /\ Give(w, NoTask)
    /\ UNCHANGED wire /\ OnWrite

FramesNext ==
    /\ ~ crashed
    /\ \/ ReadFrame \/ ReadError \/ CloseConn \/ CloseNow
       \/ \E n \in Lengths : SendMessage(n)
       \/ \E w \in Writers : WriteHeader(w) \/ WritePayload(w) \/ WriteError(w)

FramesSpec == FramesInit /\ [][FramesNext]_framesVars

-----------------------------------------------------------------------------
(* Correctness. *)

\* What has been written is a sequence of whole frames: behind a header is the
\* payload it announces, by the same goroutine; only the last frame may be
\* incomplete, while its goroutine holds the lock, or for good when the connection was
\* closed in the middle of it: Close waits for writeMu to write its frame, and not to
\* close.  After a write has failed on an open connection the rest of its frame is
\* missing, and nothing is promised.
FramesWhole ==
    failures = 0 =>
        \A i \in DOMAIN wire :
            IF wire[i].part = "header"
            THEN \/ AnnouncedLength(wire[i].bytes) = 0
                 \/ i = Len(wire) /\ (lock = wire[i].by \/ closed)
                 \/ i < Len(wire)
                    /\ wire[i + 1] = [part |-> "payload", by |-> wire[i].by,
                                      len |-> AnnouncedLength(wire[i].bytes)]
            ELSE i > 1 /\ wire[i - 1].part = "header"

Tasks == [op : Nat, fin : BOOLEAN, len : 0 .. wsMaxFrameBytes]

Pieces == [part : {"header"}, by : Writers, op : Nat, bytes : Seq(Nat)]
          \cup [part : {"payload"}, by : Writers, len : Nat]

\* What FramesWhole rests on: who holds writeMu has a payload to write, and the
\* connection has been given the header of that frame last.
WritersInv ==
    /\ input \in Inputs /\ framesRead \in Nat
    /\ task \in [Writers -> Tasks] /\ wire \in Seq(Pieces)
    /\ lock \in Writers \cup {"none"} /\ failures \in Nat
    /\ lock # "none" => task[lock].len > 0
    /\ lock # "none" /\ failures = 0 =>
          wire # <<>> /\ wire[Len(wire)] = Header(lock, task[lock])
    /\ FramesWhole

Data == {0, 1, 2}

\* The frames read so far that have one of these opcodes, and those that end a message.
FramesOf(ops) == {i \in 1 .. framesRead : input[i].op \in ops}

Ends == {i \in FramesOf(Data) : input[i].fin}

\* The fragments of message m are the data frames that m - 1 ends come before.
Fragments(m) == {i \in FramesOf(Data) : Cardinality({e \in Ends : e < i}) = m - 1}

\* Where a number of a set is among them.
Place(S, i) == Cardinality({j \in S : j <= i})

\* These are the lengths of the fragments of message m, in order.
IsMessage(lengths, m) ==
    /\ Len(lengths) = Cardinality(Fragments(m))
    /\ \A i \in Fragments(m) : lengths[Place(Fragments(m), i)] = input[i].len

Pings == FramesOf({Ping})

Pongs == {i \in DOMAIN wire : wire[i].part = "header" /\ wire[i].op = Pong}

\* Each pong has the payload of its ping.
PongsAnswer ==
    \A p \in Pongs, q \in Pings :
        Place(Pongs, p) = Place(Pings, q) => AnnouncedLength(wire[p].bytes) = input[q].len

FramesTaken == 1 .. framesRead

\* No frame beyond the cap is taken, and the process ends exactly of one whose length is
\* negative as an int64.
LengthsKept ==
    /\ reading => \A i \in FramesTaken : input[i].len <= wsMaxFrameBytes
    /\ crashed <=> \E i \in FramesTaken : input[i].len >= Radix8 \div 2

\* What is read is what the peer sent: its messages, each whole, in order, however
\* they were fragmented and whatever control frames came in between; no frame is longer
\* than the cap and no message than two of them; every ping is answered with its own
\* payload, in order; and a length with its top bit set is not refused: it ends the
\* process.
ReadsMeanInput ==
    /\ LengthsKept
    /\ Len(delivered) <= Cardinality(Ends)
    /\ reading => Len(delivered) = Cardinality(Ends)
    /\ \A m \in DOMAIN delivered :
          IsMessage(delivered[m], m) /\ Size(delivered[m]) <= 2 * wsMaxFrameBytes
    /\ failures = 0 /\ ~ closed =>
          /\ PongsAnswer /\ Cardinality(Pongs) <= Cardinality(Pings)
          /\ CanRead => Cardinality(Pongs) = Cardinality(Pings)

\* "Client frames are masked": every frame that a client sends.
ClientFramesMasked ==
    IsClient => \A i \in DOMAIN wire :
                    wire[i].part = "header" => wire[i].bytes[1] >= TopBit
=============================================================================
