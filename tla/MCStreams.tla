----------------------------- MODULE MCStreams -----------------------------
(***************************************************************************)
(* The two streams of the realtime relay, each on its own: the frames of a *)
(* WebSocket connection and a server-sent event stream.                    *)
(***************************************************************************)
EXTENDS Frames, EventStream

VARIABLE part   \* which of the two this behaviour is about

vars == <<part, framesVars, eventVars>>

Init ==
    \/ part = "frames" /\ FramesInit /\ EventsInit
    \/ part = "events" /\ FramesInit /\ EventsInit /\ input = CHOOSE i \in Inputs : TRUE

FramesStep == part = "frames" /\ FramesNext /\ UNCHANGED <<part, eventVars>>

EventsStep == part = "events" /\ EventsNext /\ UNCHANGED <<part, framesVars>>

Next == FramesStep \/ EventsStep

Spec == Init /\ [][Next]_vars /\ EventsFairness

\* A fragmented message with a ping in it, messages of every form of length, and ones
\* that are too long, up to the longest that eight bytes can say, in the end.
Sent ==
    {<<Frame(1, FALSE, TwoFollow - 1), Frame(9, TRUE, 1), Frame(0, FALSE, 0),
       Frame(0, TRUE, TwoFollow)>>,
     <<Frame(2, TRUE, Radix2), Frame(9, TRUE, 0), Frame(1, TRUE, Radix2 - 1), Frame(8, TRUE, 0)>>,
     <<Frame(1, FALSE, Radix2), Frame(10, TRUE, 3), Frame(0, FALSE, wsMaxFrameBytes),
       Frame(1, TRUE, 1)>>,
     <<Frame(9, TRUE, TwoFollow - 1), Frame(1, FALSE, wsMaxFrameBytes), Frame(9, TRUE, TwoFollow),
       Frame(0, TRUE, wsMaxFrameBytes)>>,
     <<Frame(1, TRUE, wsMaxFrameBytes + 1)>>,
     <<Frame(9, TRUE, Radix8 \div 2 - 1)>>,
     <<Frame(1, TRUE, EightFollow), Frame(0, TRUE, Radix8 \div 2), Frame(9, TRUE, 1)>>,
     <<Frame(9, TRUE, 1), Frame(1, TRUE, Radix8 - 1)>>,
     <<Frame(1, TRUE, 0), Frame(3, TRUE, 1)>>}

WriteLengths ==
    {0, TwoFollow - 1, TwoFollow, Radix2 - 1, Radix2, wsMaxFrameBytes, wsMaxFrameBytes + 1}

Typed == [data |-> {"", "s"}, event |-> {"", "s", "t"}, id |-> {"", "s"}]
=============================================================================
