------------------------------ MODULE AuditLog ------------------------------
(***************************************************************************)
(* Settings.AppendAudit: the audit log is one settings row, read, extended *)
(* and written back in two statements by any number of handlers at once,   *)
(* and by pwreset in a process of its own.  Get's error is dropped: a read *)
(* that fails makes the log count as empty.                                *)
(***************************************************************************)
EXTENDS Integers, Sequences, SequencesExt

CONSTANTS
    Appenders,      \* goroutines that append
    MaxEntries,     \* the cap; 500 in the code
    MaxLines        \* bound on the lines of a run

ASSUME AuditAssumption == MaxEntries \in Nat \ {0} /\ MaxLines \in Nat

VARIABLES
    log,        \* settings.audit_log
    lines,      \* lines begun so far: line n is the n-th
    app,        \* app[w]: an append between its read and its write
    alone       \* history: lines whose append overlapped no other, and no failed read followed

auditVars == <<log, lines, app, alone>>

Lines == 1 .. MaxLines

\* cur: what Get returned; met (history): another append was under way meanwhile.
PendingAppend == [line : 0 .. MaxLines, cur : SeqOf(Lines, MaxEntries), met : BOOLEAN, lost : BOOLEAN]

NoAppend == [line |-> 0, cur |-> <<>>, met |-> FALSE, lost |-> FALSE]

AuditTypeOK ==
    /\ log \in SeqOf(Lines, MaxEntries)
    /\ lines \in 0 .. MaxLines
    /\ app \in [Appenders -> PendingAppend]
    /\ alone \subseteq Lines

AuditInit ==
    /\ log = <<>>
    /\ lines = 0
    /\ app = [w \in Appenders |-> NoAppend]
    /\ alone = {}

Appending == {w \in Appenders : app[w].line # 0}

AppendedKeepingOldest(cur, line) ==
    IF Len(cur) = MaxEntries THEN cur ELSE Append(cur, line)

\* The last MaxEntries of cur and the line.
Appended(cur, line) ==
    IF Len(cur) = MaxEntries THEN Append(Tail(cur), line) ELSE Append(cur, line)

ReadLog(w, lost) ==
    /\ w \notin Appending
    /\ lines < MaxLines
    /\ lines' = lines + 1
    /\ app' = [v \in Appenders |->
                IF v = w THEN [line |-> lines', cur |-> IF lost THEN <<>> ELSE log,
                               met |-> Appending # {}, lost |-> lost]
                ELSE IF v \in Appending THEN [app[v] EXCEPT !.met = TRUE]
                ELSE app[v]]
    /\ UNCHANGED <<log, alone>>

WriteLog(w) ==
    /\ w \in Appending
    /\ log' = Appended(app[w].cur, app[w].line)
    /\ alone' = (IF app[w].lost THEN {} ELSE alone)
                    \cup (IF app[w].met THEN {} ELSE {app[w].line})
    /\ app' = [app EXCEPT ![w] = NoAppend]
    /\ UNCHANGED lines

\* Set fails, which is a warning, or the process dies.
StopAppends(S) ==
    /\ app' = [w \in Appenders |-> IF w \in S THEN NoAppend ELSE app[w]]
    /\ UNCHANGED <<log, lines, alone>>

-----------------------------------------------------------------------------
(* Correctness. *)

\* Of the lines S, entries has lost none but those that newer ones displaced.
Keeps(entries, S) ==
    \A n \in S \ ToSet(entries) :
        Len(entries) = MaxEntries /\ \A m \in ToSet(entries) : m > n

\* A line whose append overlapped no other stays in the log, through the lost
\* updates of those that do overlap, until MaxEntries newer lines fill it, unless
\* a read of the log fails.
UncontendedLinesStay == Keeps(log, alone)

InOrder(entries) ==
    \A i, j \in DOMAIN entries : i < j => entries[i] < entries[j]

\* Append r has read older lines in their order, and all that the log must keep.
ReadWell(r, last, S) ==
    /\ r.line <= last
    /\ InOrder(r.cur)
    /\ \A n \in ToSet(r.cur) : n < r.line
    /\ IF r.lost THEN r.cur = <<>> ELSE Keeps(r.cur, S)

\* What UncontendedLinesStay rests on: an append that meets another knows it, and what
\* it has read keeps what the log must keep, although the log may have changed since.
AuditInv ==
    /\ AuditTypeOK
    /\ UncontendedLinesStay
    /\ InOrder(log)
    /\ \A n \in ToSet(log) : n <= lines
    /\ \A w \in Appending : ReadWell(app[w], lines, alone)
    /\ \A v, w \in Appending : v # w => app[w].met
=============================================================================
