------------------------------ MODULE History -------------------------------
(***************************************************************************)
(* The history table.  An execution inserts its row, reads the cap that is *)
(* configured, counts the rows and deletes those beyond the cap, in four   *)
(* statements, while others do the same, users delete rows of theirs and   *)
(* an administrator changes the cap.  A row is its id: SQLite gives the    *)
(* largest id plus one, so that the order of ids is the order of inserts.  *)
(***************************************************************************)
EXTENDS Integers, FiniteSets, FiniteSetsExt

CONSTANTS
    Recorders,  \* executions that record
    Keeps,      \* values of max_history
    FlagKeep,   \* the -max-history flag
    MaxId       \* bound on the ids

ASSUME KeepsAssumption == Keeps \subseteq Nat \ {0} /\ FlagKeep \in Keeps /\ IsFiniteSet(Keeps)
ASSUME IdsAssumption == MaxId \in Nat

VARIABLES
    rows,       \* history
    keep,       \* settings.max_history, or the flag when it is not set
    rec,        \* rec[j]: the step of the recording, and the cap it has read
    unpurged    \* history: rows whose execution could not purge since the last purge that could

historyVars == <<rows, keep, rec, unpurged>>

HistoryTypeOK ==
    /\ rows \subseteq 1 .. MaxId
    /\ keep \in Keeps
    /\ rec \in [Recorders -> [pc : {"off", "keep", "count", "delete"}, keep : Keeps \cup {0}]]
    /\ unpurged \in Nat

NotRecording == [pc |-> "off", keep |-> 0]

HistoryInit ==
    /\ rows = {}
    /\ keep \in Keeps
    /\ rec = [j \in Recorders |-> NotRecording]
    /\ unpurged = 0

Recording == {j \in Recorders : rec[j].pc # "off"}

NewRow == Max({0} \cup rows) + 1

Newest(n) == {id \in rows : Cardinality({i \in rows : i > id}) < n}

InsertRow(j) ==
    /\ NewRow <= MaxId
    /\ rows' = rows \cup {NewRow}
    /\ rec' = [rec EXCEPT ![j].pc = "keep"]
    /\ UNCHANGED <<keep, unpurged>>

\* An insert that fails is a warning; the purge follows all the same.
InsertFails(j) ==
    /\ rec' = [rec EXCEPT ![j].pc = "keep"]
    /\ UNCHANGED <<rows, keep, unpurged>>

\* A setting that cannot be read counts as not set.
ReadKeep(j) ==
    /\ rec[j].pc = "keep"
    /\ \E k \in {keep, FlagKeep} : rec' = [rec EXCEPT ![j] = [pc |-> "count", keep |-> k]]
    /\ UNCHANGED <<rows, keep, unpurged>>

TooManyByTwo(k) == Cardinality(rows) > k + 1

TooMany(k) == Cardinality(rows) > k

CountRows(j) ==
    /\ rec[j].pc = "count"
    /\ rec' = [rec EXCEPT ![j] = IF TooMany(rec[j].keep) THEN [@ EXCEPT !.pc = "delete"]
                                ELSE NotRecording]
    /\ unpurged' = IF TooMany(rec[j].keep) THEN unpurged ELSE 0
    /\ UNCHANGED <<rows, keep>>

DeleteOld(j) ==
    /\ rec[j].pc = "delete"
    /\ rows' = Newest(rec[j].keep)
    /\ rec' = [rec EXCEPT ![j] = NotRecording]
    /\ unpurged' = 0
    /\ UNCHANGED keep

\* COUNT or DELETE fails, which is a warning, or the process ends.
PurgesEnd(S) ==
    /\ rec' = [j \in Recorders |-> IF j \in S THEN NotRecording ELSE rec[j]]
    /\ unpurged' = unpurged + Cardinality({j \in S : rec[j].pc # "off"})
    /\ UNCHANGED <<rows, keep>>

\* deleteHistory, by the row's account.
DeleteHistory(id) ==
    /\ id \in rows
    /\ rows' = rows \ {id}
    /\ UNCHANGED <<keep, rec, unpurged>>

PutKeep(k) ==
    /\ keep' = k
    /\ UNCHANGED <<rows, rec, unpurged>>

-----------------------------------------------------------------------------
(* Correctness. *)

\* Beyond the largest cap there are only the rows of executions that are still
\* recording, and of those whose purge failed since the last one that ran: no
\* interleaving of inserts, counts and deletes leaves more behind.
HistoryBounded == Cardinality(rows) <= Max(Keeps) + Cardinality(Recording) + unpurged

\* What HistoryBounded rests on: a purge deletes by a cap that was configured.
HistoryInv ==
    /\ HistoryTypeOK
    /\ HistoryBounded
    /\ \A j \in Recorders : rec[j].pc \in {"count", "delete"} => rec[j].keep \in Keeps
=============================================================================
