--------------------------- MODULE UpstreamProofs ---------------------------
(***************************************************************************)
(* Proofs about the handlers that talk to an upstream.  For any number of  *)
(* executions: no run of a script is cut off by another run's deadline,    *)
(* but for the timer that has fired already when its run ends; and the     *)
(* history table stays within its cap by no more than the purges still to  *)
(* come, whatever inserts, deletes and changes of the cap fall between the *)
(* statements of a purge.  For any tickets, lifetime, idle limit and       *)
(* number of messages: the invariant of the relay and its pumps, and that  *)
(* the tickets are single-use tokens; and about the connections it relays  *)
(* between: however three goroutines write to one, it is given whole       *)
(* frames, for any lengths, and what is read of it is the messages that    *)
(* the peer sent, each whole, and every ping answered.  For any events an  *)
(* upstream sends: the browser reads them, whole and in order.             *)
(***************************************************************************)
EXTENDS Execution, Realtime, Frames, EventStream, Lemmas, FiniteSetTheorems,
        SequenceTheorems, TLAPS

\* What the steps of one execution do to its runtime.
RuntimeStep(j) ==
    \/ \E f \in Phases : StartRun(j, f) \/ Fire(j, f) \/ Interrupt(j, f)
    \/ Returns(j)
    \/ vm' = [vm EXCEPT ![j] = NewRuntime]

\* Every step of the handlers is a step of one runtime, of none, or a restart.
LEMMA ExecStepIsARuntimeStep ==
    ASSUME [ExecNext]_execVars
    PROVE  \/ \E j \in Jobs : RuntimeStep(j)
           \/ vm' = [j \in Jobs |-> NewRuntime]
           \/ UNCHANGED vm
<1> USE DEF RuntimeStep, Phases
<1>1. ASSUME NEW j \in Jobs, Own(j) PROVE RuntimeStep(j) \/ UNCHANGED vm
    <2>1. CASE StartPre(j)
        BY <2>1 DEF StartPre
    <2>2. CASE PreInterrupted(j)
        BY <2>2 DEF PreInterrupted, Respond
    <2>3. CASE Resolve(j)
        BY <2>3 DEF Resolve, Respond
    <2>4. CASE StartTest(j)
        BY <2>4 DEF StartTest
    <2>5. CASE TestInterrupted(j)
        BY <2>5 DEF TestInterrupted, Interrupted
    <2>6. CASE Insert(j)
        BY <2>6 DEF Insert
    <2>7. CASE Purge(j)
        BY <2>7 DEF Purge, Respond
    <2> QED
        BY <1>1, <2>1, <2>2, <2>3, <2>4, <2>5, <2>6, <2>7 DEF Own
<1>2. ASSUME NEW j \in Jobs, PreReturns(j) \/ TestReturns(j) PROVE RuntimeStep(j)
    BY <1>2 DEF PreReturns, TestReturns, Respond
<1>3. ASSUME NEW j \in Jobs, Redirected(j) \/ Answered(j) \/ CallFails(j)
      PROVE  RuntimeStep(j) \/ UNCHANGED vm
    BY <1>3 DEF Redirected, Answered, CallFails, GetAnswer, Respond
<1>4. ASSUME NEW j \in Jobs, NEW f \in Phases, Timer(j, f) PROVE RuntimeStep(j)
    BY <1>4 DEF Timer
<1>5. ASSUME NEW j \in Jobs, NEW pc, NEW follow, Begin(j, pc, follow) PROVE UNCHANGED vm
    BY <1>5 DEF Begin
<1>6. ASSUME Restart PROVE vm' = [j \in Jobs |-> NewRuntime]
    BY <1>6 DEF Restart
<1>7. ASSUME Others PROVE UNCHANGED vm
    BY <1>7 DEF Others
<1>8. ASSUME UNCHANGED execVars PROVE UNCHANGED vm
    BY <1>8 DEF execVars
<1> QED
    BY <1>1, <1>2, <1>3, <1>4, <1>5, <1>6, <1>7, <1>8 DEF ExecNext

LEMMA SandboxInitInv == ExecInit => SandboxInv
    BY DEF ExecInit, SandboxInit, SandboxInv, SandboxTypeOK, Runtime, NewRuntime, Phases

\* What the inductive invariant says of one runtime.
Sound(r) ==
    /\ r.timer["pre"] = "armed" => r.running = "pre"
    /\ r.timer["pre"] = "fired" => r.running = "pre" \/ r.late
    /\ r.flag => r.by \in Phases
    /\ r.by = "pre" => r.running = "pre" \/ r.late

LEMMA StartSound ==
    ASSUME NEW r \in Runtime, Sound(r), r.running = "none", NEW f \in Phases
    PROVE  LET s == [r EXCEPT !.running = f, !.timer[f] = "armed"]
           IN  s \in Runtime /\ Sound(s)
<1> DEFINE s == [r EXCEPT !.running = f, !.timer[f] = "armed"]
<1>1. /\ s.running = f /\ s.timer = [r.timer EXCEPT ![f] = "armed"]
      /\ s.flag = r.flag /\ s.by = r.by /\ s.late = r.late
    BY DEF Runtime
<1>2. s.timer \in [Phases -> {"off", "armed", "fired"}]
    BY <1>1 DEF Runtime
<1>3. s \in Runtime
    BY <1>1, <1>2 DEF Runtime, Phases
<1>4. Sound(s)
    BY <1>1 DEF Runtime, Phases, Sound
<1> QED
    BY <1>3, <1>4

LEMMA FireSound ==
    ASSUME NEW r \in Runtime, Sound(r), NEW f \in Phases, r.timer[f] = "armed"
    PROVE  LET s == [r EXCEPT !.timer[f] = "fired"]
           IN  s \in Runtime /\ Sound(s)
<1> DEFINE s == [r EXCEPT !.timer[f] = "fired"]
<1>1. /\ s.running = r.running /\ s.timer = [r.timer EXCEPT ![f] = "fired"]
      /\ s.flag = r.flag /\ s.by = r.by /\ s.late = r.late
    BY DEF Runtime
<1>2. s \in Runtime
    BY <1>1 DEF Runtime, Phases
<1>3. Sound(s)
    BY <1>1 DEF Runtime, Phases, Sound
<1> QED
    BY <1>2, <1>3

LEMMA InterruptSound ==
    ASSUME NEW r \in Runtime, Sound(r), NEW f \in Phases, r.timer[f] = "fired"
    PROVE  LET s == [r EXCEPT !.timer[f] = "off", !.flag = TRUE, !.by = f]
           IN  s \in Runtime /\ Sound(s)
<1> DEFINE s == [r EXCEPT !.timer[f] = "off", !.flag = TRUE, !.by = f]
<1>1. /\ s.running = r.running /\ s.timer = [r.timer EXCEPT ![f] = "off"]
      /\ s.flag = TRUE /\ s.by = f /\ s.late = r.late
    BY DEF Runtime
<1>2. s \in Runtime
    BY <1>1 DEF Runtime, Phases
<1>3. Sound(s)
    BY <1>1 DEF Runtime, Phases, Sound
<1> QED
    BY <1>2, <1>3

\* Stopping the timer and clearing the flag.
LEMMA StoppedSound ==
    ASSUME NEW j \in Jobs, vm[j] \in Runtime, Sound(vm[j]), vm[j].running # "none"
    PROVE  Stopped(j) \in Runtime /\ Sound(Stopped(j))
<1> DEFINE r == vm[j]
           f == vm[j].running
           s == Stopped(j)
<1>1. f \in Phases /\ r.timer[f] \in {"off", "armed", "fired"} /\ r.late \in BOOLEAN
    BY DEF Runtime
<1>2. s.running = "none" /\ s.flag = FALSE /\ s.by = "none"
    BY DEF Stopped, Runtime
<1>3. s.timer = [r.timer EXCEPT ![f] = IF @ = "armed" THEN "off" ELSE @]
    BY DEF Stopped, Runtime
<1>4. s.late = (r.late \/ (f = "pre" /\ r.timer[f] = "fired"))
    BY DEF Stopped, Runtime
<1>5. DOMAIN s = {"running", "timer", "flag", "by", "late"}
    BY DEF Stopped, Runtime
<1>6. s \in Runtime
    BY <1>1, <1>3 DEF Stopped, Runtime
<1>7. s.timer["pre"] # "armed" /\ (s.timer["pre"] = "fired" => s.late)
    BY <1>1, <1>3, <1>4 DEF Runtime, Phases, Sound
<1> QED
    BY <1>2, <1>6, <1>7 DEF Sound

\* A step of one runtime keeps the inductive invariant.
LEMMA RuntimeStepInv ==
    ASSUME SandboxInv, NEW j \in Jobs, RuntimeStep(j)
    PROVE  SandboxInv'
<1>1. vm \in [Jobs -> Runtime] /\ \A k \in Jobs : Sound(vm[k])
    BY DEF SandboxInv, SandboxTypeOK, Sound
<1>2. vm[j] \in Runtime /\ Sound(vm[j])
    BY <1>1
<1>3. ASSUME NEW s \in Runtime, Sound(s), vm' = [vm EXCEPT ![j] = s] PROVE SandboxInv'
    BY <1>1, <1>3 DEF SandboxInv, SandboxTypeOK, Sound
<1>4. ASSUME NEW f \in Phases, StartRun(j, f) PROVE SandboxInv'
    BY <1>2, <1>3, <1>4, StartSound DEF StartRun
<1>5. ASSUME NEW f \in Phases, Fire(j, f) PROVE SandboxInv'
    BY <1>2, <1>3, <1>5, FireSound DEF Fire
<1>6. ASSUME NEW f \in Phases, Interrupt(j, f) PROVE SandboxInv'
    BY <1>2, <1>3, <1>6, InterruptSound DEF Interrupt
<1>7. CASE Returns(j)
    BY <1>2, <1>3, <1>7, StoppedSound DEF Returns
<1>8. CASE vm' = [vm EXCEPT ![j] = NewRuntime]
    <2>1. NewRuntime \in Runtime /\ Sound(NewRuntime)
        BY DEF NewRuntime, Runtime, Phases, Sound
    <2> QED
        BY <1>3, <1>8, <2>1
<1> QED
    BY <1>4, <1>5, <1>6, <1>7, <1>8 DEF RuntimeStep

LEMMA SandboxStepInv == SandboxInv /\ [ExecNext]_execVars => SandboxInv'
<1> SUFFICES ASSUME SandboxInv, [ExecNext]_execVars PROVE SandboxInv'
    OBVIOUS
<1>1. CASE \E j \in Jobs : RuntimeStep(j)
    BY <1>1, RuntimeStepInv
<1>2. CASE vm' = [j \in Jobs |-> NewRuntime]
    BY <1>2 DEF SandboxInv, SandboxTypeOK, Runtime, NewRuntime, Phases
<1>3. CASE UNCHANGED vm
    BY <1>3 DEF SandboxInv, SandboxTypeOK
<1> QED
    BY <1>1, <1>2, <1>3, ExecStepIsARuntimeStep

\* A test script is interrupted by its own deadline only, or by a timer of the
\* pre-request script that had fired when that script ended (Runtime.startDeadline).
THEOREM ExecutionDeadlineIsOfItsRun == ExecSpec => []DeadlineIsOfItsRun
<1>1. SandboxInv => DeadlineIsOfItsRun
    BY DEF SandboxInv, DeadlineIsOfItsRun, Phases
<1> QED
    BY <1>1, SandboxInitInv, SandboxStepInv, PTL DEF ExecSpec

-----------------------------------------------------------------------------
(* The history, for any executions, caps and ids. *)

LEMMA HistoryIsFinite ==
    ASSUME HistoryTypeOK
    PROVE  /\ IsFiniteSet(rows) /\ Cardinality(rows) \in Nat
           /\ IsFiniteSet(Recording) /\ Cardinality(Recording) \in Nat
<1>1. IsFiniteSet(1 .. MaxId)
    BY IdsAssumption, FS_Interval
<1>2. rows \subseteq 1 .. MaxId /\ Recording \subseteq Jobs
    BY RecordersAssumption DEF HistoryTypeOK, Recording
<1> QED
    BY <1>1, <1>2, JobsAssumption, FS_Subset, FS_CardinalityType

LEMMA SmallestOfASet ==
    ASSUME NEW S \in SUBSET Nat, S # {}
    PROVE  \E n \in S : \A m \in S : n <= m
<1>1. PICK n \in S : \A m \in S : <<m, n>> \notin OpToRel(<, Nat)
    BY NatLessThanWellFounded, WFMin
<1>2. ASSUME NEW m \in S PROVE n <= m
    <2>1. m \in Nat /\ n \in Nat /\ ~ (m < n)
        BY <1>1 DEF OpToRel
    <2> QED
        BY <2>1
<1> QED
    BY <1>2

\* A finite set of numbers has a largest: one that had none would not have fewer members
\* than any other that has none.
LEMMA LargestOfASet ==
    ASSUME NEW S \in SUBSET Nat, S # {}, IsFiniteSet(S)
    PROVE  \E n \in S : \A m \in S : m <= n
<1> DEFINE HasLargest(T) == \E n \in T : \A m \in T : m <= n
           unbounded == {T \in SUBSET S : T # {} /\ ~ HasLargest(T)}
           sizes == {Cardinality(T) : T \in unbounded}
<1>1. \A T \in SUBSET S : IsFiniteSet(T) /\ Cardinality(T) \in Nat
    BY FS_Subset, FS_CardinalityType
<1>2. SUFFICES ASSUME unbounded # {} PROVE FALSE
    OBVIOUS
<1>3. PICK T \in unbounded : \A U \in unbounded : Cardinality(T) <= Cardinality(U)
    <2>1. sizes \in SUBSET Nat /\ sizes # {}
        BY <1>1, <1>2
    <2>2. PICK n \in sizes : \A m \in sizes : n <= m
        BY <2>1, SmallestOfASet
    <2> QED
        BY <2>2
<1>4. PICK x \in T : TRUE
    OBVIOUS
<1>5. T \ {x} \in SUBSET S /\ x \in Nat /\ T \in SUBSET Nat
    BY <1>4
<1>6. Cardinality(T \ {x}) = Cardinality(T) - 1
    BY <1>1, <1>4, FS_RemoveElement
<1>7. T \ {x} \notin unbounded
    <2>1. Cardinality(T) \in Nat /\ ~ (Cardinality(T) <= Cardinality(T \ {x}))
        BY <1>1, <1>6
    <2> QED
        BY <1>3, <2>1
<1>8. CASE T \ {x} = {}
    <2>1. \A m \in T : m <= x
        BY <1>5, <1>8
    <2> QED
        BY <1>4, <2>1
<1>9. CASE T \ {x} # {}
    <2>1. PICK y \in T \ {x} : \A m \in T \ {x} : m <= y
        BY <1>5, <1>7, <1>9
    <2>2. \A m \in T : m <= IF x <= y THEN y ELSE x
        BY <1>5, <2>1
    <2> QED
        BY <1>4, <2>1, <2>2
<1> QED
    BY <1>8, <1>9

LEMMA LargestKeep == Max(Keeps) \in Nat /\ \A k \in Keeps : k \in Nat /\ k <= Max(Keeps)
<1>1. Keeps \in SUBSET Nat /\ Keeps # {} /\ IsFiniteSet(Keeps)
    BY KeepsAssumption
<1>2. PICK bound \in Keeps : \A k \in Keeps : k <= bound
    BY <1>1, LargestOfASet
<1> QED
    BY <1>1, <1>2, MaxIsLargest

\* The row that an execution inserts is a new one.
LEMMA NewRowIsNew ==
    ASSUME HistoryTypeOK, NewRow <= MaxId
    PROVE  NewRow \in 1 .. MaxId /\ NewRow \notin rows
<1> DEFINE ids == {0} \cup rows
<1>1. ids \in SUBSET Nat /\ ids # {} /\ \A n \in ids : n <= MaxId
    BY IdsAssumption DEF HistoryTypeOK
<1>2. Max(ids) \in ids /\ \A n \in ids : n <= Max(ids)
    BY <1>1, IdsAssumption, MaxIsLargest
<1>3. NewRow = Max(ids) + 1
    BY DEF NewRow
<1> HIDE DEF ids
<1>4. Max(ids) \in Nat
    BY <1>1, <1>2
<1>5. NewRow \in 1 .. MaxId /\ NewRow \notin ids
    <2>1. ASSUME NewRow \in ids PROVE FALSE
        BY <1>2, <1>3, <1>4, <2>1
    <2> QED
        BY <1>3, <1>4, <2>1, IdsAssumption
<1> QED
    BY <1>5 DEF ids

\* The n newest rows are no more than n.
LEMMA NewestAreFew ==
    ASSUME HistoryTypeOK, NEW n \in Nat
    PROVE  Cardinality(Newest(n)) <= n
<1>1. rows \in SUBSET Nat /\ IsFiniteSet(rows)
    BY HistoryIsFinite DEF HistoryTypeOK
<1>2. IsFiniteSet(Newest(n)) /\ Newest(n) \subseteq rows /\ Cardinality(Newest(n)) \in Nat
    BY <1>1, FS_Subset, FS_CardinalityType DEF Newest
<1>3. CASE Newest(n) = {}
    BY <1>3, FS_EmptySet
<1>4. CASE Newest(n) # {}
    <2>1. PICK id \in Newest(n) : \A other \in Newest(n) : id <= other
        BY <1>1, <1>2, <1>4, SmallestOfASet
    <2> DEFINE newer == {i \in rows : i > id}
    <2>2. IsFiniteSet(newer) /\ Cardinality(newer) \in Nat /\ Cardinality(newer) < n
        <3>1. newer \subseteq rows
            OBVIOUS
        <3>2. Cardinality(newer) < n
            BY <2>1 DEF Newest
        <3> QED
            BY <1>1, <3>1, <3>2, FS_Subset, FS_CardinalityType
    <2>3. Newest(n) \ {id} \subseteq newer
        <3>1. \A i \in Newest(n) : i \in rows /\ i \in Nat /\ id \in Nat /\ id <= i
            BY <1>1, <1>2, <2>1
        <3> QED
            BY <3>1
    <2>4. Cardinality(Newest(n) \ {id}) <= Cardinality(newer)
        BY <2>2, <2>3, FS_Subset
    <2>5. Cardinality(Newest(n) \ {id}) = Cardinality(Newest(n)) - 1
        BY <1>2, <2>1, FS_RemoveElement
    <2> QED
        BY <1>2, <2>2, <2>4, <2>5
<1> QED
    BY <1>3, <1>4

HistoryLooks ==
    /\ rows \in SUBSET Nat /\ rec \in [Recorders -> [pc : {"off", "keep", "count", "delete"},
                                                     keep : Keeps \cup {0}]]
    /\ Cardinality(rows) \in Nat /\ Cardinality(Recording) \in Nat /\ unpurged \in Nat
    /\ IsFiniteSet(rows) /\ IsFiniteSet(Recording)
    /\ Max(Keeps) \in Nat /\ \A k \in Keeps : k \in Nat /\ k <= Max(Keeps)
    /\ Cardinality(rows) <= Max(Keeps) + Cardinality(Recording) + unpurged

LEMMA HistoryLooksSo == HistoryInv => HistoryLooks
BY HistoryIsFinite, LargestKeep DEF HistoryInv, HistoryTypeOK, HistoryBounded, HistoryLooks

\* One more recording, and at most one more row.
LEMMA InsertKeepsHistory ==
    ASSUME HistoryInv, NEW j \in Recorders, j \notin Recording, InsertRow(j) \/ InsertFails(j)
    PROVE  HistoryInv' /\ Recording' = Recording \cup {j}
<1>0. HistoryTypeOK /\ HistoryLooks
    BY HistoryLooksSo DEF HistoryInv
<1>1. /\ rec' = [rec EXCEPT ![j].pc = "keep"] /\ keep' = keep /\ unpurged' = unpurged
    BY DEF InsertRow, InsertFails
<1>2. Recording' = Recording \cup {j}
    BY <1>0, <1>1 DEF Recording, HistoryLooks
<1>3. Cardinality(Recording \cup {j}) = Cardinality(Recording) + 1
    BY <1>0, FS_AddElement DEF HistoryLooks
<1>4. rows' \subseteq 1 .. MaxId /\ Cardinality(rows') <= Cardinality(rows) + 1
    <2>1. CASE InsertRow(j)
        <3>1. NewRow \in 1 .. MaxId /\ NewRow \notin rows /\ rows' = rows \cup {NewRow}
            BY <1>0, <2>1, NewRowIsNew DEF InsertRow
        <3>2. Cardinality(rows \cup {NewRow}) = Cardinality(rows) + 1
            BY <1>0, <3>1, FS_AddElement DEF HistoryLooks
        <3> QED
            BY <1>0, <3>1, <3>2 DEF HistoryTypeOK, HistoryLooks
    <2>2. CASE InsertFails(j)
        BY <1>0, <2>2 DEF InsertFails, HistoryTypeOK, HistoryLooks
    <2> QED
        BY <2>1, <2>2
<1>5. HistoryTypeOK'
    BY <1>0, <1>1, <1>4 DEF HistoryTypeOK
<1>6. HistoryBounded'
    <2>1. Cardinality(rows') \in Nat
        <3>1. IsFiniteSet(1 .. MaxId)
            BY IdsAssumption, FS_Interval
        <3>2. IsFiniteSet(rows')
            BY <1>4, <3>1, FS_Subset
        <3> QED
            BY <3>2, FS_CardinalityType
    <2> QED
        BY <1>0, <1>1, <1>2, <1>3, <1>4, <2>1 DEF HistoryBounded, HistoryLooks
<1>7. \A i \in Recorders : rec'[i].pc \in {"count", "delete"} => rec'[i].keep \in Keeps
    BY <1>0, <1>1 DEF HistoryInv, HistoryLooks
<1> QED
    BY <1>2, <1>5, <1>6, <1>7 DEF HistoryInv

\* A recording ends with as many rows as some cap allows.
LEMMA RecordingEnds ==
    ASSUME HistoryInv, NEW j \in Recorders, rec[j].pc # "off",
           rec' = [rec EXCEPT ![j] = NotRecording], unpurged' = 0, keep' = keep,
           rows' \subseteq rows, Cardinality(rows') <= Max(Keeps)
    PROVE  HistoryInv' /\ j \in Recording /\ rec'[j].pc = "off" /\ Recording' = Recording \ {j}
<1>0. HistoryTypeOK /\ HistoryLooks
    BY HistoryLooksSo DEF HistoryInv
<1>1. Recording' = Recording \ {j} /\ j \in Recording /\ rec'[j].pc = "off"
    BY <1>0 DEF Recording, HistoryLooks, NotRecording
<1>2. Cardinality(Recording') \in Nat /\ Cardinality(rows') \in Nat
    BY <1>0, <1>1, FS_Subset, FS_CardinalityType DEF HistoryLooks
<1>3. HistoryTypeOK'
    BY <1>0 DEF HistoryTypeOK, NotRecording
<1>4. HistoryBounded'
    BY <1>0, <1>2 DEF HistoryBounded, HistoryLooks
<1>5. \A i \in Recorders : rec'[i].pc \in {"count", "delete"} => rec'[i].keep \in Keeps
    BY <1>0 DEF HistoryInv, HistoryLooks, NotRecording
<1> QED
    BY <1>1, <1>3, <1>4, <1>5 DEF HistoryInv

\* The end of a recording leaves no more than its cap, or one row it could not purge.
LEMMA PurgeKeepsHistory ==
    ASSUME HistoryInv, NEW j \in Recorders, ReadKeep(j) \/ CountRows(j) \/ DeleteOld(j)
    PROVE  /\ HistoryInv' /\ j \in Recording
           /\ Recording' = IF rec'[j].pc = "off" THEN Recording \ {j} ELSE Recording
<1>0. HistoryTypeOK /\ HistoryLooks
    BY HistoryLooksSo DEF HistoryInv
<1>1. CASE ReadKeep(j)
    <2>1. PICK k \in Keeps : rec' = [rec EXCEPT ![j] = [pc |-> "count", keep |-> k]]
        BY <1>0, <1>1, KeepsAssumption DEF ReadKeep, HistoryTypeOK
    <2>2. rows' = rows /\ keep' = keep /\ unpurged' = unpurged /\ rec[j].pc = "keep"
        BY <1>1 DEF ReadKeep
    <2>3. Recording' = Recording /\ j \in Recording
        BY <1>0, <2>1, <2>2 DEF Recording, HistoryLooks
    <2>4. HistoryTypeOK'
        BY <1>0, <2>1, <2>2 DEF HistoryTypeOK
    <2>5. \A i \in Recorders : rec'[i].pc \in {"count", "delete"} => rec'[i].keep \in Keeps
        BY <1>0, <2>1 DEF HistoryInv, HistoryLooks
    <2>6. rec'[j].pc # "off"
        BY <1>0, <2>1 DEF HistoryLooks
    <2> QED
        BY <1>0, <2>2, <2>3, <2>4, <2>5, <2>6 DEF HistoryInv, HistoryBounded, HistoryLooks
<1>2. CASE CountRows(j)
    <2>1. rec[j].pc = "count" /\ rec[j].keep \in Keeps /\ rows' = rows /\ keep' = keep
        BY <1>2 DEF CountRows, HistoryInv
    <2>2. CASE TooMany(rec[j].keep)
        <3>1. rec' = [rec EXCEPT ![j].pc = "delete"] /\ unpurged' = unpurged
            BY <1>2, <2>2 DEF CountRows
        <3>2. Recording' = Recording /\ j \in Recording /\ rec'[j].pc # "off"
            BY <1>0, <2>1, <3>1 DEF Recording, HistoryLooks
        <3>3. HistoryTypeOK'
            BY <1>0, <2>1, <3>1 DEF HistoryTypeOK
        <3>4. \A i \in Recorders : rec'[i].pc \in {"count", "delete"} => rec'[i].keep \in Keeps
            BY <1>0, <2>1, <3>1 DEF HistoryInv, HistoryLooks
        <3> QED
            BY <1>0, <2>1, <3>1, <3>2, <3>3, <3>4 DEF HistoryInv, HistoryBounded, HistoryLooks
    <2>3. CASE ~ TooMany(rec[j].keep)
        <3>1. rec' = [rec EXCEPT ![j] = NotRecording] /\ unpurged' = 0
            BY <1>2, <2>3 DEF CountRows
        <3>2. Cardinality(rows) <= Max(Keeps)
            BY <1>0, <2>1, <2>3 DEF TooMany, HistoryLooks
        <3> QED
            BY <1>0, <2>1, <3>1, <3>2, RecordingEnds
    <2> QED
        BY <2>2, <2>3
<1>3. CASE DeleteOld(j)
    <2>1. /\ rec[j].pc = "delete" /\ rec[j].keep \in Keeps /\ rows' = Newest(rec[j].keep)
          /\ rec' = [rec EXCEPT ![j] = NotRecording] /\ unpurged' = 0 /\ keep' = keep
        BY <1>3 DEF DeleteOld, HistoryInv
    <2>2. rows' \subseteq rows /\ Cardinality(rows') <= rec[j].keep
        BY <1>0, <2>1, NewestAreFew DEF Newest, HistoryLooks
    <2>3. Cardinality(rows') \in Nat
        BY <1>0, <2>2, FS_Subset, FS_CardinalityType DEF HistoryLooks
    <2>4. Cardinality(rows') <= Max(Keeps)
        BY <1>0, <2>1, <2>2, <2>3 DEF HistoryLooks
    <2> QED
        BY <1>0, <2>1, <2>2, <2>4, RecordingEnds
<1> QED
    BY <1>1, <1>2, <1>3

\* Recordings that are cut off leave what they had not purged.
LEMMA PurgesEndKeepsHistory ==
    ASSUME HistoryInv, NEW S \in SUBSET Recorders, PurgesEnd(S)
    PROVE  HistoryInv' /\ Recording' = Recording \ S
<1>0. HistoryTypeOK /\ HistoryLooks
    BY HistoryLooksSo DEF HistoryInv
<1>1. /\ rec' = [j \in Recorders |-> IF j \in S THEN NotRecording ELSE rec[j]]
      /\ unpurged' = unpurged + Cardinality(Recording \cap S) /\ rows' = rows /\ keep' = keep
    <2>1. {j \in S : rec[j].pc # "off"} = Recording \cap S
        BY DEF Recording
    <2> QED
        BY <2>1 DEF PurgesEnd
<1>2. Recording' = Recording \ S
    BY <1>1 DEF Recording, NotRecording
<1>3. /\ Cardinality(Recording) = Cardinality(Recording \ S) + Cardinality(Recording \cap S)
      /\ Cardinality(Recording \ S) \in Nat /\ Cardinality(Recording \cap S) \in Nat
    <2>1. /\ Cardinality(Recording \ S) = Cardinality(Recording) - Cardinality(Recording \cap S)
          /\ IsFiniteSet(Recording \ S) /\ IsFiniteSet(Recording \cap S)
        BY <1>0, FS_Difference, FS_Subset DEF HistoryLooks
    <2>2. Cardinality(Recording \ S) \in Nat /\ Cardinality(Recording \cap S) \in Nat
        BY <2>1, FS_CardinalityType
    <2> QED
        BY <1>0, <2>1, <2>2 DEF HistoryLooks
<1>4. HistoryTypeOK'
    BY <1>0, <1>1, <1>3 DEF HistoryTypeOK, NotRecording
<1>5. HistoryBounded'
    BY <1>0, <1>1, <1>2, <1>3 DEF HistoryBounded, HistoryLooks
<1>6. \A i \in Recorders : rec'[i].pc \in {"count", "delete"} => rec'[i].keep \in Keeps
    BY <1>1 DEF HistoryInv, NotRecording
<1> QED
    BY <1>2, <1>4, <1>5, <1>6 DEF HistoryInv

\* What others do to the table and its cap.
LEMMA OthersKeepHistory ==
    ASSUME HistoryInv, (\E id \in rows : DeleteHistory(id)) \/ (\E k \in Keeps : PutKeep(k))
    PROVE  HistoryInv' /\ Recording' = Recording
<1>0. HistoryTypeOK /\ HistoryLooks
    BY HistoryLooksSo DEF HistoryInv
<1>1. rec' = rec /\ unpurged' = unpurged /\ rows' \subseteq rows /\ keep' \in Keeps
    BY <1>0 DEF DeleteHistory, PutKeep, HistoryTypeOK
<1>2. Cardinality(rows') \in Nat /\ Cardinality(rows') <= Cardinality(rows)
    BY <1>0, <1>1, FS_Subset, FS_CardinalityType DEF HistoryLooks
<1>3. Recording' = Recording
    BY <1>1 DEF Recording
<1>4. HistoryTypeOK'
    BY <1>0, <1>1 DEF HistoryTypeOK
<1>5. HistoryBounded'
    BY <1>0, <1>1, <1>2, <1>3 DEF HistoryBounded, HistoryLooks
<1> QED
    BY <1>1, <1>3, <1>4, <1>5 DEF HistoryInv

-----------------------------------------------------------------------------
\* The handlers' own state, for any limit on redirects: where each is.
Handlers ==
    /\ exec \in [Jobs -> [pc : ExecPc, follow : BOOLEAN, via : 0 .. MaxRedirects]]
    /\ begun \in 0 .. MaxExecutions /\ stops \in 0 .. MaxStops

\* Every step of an execution leaves it at a place of the handler, within its limits.
LEMMA HandlersStay ==
    ASSUME Handlers, [ExecNext]_execVars
    PROVE  Handlers'
<1>0. /\ exec \in [Jobs -> [pc : ExecPc, follow : BOOLEAN, via : 0 .. MaxRedirects]]
      /\ MaxRedirects \in Nat /\ MaxExecutions \in Nat /\ MaxStops \in Nat
      /\ begun \in 0 .. MaxExecutions /\ stops \in 0 .. MaxStops
    BY ExecBoundsAssumption DEF Handlers
<1>1. Resting \in [pc : ExecPc, follow : BOOLEAN, via : 0 .. MaxRedirects]
    BY <1>0 DEF Resting, ExecPc
<1>2. ASSUME NEW j \in Jobs, Respond(j) \/ GetAnswer(j) \/ \E pc \in ExecPc : Goto(j, pc)
      PROVE  exec' \in [Jobs -> [pc : ExecPc, follow : BOOLEAN, via : 0 .. MaxRedirects]]
    <2>1. CASE Respond(j)
        BY <1>0, <1>1, <2>1 DEF Respond
    <2>2. CASE GetAnswer(j)
        <3>1. [Resting EXCEPT !.pc = "answered"]
                  \in [pc : ExecPc, follow : BOOLEAN, via : 0 .. MaxRedirects]
            BY <1>1 DEF ExecPc
        <3> QED
            BY <1>0, <2>2, <3>1 DEF GetAnswer
    <2>3. ASSUME NEW pc \in ExecPc, Goto(j, pc)
          PROVE  exec' \in [Jobs -> [pc : ExecPc, follow : BOOLEAN, via : 0 .. MaxRedirects]]
        BY <1>0, <2>3 DEF Goto
    <2> QED
        BY <1>2, <2>1, <2>2, <2>3
<1>3. ASSUME NEW j \in Jobs, NEW pc \in {"start", "resolve"}, NEW follow \in BOOLEAN,
             Begin(j, pc, follow)
      PROVE  Handlers'
    <2>1. [pc |-> pc, follow |-> follow, via |-> 0]
              \in [pc : ExecPc, follow : BOOLEAN, via : 0 .. MaxRedirects]
        BY <1>0 DEF ExecPc
    <2>2. begun' \in 0 .. MaxExecutions /\ stops' = stops
        BY <1>0, <1>3 DEF Begin
    <2> QED
        BY <1>0, <1>3, <2>1, <2>2 DEF Begin, Handlers
<1>4. ASSUME NEW j \in Jobs, Redirected(j) PROVE Handlers'
    <2>1. CASE exec' = [exec EXCEPT ![j].via = exec[j].via + 1] /\ exec[j].via + 1 < MaxRedirects
        <3>1. exec[j].via + 1 \in 0 .. MaxRedirects
            BY <1>0, <2>1
        <3> QED
            BY <1>0, <1>4, <2>1, <3>1 DEF Redirected, Handlers
    <2>2. CASE Respond(j) \/ GetAnswer(j)
        BY <1>0, <1>2, <1>4, <2>2 DEF Redirected, Handlers
    <2> QED
        BY <1>4, <2>1, <2>2 DEF Redirected
<1>5. ASSUME NEW j \in Jobs, Purge(j) PROVE Handlers'
    <2>1. stops' \in 0 .. MaxStops /\ begun' = begun
        BY <1>0, <1>5 DEF Purge
    <2> QED
        BY <1>0, <1>2, <1>5, <2>1 DEF Purge, Handlers
<1>6. ASSUME NEW j \in Jobs,
             \/ StartPre(j) \/ PreReturns(j) \/ PreInterrupted(j) \/ Resolve(j) \/ Answered(j)
             \/ CallFails(j) \/ StartTest(j) \/ TestReturns(j) \/ TestInterrupted(j) \/ Insert(j)
      PROVE  Handlers'
    <2>1. Respond(j) \/ GetAnswer(j) \/ \E pc \in ExecPc : Goto(j, pc)
        BY <1>6 DEF StartPre, PreReturns, PreInterrupted, Resolve, Answered, CallFails, StartTest,
                    TestReturns, TestInterrupted, Insert, ExecPc
    <2>2. begun' = begun /\ stops' = stops
        BY <1>6 DEF StartPre, PreReturns, PreInterrupted, Resolve, Answered, CallFails, StartTest,
                    TestReturns, TestInterrupted, Insert
    <2> QED
        BY <1>0, <1>2, <2>1, <2>2 DEF Handlers
<1>7. CASE Restart
    BY <1>0, <1>1, <1>7 DEF Restart, Handlers
<1>8. CASE UNCHANGED <<exec, begun, stops>>
    BY <1>8 DEF Handlers
<1> QED
    BY <1>3, <1>4, <1>5, <1>6, <1>7, <1>8 DEF ExecNext, Own, Timer, Others, execVars

\* The executions that record are those at the last step of the handler.
RecordingsMatch == \A j \in Jobs : At(j, "record") <=> j \in Recording

LEMMA HistoryStays ==
    ASSUME Handlers, HistoryInv, RecordingsMatch, [ExecNext]_execVars
    PROVE  HistoryInv' /\ RecordingsMatch'
<1>0. /\ exec \in [Jobs -> [pc : ExecPc, follow : BOOLEAN, via : 0 .. MaxRedirects]]
      /\ Recorders = Jobs /\ Recording \subseteq Jobs
    BY RecordersAssumption DEF Handlers, Recording
<1>1. ASSUME UNCHANGED historyVars PROVE HistoryInv' /\ Recording' = Recording
    BY <1>1 DEF historyVars, HistoryInv, HistoryTypeOK, HistoryBounded, Recording
<1>2. ASSUME NEW j \in Jobs, UNCHANGED historyVars, exec[j].pc # "record",
             \A i \in Jobs \ {j} : exec'[i] = exec[i], exec'[j].pc # "record"
      PROVE  HistoryInv' /\ RecordingsMatch'
    BY <1>0, <1>1, <1>2 DEF RecordingsMatch, At
<1>3. ASSUME NEW j \in Jobs, Respond(j) \/ GetAnswer(j) \/ \E pc \in ExecPc \ {"record"} : Goto(j, pc)
      PROVE  exec'[j].pc # "record" /\ \A i \in Jobs \ {j} : exec'[i] = exec[i]
    BY <1>0, <1>3 DEF Respond, GetAnswer, Goto, Resting
<1>4. ASSUME NEW j \in Jobs, NEW pc \in {"start", "resolve"}, NEW follow, Begin(j, pc, follow)
      PROVE  HistoryInv' /\ RecordingsMatch'
    BY <1>0, <1>2, <1>4 DEF Begin, At
<1>5. ASSUME NEW j \in Jobs,
             \/ StartPre(j) \/ PreReturns(j) \/ PreInterrupted(j) \/ Resolve(j) \/ Answered(j)
             \/ CallFails(j) \/ StartTest(j) \/ TestReturns(j) \/ TestInterrupted(j)
      PROVE  HistoryInv' /\ RecordingsMatch'
    <2>1. Respond(j) \/ GetAnswer(j) \/ \E pc \in ExecPc \ {"record"} : Goto(j, pc)
        BY <1>5 DEF StartPre, PreReturns, PreInterrupted, Resolve, Answered, CallFails, StartTest,
                    TestReturns, TestInterrupted, ExecPc
    <2>2. exec[j].pc # "record" /\ UNCHANGED historyVars
        BY <1>5 DEF StartPre, PreReturns, PreInterrupted, Resolve, Answered, CallFails, StartTest,
                    TestReturns, TestInterrupted, At
    <2> QED
        BY <1>2, <1>3, <2>1, <2>2
<1>6. ASSUME NEW j \in Jobs, Redirected(j) PROVE HistoryInv' /\ RecordingsMatch'
    <2>1. exec[j].pc = "wait" /\ UNCHANGED historyVars
        BY <1>6 DEF Redirected, At
    <2>2. CASE exec' = [exec EXCEPT ![j].via = exec[j].via + 1]
        BY <1>0, <1>2, <2>1, <2>2
    <2>3. CASE Respond(j) \/ GetAnswer(j)
        BY <1>2, <1>3, <2>1, <2>3
    <2> QED
        BY <1>6, <2>2, <2>3 DEF Redirected
<1>7. ASSUME NEW j \in Jobs, Insert(j) PROVE HistoryInv' /\ RecordingsMatch'
    <2>1. j \notin Recording
        BY <1>7 DEF Insert, At, RecordingsMatch
    <2>2. HistoryInv' /\ Recording' = Recording \cup {j}
        BY <1>0, <1>7, <2>1, InsertKeepsHistory DEF Insert
    <2>3. exec'[j].pc = "record" /\ \A i \in Jobs \ {j} : exec'[i] = exec[i]
        BY <1>0, <1>7 DEF Insert, Goto
    <2> QED
        BY <2>2, <2>3 DEF RecordingsMatch, At
<1>8. ASSUME NEW j \in Jobs, Purge(j) PROVE HistoryInv' /\ RecordingsMatch'
    <2>1. /\ HistoryInv' /\ j \in Recording
          /\ Recording' = IF rec'[j].pc = "off" THEN Recording \ {j} ELSE Recording
        <3>1. CASE PurgesEnd({j})
            <4>1. HistoryInv' /\ Recording' = Recording \ {j}
                BY <1>0, <3>1, PurgesEndKeepsHistory
            <4>2. j \in Recording /\ rec'[j].pc = "off"
                BY <1>0, <1>8, <3>1 DEF PurgesEnd, NotRecording, Purge, RecordingsMatch
            <4> QED
                BY <4>1, <4>2
        <3>2. CASE ReadKeep(j) \/ CountRows(j) \/ DeleteOld(j)
            BY <1>0, <3>2, PurgeKeepsHistory
        <3> QED
            BY <1>8, <3>1, <3>2 DEF Purge
    <2>2. exec[j].pc = "record"
        BY <1>8 DEF Purge, At
    <2>3. CASE rec'[j].pc = "off"
        <3>1. Respond(j)
            BY <1>8, <2>3 DEF Purge
        <3> QED
            BY <1>3, <2>1, <2>3, <3>1 DEF RecordingsMatch, At
    <2>4. CASE rec'[j].pc # "off"
        <3>1. exec' = exec
            BY <1>8, <2>4 DEF Purge
        <3> QED
            BY <2>1, <2>4, <3>1 DEF RecordingsMatch, At
    <2> QED
        BY <2>3, <2>4
<1>9. CASE Restart
    <2>1. HistoryInv' /\ Recording' = {}
        BY <1>0, <1>9, PurgesEndKeepsHistory DEF Restart
    <2>2. \A j \in Jobs : exec'[j].pc = "idle"
        BY <1>9 DEF Restart, Resting
    <2> QED
        BY <2>1, <2>2 DEF RecordingsMatch, At
<1>10. CASE Others
    <2>1. HistoryInv' /\ Recording' = Recording /\ exec' = exec
        BY <1>10, OthersKeepHistory DEF Others
    <2> QED
        BY <2>1 DEF RecordingsMatch, At
<1>11. CASE UNCHANGED historyVars /\ exec' = exec
    BY <1>1, <1>11 DEF RecordingsMatch, At
<1> QED
    BY <1>4, <1>5, <1>6, <1>7, <1>8, <1>9, <1>10, <1>11 DEF ExecNext, Own, Timer, execVars

\* ExecutionInv holds in every reachable state: no chain of redirects outgrows its limit,
\* and the history its cap by more than the executions that are still to purge it.
THEOREM ExecutionInvariance == ExecSpec => []ExecutionInv
<1> DEFINE Parts == SandboxInv /\ Handlers /\ HistoryInv /\ RecordingsMatch
<1>1. ExecInit => Parts
    <2> SUFFICES ASSUME ExecInit PROVE Parts
        OBVIOUS
    <2>1. Handlers
        BY ExecBoundsAssumption DEF ExecInit, Handlers, Resting, ExecPc
    <2>2. rows = {} /\ Recording = {} /\ unpurged = 0
        BY DEF ExecInit, HistoryInit, Recording, NotRecording
    <2>3. HistoryTypeOK
        BY KeepsAssumption DEF ExecInit, HistoryInit, HistoryTypeOK, NotRecording
    <2>4. HistoryBounded
        BY <2>2, LargestKeep, FS_EmptySet DEF HistoryBounded
    <2>5. HistoryInv
        BY <2>3, <2>4 DEF ExecInit, HistoryInit, HistoryInv, NotRecording
    <2>6. RecordingsMatch
        BY <2>2 DEF ExecInit, RecordingsMatch, At, Resting
    <2> QED
        BY <2>1, <2>5, <2>6, SandboxInitInv
<1>2. Parts /\ [ExecNext]_execVars => Parts'
    BY SandboxStepInv, HandlersStay, HistoryStays
<1>3. Parts => ExecutionInv
    BY DEF SandboxInv, Handlers, HistoryInv, RecordingsMatch, ExecutionInv, ExecTypeOK
<1>4. ExecSpec => ExecInit /\ [][ExecNext]_execVars
    BY PTL DEF ExecSpec
<1> QED
    BY <1>1, <1>2, <1>3, <1>4, PTL

-----------------------------------------------------------------------------
(* The realtime relay. *)

LEMMA OtherConnection == Other("down") = "up" /\ Other("up") = "down"
BY DEF Other, Conns

\* What the queue of errors may hold: the two connections at most once each.
Reports == {<<>>, <<"down">>, <<"up">>, <<"down", "up">>, <<"up", "down">>}

LEMMA ReportsAreShort ==
    /\ {<<>>} \cup {<<c>> : c \in Conns} \cup {<<c, Other(c)>> : c \in Conns} = Reports
    /\ \A q \in Reports : q \in Seq(Conns) /\ Len(q) <= 2
<1>1. {<<c>> : c \in Conns} = {<<"down">>, <<"up">>}
  BY DEF Conns
<1>2. {<<c, Other(c)>> : c \in Conns} = {<<"down", "up">>, <<"up", "down">>}
  BY OtherConnection DEF Conns
<1> QED
  BY <1>1, <1>2 DEF Reports, Conns

\* The second report joins the first.
LEMMA TwoReports ==
    ASSUME NEW S, NEW q \in Seq(S), NEW e \in S, Len(q) = 1
    PROVE  Append(q, e) = <<q[1], e>>
<1> DEFINE both == Append(q, e)
<1>1. both \in Seq(S) /\ Len(both) = Len(q) + 1
  BY AppendProperties, ZenonT(30)
<1>2. \A i \in 1 .. Len(q) : both[i] = q[i]
  BY AppendProperties, ZenonT(30)
<1>3. both[Len(q) + 1] = e
  BY AppendProperties, ZenonT(30)
<1> HIDE DEF both
<1>4. Len(both) = 2 /\ both[1] = q[1] /\ both[2] = e
  BY <1>1, <1>2, <1>3
<1>5. both = <<q[1], e>>
  BY <1>1, <1>4
<1> QED
  BY <1>5 DEF both

\* What is left when the handler takes the first report.
LEMMA OneReportLess ==
    ASSUME NEW q \in Seq(Conns), q # <<>>, Len(q) <= 2
    PROVE  /\ Tail(q) \in Reports
           /\ \A i \in DOMAIN Tail(q) : Tail(q)[i] = q[i + 1] /\ i + 1 \in DOMAIN q
<1> DEFINE rest == Tail(q)
<1>1. /\ rest \in Seq(Conns) /\ Len(rest) = Len(q) - 1
      /\ \A i \in 1 .. Len(rest) : rest[i] = q[i + 1]
  OBVIOUS
<1> HIDE DEF rest
<1>2. Len(q) \in {1, 2}
  <2> DEFINE n == Len(q)
  <2>1. n \in Nat /\ n # 0 /\ n <= 2
    BY EmptySeq, LenProperties
  <2> HIDE DEF n
  <2>2. n = 1 \/ n = 2
    BY <2>1
  <2> QED
    BY <2>2 DEF n
<1>3. Len(rest) \in {0, 1}
  BY <1>1, <1>2
<1>4. CASE Len(rest) = 0
  <2>1. rest = <<>>
    BY <1>1, <1>4
  <2> QED
    BY <2>1 DEF Reports, rest
<1>5. CASE Len(rest) = 1
  <2>1. rest = <<rest[1]>> /\ rest[1] \in Conns
    BY <1>1, <1>5
  <2>2. rest \in Reports
    BY <2>1 DEF Reports, Conns
  <2>3. \A i \in DOMAIN rest : rest[i] = q[i + 1] /\ i + 1 \in DOMAIN q
    BY <1>1, <1>2, <1>5
  <2> QED
    BY <2>2, <2>3 DEF rest
<1> QED
  BY <1>3, <1>4, <1>5

USE TicketTTLAssumption, IdleAssumption, SentAssumption

LEMMA RelayTypesStay ==
    ASSUME RelayInv, [Next]_vars
    PROVE  TypeOK'
<1>0. TypeOK /\ errCh \in Reports
  BY ReportsAreShort DEF RelayInv, PumpsReportOnce
<1>1. ASSUME NEW t \in Tickets, Mint(t) PROVE TypeOK'
  <2>1. realtimeTicketTTL \in -1 .. realtimeTicketTTL
    OBVIOUS
  <2>2. tickets' \in SUBSET Tickets /\ minted' \in SUBSET Tickets
    BY <1>0, <1>1 DEF TypeOK, Mint, Live
  <2>3. ttl' \in [Tickets -> -1 .. realtimeTicketTTL] /\ taken' \in [Tickets -> Nat]
    BY <1>0, <1>1, <2>1 DEF TypeOK, Mint
  <2> QED
    BY <1>0, <1>1, <2>2, <2>3 DEF TypeOK, Mint, relayVars
<1>a. ASSUME NEW t \in Tickets, Take(t)
      PROVE  /\ tickets' \in SUBSET Tickets /\ minted' \in SUBSET Tickets
             /\ ttl' \in [Tickets -> -1 .. realtimeTicketTTL] /\ taken' \in [Tickets -> Nat]
  <2>1. taken' \in [Tickets -> Nat]
    <3>1. taken \in [Tickets -> Nat]
      BY <1>0 DEF TypeOK
    <3>2. (IF t \in Live THEN taken[t] + 1 ELSE taken[t]) \in Nat
      BY <3>1
    <3>3. taken' = [taken EXCEPT ![t] = IF t \in Live THEN taken[t] + 1 ELSE taken[t]]
      BY <1>a DEF Take
    <3> QED
      BY <3>1, <3>2, <3>3
  <2> QED
    BY <1>0, <1>a, <2>1 DEF TypeOK, Take
<1>2. ASSUME NEW t \in Tickets, TakeOnly(t) PROVE TypeOK'
  BY <1>0, <1>2, <1>a DEF TypeOK, TakeOnly, relayVars
<1>3. ASSUME NEW t \in Tickets, Accept(t) PROVE TypeOK'
  BY <1>0, <1>3, <1>a DEF TypeOK, Accept
<1>4. CASE DialFails
  BY <1>0, <1>4 DEF TypeOK, DialFails, ticketVars, Conns
<1>5. CASE StartPumps
  <2>1. /\ handler' = "wait" /\ conn' = [conn EXCEPT !["up"] = "open"]
        /\ deadline' = [c \in Conns |-> realtimeIdle]
        /\ pump' = [c \in Conns |-> "reading"] /\ quiet' = 0
        /\ UNCHANGED <<tickets, minted, ttl, taken, sent, gone, count, written, errCh, summary>>
    BY <1>5 DEF StartPumps, ticketVars
  <2>2. conn' \in [Conns -> {"none", "open", "closed"}]
    BY <1>0, <2>1 DEF TypeOK, Conns
  <2>3. /\ deadline' \in [Conns -> 0 .. realtimeIdle] /\ quiet' \in 0 .. realtimeIdle
        /\ pump' \in [Conns -> {"none", "reading", "writing", "ended"}]
    BY <2>1, IdleAssumption
  <2> QED
    BY <1>0, <2>1, <2>2, <2>3 DEF TypeOK
<1>6. ASSUME NEW c \in Conns, PeerSends(c) PROVE TypeOK'
  <2>1. sent[c] + 1 \in 0 .. MaxSent
    <3>1. sent[c] \in 0 .. MaxSent /\ sent[c] < MaxSent
      BY <1>0, <1>6 DEF TypeOK, PeerSends
    <3> QED
      BY <3>1
  <2>2. sent' \in [Conns -> 0 .. MaxSent]
    BY <1>0, <1>6, <2>1 DEF TypeOK, PeerSends
  <2> QED
    BY <1>0, <1>6, <2>2 DEF TypeOK, PeerSends, ticketVars
<1>7. ASSUME NEW c \in Conns, PeerLeaves(c) PROVE TypeOK'
  BY <1>0, <1>7 DEF TypeOK, PeerLeaves, ticketVars
<1>8. ASSUME NEW c \in Conns, Read(c) PROVE TypeOK'
  <2>1. count[c] \in 0 .. MaxSent /\ sent[c] \in 0 .. MaxSent /\ count[c] < sent[c]
    BY <1>0, <1>8 DEF TypeOK, Read
  <2>2. count[c] + 1 \in 0 .. MaxSent /\ realtimeIdle \in 0 .. realtimeIdle
    BY <2>1
  <2>3. 0 \in 0 .. realtimeIdle
    OBVIOUS
  <2>4. count' \in [Conns -> 0 .. MaxSent]
    BY <1>0, <1>8, <2>2 DEF TypeOK, Read
  <2>5. deadline' \in [Conns -> 0 .. realtimeIdle]
    BY <1>0, <1>8, <2>2 DEF TypeOK, Read
  <2>6. pump' \in [Conns -> {"none", "reading", "writing", "ended"}]
    BY <1>0, <1>8 DEF TypeOK, Read
  <2> QED
    BY <1>0, <1>8, <2>3, <2>4, <2>5, <2>6 DEF TypeOK, Read, ticketVars
<1>9. ASSUME NEW c \in Conns, Write(c) PROVE TypeOK'
  <2>1. /\ written[c] \in 0 .. MaxSent /\ count[c] \in 0 .. MaxSent
        /\ written[c] <= count[c] /\ written[c] # count[c]
    BY <1>0, <1>9 DEF TypeOK, Write, RelayInv, AtMostOneInFlight
  <2>2. written[c] + 1 \in 0 .. MaxSent
    BY <2>1
  <2>3. written' \in [Conns -> 0 .. MaxSent]
    BY <1>0, <1>9, <2>2 DEF TypeOK, Write
  <2>4. pump' \in [Conns -> {"none", "reading", "writing", "ended"}]
    BY <1>0, <1>9 DEF TypeOK, Write
  <2> QED
    BY <1>0, <1>9, <2>3, <2>4 DEF TypeOK, Write, ticketVars
<1>10. ASSUME NEW c \in Conns, ReadFails(c) \/ WriteFails(c) PROVE TypeOK'
  <2>1. End(c) /\ pump[c] # "ended"
    BY <1>10 DEF ReadFails, WriteFails
  <2>2. errCh \in {<<>>, <<"down">>, <<"up">>}
    BY <1>0, <2>1 DEF RelayInv, PumpsReportOnce, Reports, Conns
  <2>3. Append(errCh, c) \in Seq(Conns) /\ Len(Append(errCh, c)) <= 2
    <3>1. CASE errCh = <<>>
      BY <3>1
    <3>2. CASE errCh = <<"down">>
      BY <3>2 DEF Conns
    <3>3. CASE errCh = <<"up">>
      BY <3>3 DEF Conns
    <3> QED
      BY <2>2, <3>1, <3>2, <3>3
  <2> QED
    BY <1>0, <2>1, <2>3 DEF TypeOK, End, ticketVars
<1>11. CASE Wake
  <2>1. Tail(errCh) \in Seq(Conns) /\ Len(Tail(errCh)) <= 2
    <3>1. errCh \in Seq(Conns) /\ Len(errCh) <= 2 /\ errCh # <<>>
      BY <1>0, <1>11 DEF Wake, TypeOK
    <3> QED
      BY <3>1
  <2>2. summary' \in [Conns -> 0 .. MaxSent]
    BY <1>11 DEF Wake, SeenCounts
  <2> QED
    BY <1>0, <1>11, <2>1, <2>2 DEF TypeOK, Wake, ticketVars
<1>12. CASE CloseUp \/ CloseDown
  BY <1>0, <1>12 DEF TypeOK, CloseUp, CloseDown, Close, ticketVars, Conns
<1>13. CASE Tick
  <2>1. ttl' \in [Tickets -> -1 .. realtimeTicketTTL]
    <3>1. \A t \in Tickets : ttl[t] \in -1 .. realtimeTicketTTL
      BY <1>0 DEF TypeOK
    <3>2. \A t \in Tickets :
             (IF ttl[t] >= 0 THEN ttl[t] - 1 ELSE -1) \in -1 .. realtimeTicketTTL
      BY <3>1
    <3> QED
      BY <1>13, <3>2 DEF Tick
  <2>2. deadline' \in [Conns -> 0 .. realtimeIdle]
    <3>1. \A c \in Conns : deadline[c] \in 0 .. realtimeIdle
      BY <1>0 DEF TypeOK
    <3>2. \A c \in Conns : Less(deadline[c]) \in 0 .. realtimeIdle
      BY <3>1 DEF Less
    <3> QED
      BY <1>13, <3>2 DEF Tick
  <2>3. quiet' \in 0 .. realtimeIdle
    <3>1. quiet \in 0 .. realtimeIdle
      BY <1>0 DEF TypeOK
    <3>2. quiet' = IF Relaying /\ quiet < realtimeIdle THEN quiet + 1 ELSE quiet
      BY <1>13 DEF Tick
    <3>3. quiet' = quiet \/ (quiet' = quiet + 1 /\ quiet < realtimeIdle)
      BY <3>2
    <3> QED
      BY <3>1, <3>3
  <2> QED
    BY <1>0, <1>13, <2>1, <2>2, <2>3 DEF TypeOK, Tick
<1>14. CASE UNCHANGED vars
  BY <1>0, <1>14 DEF TypeOK, vars, ticketVars, relayVars
<1> QED
  BY <1>1, <1>2, <1>3, <1>4, <1>5, <1>6, <1>7, <1>8, <1>9, <1>10, <1>11, <1>12, <1>13, <1>14
     DEF Next, Pump, Handler

\* A ticket is drawn once, and leaves the table when it is taken.
LEMMA TicketsStayFresh ==
    ASSUME RelayInv, [Next]_vars
    PROVE  TicketsAreFresh'
<1>0. /\ TicketsAreFresh /\ taken \in [Tickets -> Nat]
      /\ tickets \in SUBSET Tickets /\ minted \in SUBSET Tickets
  BY DEF RelayInv, TypeOK
<1>1. ASSUME NEW t \in Tickets, Mint(t) PROVE TicketsAreFresh'
  BY <1>0, <1>1 DEF TicketsAreFresh, Mint, Live
<1>2. ASSUME NEW t \in Tickets, Take(t) PROVE TicketsAreFresh'
  <2>1. /\ t \in tickets /\ tickets' = tickets \ {t} /\ minted' = minted
        /\ \A u \in Tickets \ {t} : taken'[u] = taken[u]
    BY <1>0, <1>2 DEF Take
  <2> QED
    BY <1>0, <2>1 DEF TicketsAreFresh
<1>3. CASE UNCHANGED <<tickets, minted, taken>>
  BY <1>0, <1>3 DEF TicketsAreFresh
<1> QED
  BY <1>1, <1>2, <1>3
     DEF Next, TakeOnly, Accept, DialFails, PeerSends, PeerLeaves, Write, Pump, Read, ReadFails,
         WriteFails, End, Handler, StartPumps, Wake, CloseUp, CloseDown, Close, Tick, ticketVars,
         vars

\* The steps that move no message: nothing of the wires, the pumps and their counts.
Idles == UNCHANGED <<sent, pump, count, written>>

LEMMA OneInFlightStays ==
    ASSUME RelayInv, [Next]_vars
    PROVE  AtMostOneInFlight'
<1>0. /\ AtMostOneInFlight /\ pump \in [Conns -> {"none", "reading", "writing", "ended"}]
      /\ count \in [Conns -> Nat] /\ written \in [Conns -> Nat] /\ sent \in [Conns -> Nat]
  <2>1. 0 .. MaxSent \subseteq Nat
    OBVIOUS
  <2> QED
    BY <2>1 DEF RelayInv, TypeOK
<1>1. CASE Idles
  BY <1>0, <1>1 DEF AtMostOneInFlight, Idles
<1>2. CASE StartPumps
  <2>1. \A c \in Conns : pump[c] = "none"
    BY <1>2 DEF StartPumps, RelayInv, PumpsReportOnce
  <2> QED
    BY <1>0, <1>2, <2>1 DEF StartPumps, RelayInv, AtMostOneInFlight
<1>3. ASSUME NEW c \in Conns, PeerSends(c) PROVE AtMostOneInFlight'
  BY <1>0, <1>3 DEF AtMostOneInFlight, PeerSends
<1>4. ASSUME NEW c \in Conns, Read(c) PROVE AtMostOneInFlight'
  <2>1. /\ count[c] < sent[c] /\ pump[c] = "reading" /\ written[c] = count[c]
    BY <1>0, <1>4 DEF Read, AtMostOneInFlight
  <2>2. /\ count'[c] = count[c] + 1 /\ pump'[c] = "writing"
        /\ \A d \in Conns \ {c} : count'[d] = count[d] /\ pump'[d] = pump[d]
        /\ written' = written /\ sent' = sent
    BY <1>0, <1>4 DEF Read
  <2> QED
    BY <1>0, <2>1, <2>2 DEF AtMostOneInFlight
<1>5. ASSUME NEW c \in Conns, Write(c) PROVE AtMostOneInFlight'
  <2>1. /\ pump[c] = "writing" /\ written[c] # count[c]
    BY <1>0, <1>5 DEF Write, AtMostOneInFlight
  <2>2. /\ written'[c] = written[c] + 1 /\ pump'[c] = "reading"
        /\ \A d \in Conns \ {c} : written'[d] = written[d] /\ pump'[d] = pump[d]
        /\ count' = count /\ sent' = sent
    BY <1>0, <1>5 DEF Write
  <2> QED
    BY <1>0, <2>1, <2>2 DEF AtMostOneInFlight
<1>6. ASSUME NEW c \in Conns, ReadFails(c) \/ WriteFails(c) PROVE AtMostOneInFlight'
  BY <1>0, <1>6 DEF AtMostOneInFlight, ReadFails, WriteFails, End
<1> QED
  BY <1>1, <1>2, <1>3, <1>4, <1>5, <1>6
     DEF Next, Idles, Mint, TakeOnly, Accept, DialFails, PeerLeaves, Pump, Handler, Wake, CloseUp,
         CloseDown, Close, Tick, vars, relayVars

LEMMA PumpsReportOnceStays ==
    ASSUME RelayInv, [Next]_vars
    PROVE  PumpsReportOnce'
<1>0. /\ PumpsReportOnce /\ errCh \in Reports
      /\ pump \in [Conns -> {"none", "reading", "writing", "ended"}]
      /\ conn \in [Conns -> {"none", "open", "closed"}]
      /\ \A i \in DOMAIN errCh : errCh[i] \in Conns
  <2>1. PumpsReportOnce /\ TypeOK
    BY DEF RelayInv
  <2>2. errCh \in Reports
    BY <2>1, ReportsAreShort DEF PumpsReportOnce
  <2>3. \A i \in DOMAIN errCh : errCh[i] \in Conns
    <3>1. errCh \in Seq(Conns)
      BY <2>1 DEF TypeOK
    <3> QED
      BY <3>1
  <2> QED
    BY <2>1, <2>2, <2>3 DEF TypeOK
<1>1. CASE UNCHANGED <<handler, conn, pump, errCh>>
  BY <1>0, <1>1 DEF PumpsReportOnce
<1>2. ASSUME NEW t \in Tickets, Accept(t) PROVE PumpsReportOnce'
  BY <1>0, <1>2 DEF PumpsReportOnce, Accept, Conns
<1>3. CASE DialFails
  BY <1>0, <1>3 DEF PumpsReportOnce, DialFails, Conns
<1>4. CASE StartPumps
  BY <1>0, <1>4 DEF PumpsReportOnce, StartPumps, Conns
<1>5. ASSUME NEW c \in Conns, Read(c) \/ Write(c) PROVE PumpsReportOnce'
  <2>1. /\ pump[c] # "ended" /\ pump'[c] \notin {"none"} /\ pump[c] # "none"
        /\ \A d \in Conns \ {c} : pump'[d] = pump[d]
        /\ handler' = handler /\ conn' = conn /\ errCh' = errCh
    BY <1>0, <1>5 DEF Read, Write
  <2> QED
    BY <1>0, <2>1 DEF PumpsReportOnce
<1>6. ASSUME NEW c \in Conns, ReadFails(c) \/ WriteFails(c) PROVE PumpsReportOnce'
  <2>1. /\ pump[c] \in {"reading", "writing"} /\ pump' = [pump EXCEPT ![c] = "ended"]
        /\ errCh' = Append(errCh, c) /\ handler' = handler /\ conn' = conn
    BY <1>6 DEF ReadFails, WriteFails, End
  <2>2. errCh = <<>> \/ errCh = <<Other(c)>>
    BY <1>0, <2>1, OtherConnection DEF PumpsReportOnce, Reports, Conns
  <2>a. Other(c) \in Conns
    BY OtherConnection DEF Conns
  <2>b. Append(<<>>, c) = <<c>> /\ Append(<<Other(c)>>, c) = <<Other(c), c>>
    <3>1. <<Other(c)>> \in Seq(Conns) /\ Len(<<Other(c)>>) = 1 /\ <<Other(c)>>[1] = Other(c)
      BY <2>a
    <3>2. Append(<<Other(c)>>, c) = <<<<Other(c)>>[1], c>>
      BY <3>1, TwoReports
    <3> QED
      BY <3>2
  <2>3. errCh' = <<c>> \/ errCh' = <<Other(c), c>>
    BY <2>1, <2>2, <2>b
  <2>4. errCh' \in Reports
    BY <2>3, OtherConnection DEF Reports, Conns
  <2>5. \A i \in DOMAIN errCh' : pump'[errCh'[i]] = "ended"
    <3>1. pump'[c] = "ended"
      BY <1>0, <2>1
    <3>2. CASE errCh = <<>>
      BY <2>1, <3>1, <3>2
    <3>3. CASE errCh = <<Other(c)>>
      <4>1. pump[Other(c)] = "ended"
        BY <1>0, <3>3 DEF PumpsReportOnce
      <4>2. pump'[Other(c)] = "ended" /\ errCh' = <<Other(c), c>>
        BY <1>0, <2>1, <2>a, <2>b, <3>3, <4>1
      <4> QED
        BY <3>1, <4>2
    <3> QED
      BY <2>2, <3>2, <3>3
  <2> QED
    BY <1>0, <2>1, <2>4, <2>5, ReportsAreShort DEF PumpsReportOnce
<1>7. CASE Wake
  <2>1. /\ errCh # <<>> /\ errCh' = Tail(errCh) /\ handler = "wait" /\ handler' = "close up"
        /\ conn' = conn /\ pump' = pump
    BY <1>7 DEF Wake
  <2>2. /\ errCh' \in Reports
        /\ \A i \in DOMAIN errCh' : errCh'[i] = errCh[i + 1] /\ i + 1 \in DOMAIN errCh
    BY <2>1, OneReportLess DEF RelayInv, TypeOK
  <2>3. ASSUME NEW i \in DOMAIN errCh' PROVE pump'[errCh'[i]] = "ended"
    <3>1. errCh'[i] = errCh[i + 1] /\ i + 1 \in DOMAIN errCh
      BY <2>2
    <3>2. pump[errCh[i + 1]] = "ended"
      BY <1>0, <3>1 DEF PumpsReportOnce
    <3> QED
      BY <2>1, <3>1, <3>2
  <2>4. errCh' = <<>> \/ errCh' \in {<<c>> : c \in Conns} \/ errCh' \in {<<c, Other(c)>> : c \in Conns}
    BY <2>2, ReportsAreShort
  <2>5. conn["up"] # "none"
    BY <1>0, <2>1 DEF PumpsReportOnce
  <2> QED
    BY <1>0, <2>1, <2>3, <2>4, <2>5 DEF PumpsReportOnce
<1>8. CASE CloseUp \/ CloseDown
  BY <1>0, <1>8 DEF PumpsReportOnce, CloseUp, CloseDown, Close, Conns
<1> QED
  BY <1>1, <1>2, <1>3, <1>4, <1>5, <1>6, <1>7, <1>8
     DEF Next, Mint, TakeOnly, PeerSends, PeerLeaves, Pump, Handler, Tick, vars, relayVars

\* The row is written after the pump that reported first, which counts no more.
LEMMA EndedPumpStaysCounted ==
    ASSUME RelayInv, [Next]_vars
    PROVE  EndedPumpIsCounted'
<1>0. /\ EndedPumpIsCounted /\ PumpsReportOnce
      /\ pump \in [Conns -> {"none", "reading", "writing", "ended"}]
      /\ conn \in [Conns -> {"none", "open", "closed"}]
      /\ \A c \in Conns : c = "down" \/ c = "up"
  BY DEF RelayInv, TypeOK, Conns
<1>1. CASE UNCHANGED <<handler, conn, pump, count, summary>>
  BY <1>0, <1>1 DEF EndedPumpIsCounted
<1>2. ASSUME NEW t \in Tickets, Accept(t) PROVE EndedPumpIsCounted'
  BY <1>0, <1>2 DEF EndedPumpIsCounted, Accept
<1>3. CASE DialFails
  BY <1>0, <1>3 DEF EndedPumpIsCounted, PumpsReportOnce, DialFails, Conns
<1>4. CASE StartPumps
  BY <1>0, <1>4 DEF EndedPumpIsCounted, StartPumps
<1>5. ASSUME NEW c \in Conns, Read(c) \/ Write(c) \/ ReadFails(c) \/ WriteFails(c)
      PROVE  EndedPumpIsCounted'
  <2>1. /\ pump[c] # "ended" /\ \A d \in Conns \ {c} : pump'[d] = pump[d] /\ count'[d] = count[d]
        /\ handler' = handler /\ conn' = conn /\ summary' = summary
    BY <1>0, <1>5 DEF Read, Write, ReadFails, WriteFails, End, RelayInv, TypeOK
  <2> QED
    BY <1>0, <2>1 DEF EndedPumpIsCounted
<1>6. CASE Wake
  <2>1. /\ errCh # <<>> /\ summary' \in SeenCounts(Head(errCh))
        /\ pump' = pump /\ count' = count
    BY <1>6 DEF Wake
  <2>2. 1 \in DOMAIN errCh /\ Head(errCh) = errCh[1] /\ errCh[1] \in Conns
    <3>1. errCh \in Seq(Conns)
      BY DEF RelayInv, TypeOK
    <3> QED
      BY <2>1, <3>1
  <2>3. pump[Head(errCh)] = "ended" /\ summary'[Head(errCh)] = count[Head(errCh)]
    BY <1>0, <2>1, <2>2 DEF PumpsReportOnce, SeenCounts
  <2> QED
    BY <2>1, <2>2, <2>3 DEF EndedPumpIsCounted
<1>7. CASE CloseUp \/ CloseDown
  <2>1. /\ handler \in {"close up", "close down"} /\ pump' = pump /\ count' = count
        /\ summary' = summary
    BY <1>7 DEF CloseUp, CloseDown, Close
  <2>2. conn["up"] # "none"
    BY <1>0, <2>1 DEF PumpsReportOnce
  <2> QED
    BY <1>0, <2>1, <2>2 DEF EndedPumpIsCounted
<1> QED
  BY <1>1, <1>2, <1>3, <1>4, <1>5, <1>6, <1>7
     DEF Next, Mint, TakeOnly, PeerSends, PeerLeaves, Pump, Handler, Tick, vars, relayVars

\* The connections are opened and closed by the handler alone, in its order.
LEMMA ConnectionsStay ==
    ASSUME RelayInv, [Next]_vars
    PROVE  ConnectionsFollowHandler'
<1>0. /\ ConnectionsFollowHandler /\ PumpsReportOnce
      /\ conn \in [Conns -> {"none", "open", "closed"}]
      /\ "up" \in Conns /\ "down" \in Conns /\ \A c \in Conns : c = "down" \/ c = "up"
  BY DEF RelayInv, TypeOK, Conns
<1>1. CASE UNCHANGED <<handler, conn>>
  BY <1>0, <1>1 DEF ConnectionsFollowHandler
<1>2. ASSUME NEW t \in Tickets, Accept(t) PROVE ConnectionsFollowHandler'
  BY <1>0, <1>2 DEF ConnectionsFollowHandler, Accept
<1>3. CASE DialFails
  BY <1>0, <1>3 DEF ConnectionsFollowHandler, PumpsReportOnce, DialFails
<1>4. CASE StartPumps
  BY <1>0, <1>4 DEF ConnectionsFollowHandler, StartPumps
<1>5. CASE Wake
  BY <1>0, <1>5 DEF ConnectionsFollowHandler, Wake
<1>6. CASE CloseUp \/ CloseDown
  BY <1>0, <1>6 DEF ConnectionsFollowHandler, CloseUp, CloseDown, Close
<1> QED
  BY <1>1, <1>2, <1>3, <1>4, <1>5, <1>6
     DEF Next, Mint, TakeOnly, PeerSends, PeerLeaves, Read, Write, ReadFails, WriteFails, End,
         Pump, Handler, Tick, vars, relayVars

LEMMA RelayStarts == Init => RelayInv
<1> SUFFICES ASSUME Init PROVE RelayInv
  OBVIOUS
<1>1. -1 \in -1 .. realtimeTicketTTL /\ 0 \in 0 .. realtimeIdle /\ 0 \in 0 .. MaxSent
  OBVIOUS
<1>2. errCh \in Seq(Conns) /\ Len(errCh) <= 2 /\ errCh \in Reports
  BY DEF Init, Reports
<1>3. TypeOK
  BY <1>1, <1>2 DEF Init, TypeOK, Zero
<1>4. EndedPumpIsCounted /\ AtMostOneInFlight /\ TicketsAreFresh
  BY DEF Init, EndedPumpIsCounted, AtMostOneInFlight, TicketsAreFresh, Zero
<1>5. PumpsReportOnce /\ ConnectionsFollowHandler
  BY <1>2, ReportsAreShort DEF Init, PumpsReportOnce, ConnectionsFollowHandler, Conns
<1> QED
  BY <1>3, <1>4, <1>5 DEF RelayInv

LEMMA SpecStartsAndSteps == Spec => Init /\ [][Next]_vars
BY PTL DEF Spec

\* RelayInv holds in every reachable state: the row of a relay that ended counts all that
\* its first pump moved, no direction loses more than the message that was under way, no
\* pump reports twice, and a relay that has ended has closed both connections.
THEOREM RelayInvariance == Spec => []RelayInv
<1>1. RelayInv /\ [Next]_vars => RelayInv'
  BY RelayTypesStay, TicketsStayFresh, OneInFlightStays, PumpsReportOnceStays,
     EndedPumpStaysCounted, ConnectionsStay
     DEF RelayInv
<1> QED
  BY <1>1, RelayStarts, SpecStartsAndSteps, PTL

-----------------------------------------------------------------------------
\* The table of tickets implements single-use tokens: a ticket is live while the table
\* has it and it is in time, and spent once it was taken.
THEOREM RelayTicketsRefinement == Spec => TicketsAreOneTimeTokens
<1> DEFINE spentBar == {t \in Tickets : taken[t] > 0}
<1>1. Init => OneTime!Init
  BY DEF Init, OneTime!Init, Live
<1>2. RelayInv /\ [Next]_vars => [OneTime!Next]_(OneTime!vars)
  <2> SUFFICES ASSUME RelayInv, [Next]_vars
               PROVE  OneTime!Next \/ UNCHANGED OneTime!vars
    OBVIOUS
  <2>0. /\ TicketsAreFresh /\ taken \in [Tickets -> Nat]
        /\ ttl \in [Tickets -> -1 .. realtimeTicketTTL]
        /\ tickets \in SUBSET Tickets /\ minted \in SUBSET Tickets
    BY DEF RelayInv, TypeOK
  <2>1. ASSUME NEW t \in Tickets, Mint(t) PROVE OneTime!Issue(t)
    <3>1. t \notin Live \cup spentBar
      BY <2>0, <2>1 DEF Mint, TicketsAreFresh, Live
    <3>2. /\ tickets' = Live \cup {t} /\ ttl'[t] = realtimeTicketTTL
          /\ \A u \in Tickets \ {t} : ttl'[u] = ttl[u]
      BY <2>0, <2>1 DEF Mint
    <3>3. Live' = Live \cup {t}
      BY <2>0, <3>2 DEF Live
    <3>4. spentBar' = spentBar
      BY <2>1 DEF Mint
    <3> QED
      BY <3>1, <3>3, <3>4 DEF OneTime!Issue
  <2>2. ASSUME NEW t \in Tickets, Take(t) PROVE OneTime!Redeem(t) \/ OneTime!Lose
    <3>1. tickets' = tickets \ {t} /\ ttl' = ttl /\ t \in tickets
      BY <2>2 DEF Take
    <3>2. Live' = Live \ {t}
      BY <3>1 DEF Live
    <3>3. CASE t \notin Live
      <4>1. taken' = taken
        BY <2>0, <2>2, <3>3 DEF Take
      <4> QED
        BY <3>2, <4>1 DEF OneTime!Lose
    <3>4. CASE t \in Live
      <4>1. taken' = [taken EXCEPT ![t] = taken[t] + 1]
        BY <2>2, <3>4 DEF Take
      <4>2. spentBar' = spentBar \cup {t}
        BY <2>0, <4>1
      <4> QED
        BY <3>2, <3>4, <4>2 DEF OneTime!Redeem
    <3> QED
      BY <3>3, <3>4
  <2>3. CASE Tick
    <3>1. Live' \subseteq Live /\ spentBar' = spentBar
      BY <2>0, <2>3 DEF Tick, Live
    <3> QED
      BY <3>1 DEF OneTime!Next, OneTime!Lose
  <2>4. CASE UNCHANGED ticketVars
    <3>1. Live' = Live /\ spentBar' = spentBar
      BY <2>4 DEF ticketVars, Live
    <3> QED
      BY <3>1 DEF OneTime!vars
  <2> QED
    BY <2>1, <2>2, <2>3, <2>4
       DEF Next, TakeOnly, Accept, DialFails, PeerSends, PeerLeaves, Write, Pump, Read, ReadFails,
           WriteFails, End, Handler, StartPumps, Wake, CloseUp, CloseDown, Close, vars,
           OneTime!Next
<1> QED
  BY <1>1, <1>2, SpecStartsAndSteps, RelayInvariance, PTL
     DEF TicketsAreOneTimeTokens, OneTime!Spec

-----------------------------------------------------------------------------
(* Frames: the length field. *)

LEMMA Radixes ==
    /\ Radix \in Nat /\ Radix > 0 /\ Radix2 \in Nat /\ Radix2 >= 64
    /\ TopBit \in Nat /\ TopBit >= 4
  BY RadixAssumption, SMT DEF Radix2, TopBit

LEMMA Quotients ==
    ASSUME NEW n \in Nat, NEW b \in Nat, b > 0
    PROVE  n \div b \in Nat /\ n % b \in Nat /\ n % b < b /\ n = b * (n \div b) + (n % b)
  BY SMT

LEMMA QuotientsAre ==
    ASSUME NEW b \in Nat, b > 0, NEW q \in Nat, NEW r \in Nat, r < b
    PROVE  (b * q + r) \div b = q /\ (b * q + r) % b = r
  BY SMT

LEMMA Products == ASSUME NEW a \in Nat, NEW b \in Nat PROVE a * b \in Nat
  BY SMT

LEMMA QuotientsAreBelow ==
    ASSUME NEW n \in Nat, NEW b \in Nat, b > 0, NEW p \in Nat, n < b * p
    PROVE  n \div b < p
<1> PICK q \in Nat : q = n \div b
  BY Quotients
<1>1. b * q <= n
  BY Quotients, SMT
<1>2. CASE q >= p
  <2>1. PICK d \in Nat : q = p + d
    <3>1. q - p \in Nat
      BY <1>2
    <3> QED
      BY <3>1
  <2>2. b * q = b * p + b * d
    BY <2>1, SMT
  <2>3. b * d \in Nat /\ b * p \in Nat
    BY Products
  <2> QED
    BY <1>1, <2>2, <2>3, SMT
<1> QED
  BY <1>2, SMT

\* A number is its two lowest bytes and the rest.
LEMMA BytesAreTheNumber ==
    ASSUME NEW n \in Nat
    PROVE  /\ High(n) \in Nat /\ Low(n) \in Nat /\ Shift(n) \in Nat
           /\ Radix2 * Shift(n) + Radix * High(n) + Low(n) = n
<1> PICK q, r : q = n \div Radix /\ r = n % Radix
  OBVIOUS
<1>1. q \in Nat /\ r \in Nat /\ r < Radix /\ n = Radix * q + r
  BY Radixes, Quotients
<1> PICK s, t : s = q \div Radix /\ t = q % Radix
  OBVIOUS
<1>2. s \in Nat /\ t \in Nat /\ t < Radix /\ q = Radix * s + t
  BY <1>1, Radixes, Quotients
<1>3. n = Radix2 * s + (Radix * t + r)
  <2>1. Radix * q = Radix * (Radix * s) + Radix * t
    BY <1>1, <1>2, Radixes, SMT
  <2>2. Radix * (Radix * s) = Radix2 * s
    BY <1>2, Radixes, SMT DEF Radix2
  <2> PICK x, y : x = Radix2 * s /\ y = Radix * t
    OBVIOUS
  <2>3. x \in Nat /\ y \in Nat
    BY <1>2, Radixes, Products
  <2> QED
    BY <1>1, <2>1, <2>2, <2>3, SMT
<1>4. Radix * t + r \in Nat /\ Radix * t + r < Radix2
  <2>1. Radix * (t + 1) <= Radix * Radix
    BY <1>2, Radixes, SMT
  <2>2. Radix * (t + 1) = Radix * t + Radix
    BY <1>2, Radixes, SMT
  <2> PICK y : y = Radix * t
    OBVIOUS
  <2>3. y \in Nat
    BY <1>2, Radixes, Products
  <2> QED
    BY <1>1, <2>1, <2>2, <2>3, Radixes, SMT DEF Radix2
<1>5. n \div Radix2 = s
  <2> PICK z : z = Radix * t + r
    OBVIOUS
  <2>1. (Radix2 * s + z) \div Radix2 = s
    BY <1>2, <1>4, Radixes, QuotientsAre
  <2> QED
    BY <1>3, <2>1
<1>6. High(n) = t /\ Low(n) = r /\ Shift(n) = s
  BY <1>5 DEF High, Low, Shift
<1>7. Radix2 * s \in Nat /\ Radix * t \in Nat
  BY <1>2, Radixes, Products
<1> QED
  BY <1>1, <1>2, <1>3, <1>6, <1>7, SMT

\* Nothing is left of two bytes, or of eight.
LEMMA NothingIsLeft ==
    ASSUME NEW n \in Nat
    PROVE  /\ n < Radix2 => Shift(n) = 0
           /\ n < Radix8 => Shift(Shift(Shift(Shift(n)))) = 0
<1> PICK r2, r4, r6 : r2 = Radix2 /\ r4 = r2 * r2 /\ r6 = r2 * r4
  OBVIOUS
<1>1. r2 \in Nat /\ r2 > 0 /\ r4 \in Nat /\ r6 \in Nat
  BY Radixes, Products
<1>2. ASSUME NEW m \in Nat, m < r2 PROVE Shift(m) = 0
  <2>1. 1 \in Nat /\ m < r2 * 1
    BY <1>1, <1>2
  <2>2. Shift(m) < 1 /\ Shift(m) \in Nat
    BY <1>1, <2>1, QuotientsAreBelow, BytesAreTheNumber DEF Shift
  <2> QED
    BY <2>2
<1>3. ASSUME n < Radix8 PROVE Shift(Shift(Shift(Shift(n)))) = 0
  <2> PICK b, c, d : b = Shift(n) /\ c = Shift(b) /\ d = Shift(c)
    OBVIOUS
  <2>1. b \in Nat /\ c \in Nat /\ d \in Nat
    BY BytesAreTheNumber
  <2>2. n < r2 * r6
    BY <1>3 DEF Radix8
  <2>3. b < r6
    BY <1>1, <2>2, QuotientsAreBelow DEF Shift
  <2>4. c < r4
    BY <1>1, <2>1, <2>3, QuotientsAreBelow DEF Shift
  <2>5. d < r2
    BY <1>1, <2>1, <2>4, QuotientsAreBelow DEF Shift
  <2> QED
    BY <1>2, <2>1, <2>5
<1> QED
  BY <1>2, <1>3

LEMMA Powers ==
    /\ Radix8 \in Nat /\ Radix8 \div 2 \in Nat /\ Radix8 \div 2 < Radix8
    /\ Radix2 <= Radix8 \div 2 /\ TopBit <= Radix2
<1> PICK q : q = Radix2 * (Radix2 * Radix2)
  OBVIOUS
<1>1. q \in Nat /\ q >= 2
  <2> PICK p : p = Radix2 * Radix2
    OBVIOUS
  <2>1. p \in Nat /\ p >= 64
    BY Radixes, SMT
  <2> QED
    BY <2>1, Radixes, SMT
<1>2. Radix8 = Radix2 * q
  BY DEF Radix8
<1>3. Radix2 * q >= Radix2 * 2
  BY <1>1, Radixes, SMT
<1>4. TopBit <= Radix /\ Radix <= Radix2
  BY RadixAssumption, SMT DEF TopBit, Radix2
<1> QED
  BY <1>1, <1>2, <1>3, <1>4, Radixes, SMT

\* What readFrame takes the length to be.
Announces(bytes, n) == bytes \in Seq(Nat) /\ AnnouncedLength(bytes) = Signed(n)

\* As an int64 it is the length there is, or negative.
LEMMA SignsOfLengths ==
    ASSUME NEW n \in 0 .. Radix8 - 1
    PROVE  /\ n \in Nat /\ n < Radix8
           /\ n < Radix8 \div 2 => Signed(n) = n
           /\ n >= Radix8 \div 2 => Signed(n) < 0 /\ Signed(n) \in Int
  BY Powers, SMT DEF Signed

\* The first byte, with the mask bit or without it.
LEMMA FirstBytes ==
    ASSUME NEW n \in Nat, n < TopBit, NEW bit \in Nat, bit = 0 \/ bit = TopBit
    PROVE  n + bit \in Nat /\ (n + bit) % TopBit = n
<1>1. CASE bit = 0
  BY <1>1, Radixes, SMT
<1>2. CASE bit = TopBit
  <2>1. (TopBit * 1 + n) % TopBit = n
    <3>1. 1 \in Nat
      OBVIOUS
    <3> QED
      BY <3>1, Radixes, QuotientsAre
  <2>2. TopBit * 1 + n = n + bit
    BY <1>2, Radixes, SMT
  <2> QED
    BY <2>1, <2>2
<1> QED
  BY <1>1, <1>2

\* It is the length there is, in every form that has room for it, masked or not.
LEMMA FormsSurvive ==
    ASSUME NEW n \in Nat, n < Radix8, NEW bit \in Nat, bit = 0 \/ bit = TopBit
    PROVE  /\ n < TwoFollow => Announces(Short(n, bit), n)
           /\ n < Radix2 => Announces(Extended(n, bit), n)
           /\ Announces(Long(n, bit), n)
<1>0. /\ TwoFollow \in Nat /\ TwoFollow < TopBit /\ EightFollow \in Nat /\ EightFollow < TopBit
      /\ TwoFollow < EightFollow
  BY Radixes, SMT DEF TwoFollow, EightFollow
<1>1. n < Radix2 => Signed(n) = n
  BY Powers, Radixes, SMT DEF Signed
<1>2. ASSUME n < TwoFollow
      PROVE  Announces(Short(n, bit), n)
  <2> PICK bytes : bytes = Short(n, bit)
    OBVIOUS
  <2>1. n < TopBit /\ n < Radix2
    BY <1>0, <1>2, Powers, Radixes
  <2>2. n + bit \in Nat /\ (n + bit) % TopBit = n
    BY <2>1, FirstBytes
  <2>3. bytes \in Seq(Nat) /\ bytes[1] % TopBit = n
    BY <2>2 DEF Short
  <2>4. n # TwoFollow /\ n # EightFollow
    BY <1>0, <1>2
  <2>5. AnnouncedLength(bytes) = n
    BY <2>3, <2>4 DEF AnnouncedLength
  <2> QED
    BY <1>1, <2>1, <2>3, <2>5 DEF Announces
<1>3. ASSUME n < Radix2
      PROVE  Announces(Extended(n, bit), n)
  <2> PICK bytes, h, l : bytes = Extended(n, bit) /\ h = High(n) /\ l = Low(n)
    OBVIOUS
  <2>1. h \in Nat /\ l \in Nat /\ Radix2 * 0 + Radix * h + l = n
    BY <1>3, BytesAreTheNumber, NothingIsLeft
  <2>2. TwoFollow + bit \in Nat /\ (TwoFollow + bit) % TopBit = TwoFollow
    BY <1>0, FirstBytes
  <2>3. /\ bytes \in Seq(Nat) /\ bytes[1] % TopBit = TwoFollow
        /\ bytes[2] = h /\ bytes[3] = l
    BY <2>1, <2>2 DEF Extended
  <2>4. AnnouncedLength(bytes) = TwoMore(0, bytes, 2)
    <3>1. TwoFollow # EightFollow
      BY <1>0
    <3> QED
      BY <2>3, <3>1, Zenon DEF AnnouncedLength
  <2>5. TwoMore(0, bytes, 2) = Radix2 * 0 + Radix * bytes[2] + bytes[3]
    BY DEF TwoMore
  <2> QED
    BY <1>1, <1>3, <2>1, <2>3, <2>4, <2>5 DEF Announces
<1>4. Announces(Long(n, bit), n)
  <2> PICK bytes, a, b, c : bytes = Long(n, bit) /\ a = Shift(n) /\ b = Shift(a) /\ c = Shift(b)
    OBVIOUS
  <2>1. a \in Nat /\ b \in Nat /\ c \in Nat
    BY BytesAreTheNumber
  <2>2. /\ Radix2 * 0 + Radix * High(c) + Low(c) = c
        /\ Radix2 * c + Radix * High(b) + Low(b) = b
        /\ Radix2 * b + Radix * High(a) + Low(a) = a
        /\ Radix2 * a + Radix * High(n) + Low(n) = n
    <3>1. Shift(c) = 0
      BY NothingIsLeft
    <3> QED
      BY <2>1, <3>1, BytesAreTheNumber
  <2>3. EightFollow + bit \in Nat /\ (EightFollow + bit) % TopBit = EightFollow
    BY <1>0, FirstBytes
  <2> PICK first, hc, lc, hb, lb, ha, la, hn, ln :
        /\ first = EightFollow + bit /\ hc = High(c) /\ lc = Low(c) /\ hb = High(b) /\ lb = Low(b)
        /\ ha = High(a) /\ la = Low(a) /\ hn = High(n) /\ ln = Low(n)
    OBVIOUS
  <2>4. /\ first \in Nat /\ hc \in Nat /\ lc \in Nat /\ hb \in Nat /\ lb \in Nat
        /\ ha \in Nat /\ la \in Nat /\ hn \in Nat /\ ln \in Nat
    BY <2>1, <2>3, BytesAreTheNumber
  <2>5. bytes = <<first, hc, lc, hb, lb, ha, la, hn, ln>>
    BY Zenon DEF Long
  <2>6. /\ bytes \in Seq(Nat) /\ bytes[1] % TopBit = EightFollow
        /\ bytes[2] = hc /\ bytes[3] = lc /\ bytes[4] = hb /\ bytes[5] = lb
        /\ bytes[6] = ha /\ bytes[7] = la /\ bytes[8] = hn /\ bytes[9] = ln
    BY <2>3, <2>4, <2>5
  <2>7. /\ TwoMore(0, bytes, 2) = c /\ TwoMore(c, bytes, 4) = b
        /\ TwoMore(b, bytes, 6) = a /\ TwoMore(a, bytes, 8) = n
    <3>1. /\ 2 + 1 = 3 /\ 4 + 1 = 5 /\ 6 + 1 = 7 /\ 8 + 1 = 9
      OBVIOUS
    <3> QED
      BY <2>2, <2>6, <3>1, Zenon DEF TwoMore
  <2>8. EightFollow # TwoFollow
    BY <1>0
  <2>9. AnnouncedLength(bytes) =
          Signed(TwoMore(TwoMore(TwoMore(TwoMore(0, bytes, 2), bytes, 4), bytes, 6), bytes, 8))
    BY <2>6, <2>8 DEF AnnouncedLength
  <2> QED
    BY <2>6, <2>7, <2>9, Zenon DEF Announces
<1> QED
  BY <1>2, <1>3, <1>4

LEMMA MaskBits == \A mask \in BOOLEAN :
                     MaskBit(mask) \in Nat /\ (MaskBit(mask) = 0 \/ MaskBit(mask) = TopBit)
  BY Radixes DEF MaskBit

\* readFrame reads the length that writeFrame has written.
LEMMA LengthsSurvive ==
    ASSUME NEW n \in Nat, n < Radix8, NEW mask \in BOOLEAN
    PROVE  Announces(LengthBytes(n, mask), n)
<1> PICK bit : bit = MaskBit(mask)
  OBVIOUS
<1>1. bit \in Nat /\ (bit = 0 \/ bit = TopBit)
  BY MaskBits
<1>2. /\ n < TwoFollow => Announces(Short(n, bit), n)
      /\ n < Radix2 => Announces(Extended(n, bit), n)
      /\ Announces(Long(n, bit), n)
  BY <1>1, FormsSurvive
<1>3. \/ n < TwoFollow /\ LengthBytes(n, mask) = Short(n, bit)
      \/ n < Radix2 /\ LengthBytes(n, mask) = Extended(n, bit)
      \/ LengthBytes(n, mask) = Long(n, bit)
  BY DEF LengthBytes
<1> QED
  BY <1>2, <1>3

\* And the length that the peer has written, in the form it chose.
LEMMA PeerFormsSurvive ==
    ASSUME NEW n \in Nat, n < Radix8, NEW mask \in BOOLEAN,
           NEW bytes \in PeerForms(n, MaskBit(mask))
    PROVE  Announces(bytes, n)
<1> PICK bit : bit = MaskBit(mask)
  OBVIOUS
<1>1. bit \in Nat /\ (bit = 0 \/ bit = TopBit)
  BY MaskBits
<1>2. \/ bytes = Long(n, bit)
      \/ n < Radix2 /\ bytes = Extended(n, bit)
      \/ n < TwoFollow /\ bytes = Short(n, bit)
  BY DEF PeerForms
<1>3. /\ n < TwoFollow => Announces(Short(n, bit), n)
      /\ n < Radix2 => Announces(Extended(n, bit), n)
      /\ Announces(Long(n, bit), n)
  BY <1>1, FormsSurvive
<1> QED
  BY <1>2, <1>3

-----------------------------------------------------------------------------
(* Frames: the pieces of a frame. *)

LEMMA LengthsOfTasks ==
    ASSUME NEW frame \in Tasks
    PROVE  frame.len \in 0 .. Radix8 - 1 /\ frame.len < Radix8 \div 2 /\ frame.op \in Nat
           /\ frame.len \in Nat
<1>1. /\ frame.len \in 0 .. wsMaxFrameBytes /\ frame.op \in Nat
      /\ wsMaxFrameBytes \in Nat /\ wsMaxFrameBytes < Radix8 \div 2
  BY FrameBytesAssumption DEF Tasks
<1> QED
  BY <1>1, Powers

LEMMA HeadersAnnounce ==
    ASSUME NEW w \in Writers, NEW frame \in Tasks
    PROVE  /\ Header(w, frame) \in Pieces
           /\ Header(w, frame).part = "header" /\ Header(w, frame).by = w
           /\ AnnouncedLength(Header(w, frame).bytes) = frame.len
<1> DEFINE mask  == IsClient /\ frame.op = Text
           bytes == LengthBytes(frame.len, mask)
<1>1. bytes \in Seq(Nat) /\ AnnouncedLength(bytes) = frame.len
  <2>1. mask \in BOOLEAN
    OBVIOUS
  <2> HIDE DEF mask
  <2> PICK n : n = frame.len
    OBVIOUS
  <2>2. n \in 0 .. Radix8 - 1 /\ n < Radix8 \div 2
    BY LengthsOfTasks
  <2>3. n \in Nat /\ n < Radix8 /\ Signed(n) = n
    BY ONLY <2>2, SignsOfLengths
  <2>4. Announces(LengthBytes(n, mask), n)
    BY <2>1, <2>3, LengthsSurvive
  <2> QED
    BY <2>3, <2>4 DEF Announces
<1>2. Header(w, frame) = [part |-> "header", by |-> w, op |-> frame.op, bytes |-> bytes]
  BY DEF Header
<1> HIDE DEF bytes
<1> QED
  BY <1>1, <1>2, LengthsOfTasks DEF Pieces

LEMMA PayloadsFollow ==
    ASSUME NEW w \in Writers, NEW frame \in Tasks
    PROVE  /\ Payload(w, frame) = [part |-> "payload", by |-> w, len |-> frame.len]
           /\ Payload(w, frame) \in Pieces /\ Payload(w, frame).part = "payload"
  BY LengthsOfTasks DEF Payload, Pieces

-----------------------------------------------------------------------------
(* Frames: the writers. *)

LEMMA TasksAreTasks ==
    ASSUME NEW op \in Nat, NEW fin \in BOOLEAN, NEW len \in Nat, ~ len > wsMaxFrameBytes
    PROVE  Frame(op, fin, len) \in Tasks
<1>1. len \in 0 .. wsMaxFrameBytes
  BY FrameBytesAssumption, SMT
<1> QED
  BY <1>1 DEF Frame, Tasks

LEMMA Opcodes == Text \in Nat /\ CloseOp \in Nat /\ Pong \in Nat
  BY SMT DEF Text, CloseOp, Pong

LEMMA EmptyFrames == 0 \in Nat /\ ~ 0 > wsMaxFrameBytes
  BY FrameBytesAssumption, SMT

LEMMA NoTaskIsTask == NoTask \in Tasks /\ NoTask.len = 0
  BY EmptyFrames, TasksAreTasks DEF NoTask, Frame

\* A writer that has nothing to write does not hold writeMu, so it may be given a
\* frame whatever the others are doing.
LEMMA GivingIsHarmless ==
    ASSUME WritersInv, UNCHANGED <<input, lock, wire, failures>>, closed => closed',
           framesRead' \in Nat,
           \/ UNCHANGED task
           \/ \E w \in Writers, frame \in Tasks : task[w] = NoTask /\ Give(w, frame)
    PROVE  WritersInv'
<1>1. FramesWhole'
  BY DEF WritersInv, FramesWhole
<1>2. CASE UNCHANGED task
  BY <1>1, <1>2 DEF WritersInv, Header
<1>3. ASSUME NEW w \in Writers, NEW frame \in Tasks, task[w] = NoTask, Give(w, frame)
      PROVE  WritersInv'
  <2>1. lock # w
    <3>1. lock # "none" => task[lock].len > 0
      BY DEF WritersInv
    <3>2. ~ 0 > 0 /\ "none" # w
      BY SMT DEF Writers
    <3> QED
      BY <1>3, <3>1, <3>2, NoTaskIsTask
  <2>2. task' \in [Writers -> Tasks]
    BY <1>3 DEF WritersInv, Give
  <2>3. lock # "none" => task'[lock] = task[lock]
    BY <1>3, <2>1 DEF WritersInv, Give
  <2> QED
    BY <1>1, <2>2, <2>3 DEF WritersInv, Header
<1> QED
  BY <1>2, <1>3

LEMMA WritersInit == FramesInit => WritersInv
<1> SUFFICES ASSUME FramesInit PROVE WritersInv
  OBVIOUS
<1>1. task \in [Writers -> Tasks]
  BY NoTaskIsTask DEF FramesInit
<1>2. wire = <<>> /\ wire \in Seq(Pieces) /\ DOMAIN wire = {}
  BY SMT DEF FramesInit
<1> QED
  BY <1>1, <1>2 DEF FramesInit, WritersInv, FramesWhole

\* The frames of the peer, and the messages of the pump.
LEMMA PeersFrames ==
    ASSUME NEW frames \in Inputs, NEW i \in 1 .. Len(frames)
    PROVE  /\ frames[i] \in [op : Nat, fin : BOOLEAN, len : 0 .. Radix8 - 1]
           /\ frames[i].op \in Nat /\ frames[i].fin \in BOOLEAN
           /\ frames[i].len \in Nat /\ frames[i].len \in 0 .. Radix8 - 1
<1> DEFINE F == [op : Nat, fin : BOOLEAN, len : 0 .. Radix8 - 1]
<1>1. frames \in Seq(F)
  BY FrameInputsAssumption
<1>2. frames[i] \in F
  <2> HIDE DEF F
  <2> QED
    BY <1>1, ElementOfSeq
<1> QED
  BY <1>2

LEMMA PumpsLengths == \A n \in Lengths : n \in Nat
  BY FrameInputsAssumption, SMT

LEMMA ControlFrames == CloseOp \notin Data /\ Ping \notin Data /\ Pong \notin Data
  BY SMT DEF CloseOp, Ping, Pong, Data

\* readFrame reads the length that the peer has sent, or a negative one.
LEMMA LengthsAreTaken ==
    ASSUME input \in Inputs, framesRead \in Nat, ReadFrame
    PROVE  LET frame == input[framesRead + 1]
           IN  /\ frame.len \in Nat
               /\ \/ ~ frame.len < Radix8 \div 2 /\ StopReading /\ crashed' = TRUE
                  \/ frame.len < Radix8 \div 2 /\ UNCHANGED crashed
                     /\ \/ frame.len > wsMaxFrameBytes /\ StopReading
                        \/ ~ frame.len > wsMaxFrameBytes /\ TakeFrame(frame, frame.len)
<1> PICK frame, n : frame = input[framesRead + 1] /\ n = frame.len
  OBVIOUS
<1>1. framesRead < Len(input)
  BY DEF ReadFrame
<1>2. n \in Nat /\ n \in 0 .. Radix8 - 1
  <2>1. Len(input) \in Nat
    <3>1. input \in Seq([op : Nat, fin : BOOLEAN, len : 0 .. Radix8 - 1])
      BY FrameInputsAssumption
    <3> QED
      BY <3>1, LenProperties
  <2>2. framesRead + 1 \in 1 .. Len(input)
    BY <1>1, <2>1
  <2> QED
    BY <2>2, PeersFrames
<1>3. /\ n < Radix8
      /\ n < Radix8 \div 2 => Signed(n) = n
      /\ n >= Radix8 \div 2 => Signed(n) < 0 /\ Signed(n) \in Int
  BY ONLY <1>2, SignsOfLengths
<1>4. PICK mask \in BOOLEAN :
        \E bytes \in PeerForms(n, MaskBit(mask)) :
          LET length == AnnouncedLength(bytes)
          IN  \/ length > wsMaxFrameBytes /\ StopReading /\ UNCHANGED crashed
              \/ length < 0 /\ StopReading /\ crashed' = TRUE
              \/ length \in 0 .. wsMaxFrameBytes /\ TakeFrame(frame, length)
                 /\ UNCHANGED crashed
  BY Zenon DEF ReadFrame
<1>5. PICK bytes \in PeerForms(n, MaskBit(mask)) :
        LET length == AnnouncedLength(bytes)
        IN  \/ length > wsMaxFrameBytes /\ StopReading /\ UNCHANGED crashed
            \/ length < 0 /\ StopReading /\ crashed' = TRUE
            \/ length \in 0 .. wsMaxFrameBytes /\ TakeFrame(frame, length)
               /\ UNCHANGED crashed
  BY <1>4
<1>6. AnnouncedLength(bytes) = Signed(n)
  <2>1. Announces(bytes, n)
    BY <1>2, <1>3, PeerFormsSurvive
  <2> QED
    BY <2>1 DEF Announces
<1>7. \/ Signed(n) > wsMaxFrameBytes /\ StopReading /\ UNCHANGED crashed
      \/ Signed(n) < 0 /\ StopReading /\ crashed' = TRUE
      \/ Signed(n) \in 0 .. wsMaxFrameBytes /\ TakeFrame(frame, Signed(n)) /\ UNCHANGED crashed
  BY <1>5, <1>6, Zenon
<1>8. CASE n < Radix8 \div 2
  <2>1. \/ n > wsMaxFrameBytes /\ StopReading /\ UNCHANGED crashed
        \/ n < 0 /\ StopReading /\ crashed' = TRUE
        \/ n \in 0 .. wsMaxFrameBytes /\ TakeFrame(frame, n) /\ UNCHANGED crashed
    BY <1>3, <1>7, <1>8, Zenon
  <2>2. ~ n < 0 /\ (n \in 0 .. wsMaxFrameBytes => ~ n > wsMaxFrameBytes)
    BY <1>2, FrameBytesAssumption
  <2> QED
    BY <1>2, <1>8, <2>1, <2>2, Zenon
<1>9. CASE ~ n < Radix8 \div 2
  <2>1. n >= Radix8 \div 2
    BY <1>2, <1>9, Powers
  <2>2. ~ Signed(n) > wsMaxFrameBytes /\ Signed(n) \notin 0 .. wsMaxFrameBytes
    <3> PICK s : s = Signed(n)
      OBVIOUS
    <3>1. s < 0 /\ s \in Int
      BY <1>3, <2>1
    <3> QED
      BY <3>1, FrameBytesAssumption
  <2> QED
    BY <1>2, <1>7, <1>9, <2>2, Zenon
<1> QED
  BY <1>8, <1>9

\* ReadMessage takes a frame, or reads no more.
LEMMA FramesAreTaken ==
    ASSUME input \in Inputs, framesRead \in Nat, ReadFrame
    PROVE  LET frame == input[framesRead + 1]
           IN  \/ StopReading
               \/ frame.op \in Data /\ ~ frame.len > wsMaxFrameBytes
                  /\ TakeData(frame, frame.len)
               \/ frame.op = CloseOp /\ TakeClose
               \/ frame.op \in {Ping, Pong} /\ ~ frame.len > wsMaxFrameBytes
                  /\ TakeControl(frame, frame.len)
<1> DEFINE frame == input[framesRead + 1]
           length == frame.len
<1>4. StopReading \/ (~ length > wsMaxFrameBytes /\ TakeFrame(frame, length))
  BY LengthsAreTaken, Zenon
<1> HIDE DEF frame, length
<1>5. \/ StopReading
      \/ CASE frame.op \in Data -> TakeData(frame, length)
           [] frame.op = CloseOp -> TakeClose
           [] frame.op \in {Ping, Pong} -> TakeControl(frame, length)
           [] OTHER -> StopReading
  BY <1>4, Zenon DEF TakeFrame, Data
<1>6. CASE StopReading
  BY <1>6
<1>7. CASE ~ StopReading /\ ~ length > wsMaxFrameBytes /\ frame.op \in Data
  <2>1. frame.op # CloseOp /\ frame.op \notin {Ping, Pong}
    BY <1>7, ControlFrames
  <2> QED
    BY <1>5, <1>7, <2>1, Zenon DEF frame, length
<1>8. CASE ~ StopReading /\ ~ length > wsMaxFrameBytes /\ frame.op = CloseOp
  <2>1. frame.op \notin Data /\ frame.op \notin {Ping, Pong}
    BY <1>8, ControlFrames, SMT DEF CloseOp, Ping, Pong
  <2> QED
    BY <1>5, <1>8, <2>1, Zenon DEF frame
<1>9. CASE ~ StopReading /\ ~ length > wsMaxFrameBytes /\ frame.op \in {Ping, Pong}
  <2>1. frame.op \notin Data /\ frame.op # CloseOp
    BY <1>9, ControlFrames, SMT DEF CloseOp, Ping, Pong
  <2> QED
    BY <1>5, <1>9, <2>1, Zenon DEF frame, length
<1>10. CASE ~ StopReading /\ ~ length > wsMaxFrameBytes /\ frame.op \notin Data /\ frame.op # CloseOp
            /\ frame.op \notin {Ping, Pong}
  BY <1>5, <1>10, Zenon
<1> QED
  BY <1>4, <1>6, <1>7, <1>8, <1>9, <1>10

LEMMA WritersReading == ASSUME WritersInv, ReadFrame PROVE WritersInv'
<1> DEFINE frame == input[framesRead + 1]
           length == frame.len
<1>1. framesRead' \in Nat /\ input \in Inputs /\ framesRead \in Nat
  BY SMT DEF WritersInv, ReadFrame
<1>2. length \in Nat
  <2>1. framesRead + 1 \in 1 .. Len(input)
    BY <1>1, SMT DEF WritersInv, ReadFrame
  <2> QED
    BY <1>1, <2>1, PeersFrames
<1>3. \/ StopReading \/ TakeData(frame, length) \/ TakeClose
      \/ ~ length > wsMaxFrameBytes /\ TakeControl(frame, length)
  BY <1>1, FramesAreTaken, Zenon
<1>4. task["reader"] = NoTask /\ "reader" \in Writers
  BY DEF ReadFrame, CanRead, Writers
<1> HIDE DEF frame, length
<1>5. CASE StopReading
  BY <1>1, <1>5, GivingIsHarmless DEF StopReading, ReadFrame
<1>6. CASE TakeData(frame, length)
  BY <1>1, <1>6, GivingIsHarmless DEF TakeData, StopReading, ReadFrame
<1>7. CASE TakeClose
  <2>1. Frame(CloseOp, TRUE, 0) \in Tasks
    BY EmptyFrames, Opcodes, TasksAreTasks, Zenon
  <2>2. \E w \in Writers, f \in Tasks : task[w] = NoTask /\ Give(w, f)
    BY <1>4, <1>7, <2>1 DEF TakeClose
  <2> QED
    BY <1>1, <2>2, GivingIsHarmless DEF ReadFrame
<1>8. CASE ~ length > wsMaxFrameBytes /\ TakeControl(frame, length)
  <2>1. Frame(Pong, TRUE, length) \in Tasks
    BY <1>2, <1>8, Opcodes, TasksAreTasks, Zenon
  <2>2. \/ UNCHANGED task
        \/ \E w \in Writers, f \in Tasks : task[w] = NoTask /\ Give(w, f)
    BY <1>4, <1>8, <2>1, Zenon DEF TakeControl, Give
  <2> QED
    BY <1>1, <2>2, GivingIsHarmless DEF ReadFrame
<1> QED
  BY <1>3, <1>5, <1>6, <1>7, <1>8

LEMMA WritersGiven ==
    ASSUME WritersInv,
           ReadError \/ CloseConn \/ CloseNow \/ \E n \in Lengths : SendMessage(n)
    PROVE  WritersInv'
<1>1. framesRead' \in Nat
  BY DEF WritersInv, ReadError, CloseConn, CloseNow, SendMessage
<1>5. CASE CloseNow
  BY <1>1, <1>5, GivingIsHarmless DEF CloseNow
<1>2. CASE ReadError
  BY <1>1, <1>2, GivingIsHarmless DEF ReadError, StopReading
<1>3. CASE CloseConn
  <2>1. Frame(CloseOp, TRUE, 0) \in Tasks
    BY EmptyFrames, Opcodes, TasksAreTasks, Zenon
  <2>2. \E w \in Writers, f \in Tasks : task[w] = NoTask /\ Give(w, f)
    BY <1>3, <2>1 DEF CloseConn, Writers
  <2> QED
    BY <1>1, <1>3, <2>2, GivingIsHarmless DEF CloseConn
<1>4. ASSUME NEW n \in Lengths, SendMessage(n)
      PROVE  WritersInv'
  <2>1. ~ n > wsMaxFrameBytes => Frame(Text, TRUE, n) \in Tasks
    BY PumpsLengths, Opcodes, TasksAreTasks, Zenon
  <2>2. \/ UNCHANGED task
        \/ \E w \in Writers, f \in Tasks : task[w] = NoTask /\ Give(w, f)
    BY <1>4, <2>1, Zenon DEF SendMessage, Writers
  <2> QED
    BY <1>1, <1>4, <2>2, GivingIsHarmless DEF SendMessage
<1> QED
  BY <1>2, <1>3, <1>4, <1>5

\* A header goes out behind whole frames only.
LEMMA WritersHeading ==
    ASSUME WritersInv, NEW w \in Writers, WriteHeader(w)
    PROVE  WritersInv'
<1> DEFINE head == Header(w, task[w])
<1>1. /\ head \in Pieces /\ head.part = "header" /\ head.by = w
      /\ AnnouncedLength(head.bytes) = task[w].len
  BY HeadersAnnounce DEF WritersInv
<1>2. lock = "none" /\ ~ closed /\ wire \in Seq(Pieces) /\ w # "none" /\ "none" \notin Writers
      /\ task[w] \in Tasks
  BY DEF WritersInv, WriteHeader, Free, Writers
<1>3. wire' = Append(wire, head) /\ UNCHANGED <<input, framesRead, failures, closed>>
  BY DEF WriteHeader, OnWrite
<1>4. \/ task[w].len = 0 /\ Give(w, NoTask) /\ UNCHANGED lock
      \/ task[w].len # 0 /\ lock' = w /\ UNCHANGED task
  BY DEF WriteHeader
<1> HIDE DEF head
<1>5. /\ wire' \in Seq(Pieces) /\ Len(wire') = Len(wire) + 1 /\ wire'[Len(wire) + 1] = head
      /\ Len(wire) \in Nat /\ wire' # <<>>
      /\ DOMAIN wire' = 1 .. Len(wire) + 1 /\ DOMAIN wire = 1 .. Len(wire)
      /\ \A i \in 1 .. Len(wire) : wire'[i] = wire[i]
  BY <1>1, <1>2, <1>3, SMT
<1>6. task' \in [Writers -> Tasks]
  BY <1>4, NoTaskIsTask DEF WritersInv, Give
<1>7. lock' # "none" => /\ lock' = w /\ task' = task /\ task[w].len > 0
                        /\ wire'[Len(wire')] = Header(lock', task'[lock'])
  <2>1. task[w].len # 0 => task[w].len > 0
    BY <1>2, LengthsOfTasks, SMT
  <2>2. wire'[Len(wire')] = Header(w, task[w])
    BY <1>5 DEF head
  <2> QED
    BY <1>2, <1>4, <2>1, <2>2, Zenon
<1>8. FramesWhole'
  <2> SUFFICES ASSUME failures' = 0, NEW i \in DOMAIN wire'
               PROVE  IF wire'[i].part = "header"
                      THEN \/ AnnouncedLength(wire'[i].bytes) = 0
                           \/ i = Len(wire') /\ (lock' = wire'[i].by \/ closed')
                           \/ i < Len(wire')
                              /\ wire'[i + 1] = [part |-> "payload", by |-> wire'[i].by,
                                                 len |-> AnnouncedLength(wire'[i].bytes)]
                      ELSE i > 1 /\ wire'[i - 1].part = "header"
    BY DEF FramesWhole
  <2>1. CASE i = Len(wire) + 1
    BY <1>1, <1>4, <1>5, <2>1
  <2>2. CASE i \in 1 .. Len(wire)
    <3>1. IF wire[i].part = "header"
          THEN \/ AnnouncedLength(wire[i].bytes) = 0
               \/ i < Len(wire)
                  /\ wire[i + 1] = [part |-> "payload", by |-> wire[i].by,
                                    len |-> AnnouncedLength(wire[i].bytes)]
          ELSE i > 1 /\ wire[i - 1].part = "header"
      <4>1. wire[i] \in Pieces
        BY <1>2, <2>2, SMT
      <4>2. wire[i].part = "header" => wire[i].by \in Writers
        BY <4>1 DEF Pieces
      <4> QED
        BY <1>2, <1>3, <1>5, <2>2, <4>2, Zenon DEF WritersInv, FramesWhole
    <3>2. wire'[i] = wire[i] /\ i < Len(wire')
          /\ (i < Len(wire) => wire'[i + 1] = wire[i + 1])
          /\ (i > 1 => wire'[i - 1] = wire[i - 1])
      BY <1>5, <2>2, SMT
    <3> QED
      BY <3>1, <3>2, Zenon
  <2> QED
    BY <1>5, <2>1, <2>2, SMT
<1> QED
  BY <1>2, <1>3, <1>4, <1>5, <1>6, <1>7, <1>8, Zenon DEF WritersInv

\* The payload goes out behind the header that announces it.
LEMMA WritersPaying ==
    ASSUME WritersInv, NEW w \in Writers, WritePayload(w)
    PROVE  WritersInv'
<1> DEFINE pay == Payload(w, task[w])
<1>1. /\ pay = [part |-> "payload", by |-> w, len |-> task[w].len]
      /\ pay \in Pieces /\ pay.part = "payload"
  BY PayloadsFollow DEF WritersInv
<1>2. lock = w /\ wire \in Seq(Pieces) /\ w # "none" /\ task[w] \in Tasks
  BY DEF WritersInv, WritePayload, Writers
<1>3. /\ wire' = Append(wire, pay) /\ UNCHANGED <<input, framesRead, failures>>
      /\ lock' = "none" /\ Give(w, NoTask)
  BY DEF WritePayload, OnWrite
<1> HIDE DEF pay
<1>4. /\ wire' \in Seq(Pieces) /\ Len(wire') = Len(wire) + 1 /\ wire'[Len(wire) + 1] = pay
      /\ Len(wire) \in Nat /\ (wire # <<>> => Len(wire) > 0)
      /\ DOMAIN wire' = 1 .. Len(wire) + 1 /\ DOMAIN wire = 1 .. Len(wire)
      /\ \A i \in 1 .. Len(wire) : wire'[i] = wire[i]
  BY <1>1, <1>2, <1>3, SMT
<1>5. task' \in [Writers -> Tasks]
  BY <1>3, NoTaskIsTask DEF WritersInv, Give
<1>6. FramesWhole'
  <2> SUFFICES ASSUME failures' = 0, NEW i \in DOMAIN wire'
               PROVE  IF wire'[i].part = "header"
                      THEN \/ AnnouncedLength(wire'[i].bytes) = 0
                           \/ i < Len(wire')
                              /\ wire'[i + 1] = [part |-> "payload", by |-> wire'[i].by,
                                                 len |-> AnnouncedLength(wire'[i].bytes)]
                      ELSE i > 1 /\ wire'[i - 1].part = "header"
    BY DEF FramesWhole
  <2>1. /\ wire # <<>> /\ wire[Len(wire)] = Header(w, task[w])
        /\ Header(w, task[w]).part = "header" /\ Header(w, task[w]).by = w
        /\ AnnouncedLength(Header(w, task[w]).bytes) = task[w].len
    BY <1>2, <1>3, HeadersAnnounce DEF WritersInv
  <2>2. CASE i = Len(wire) + 1
    <3>1. i > 1 /\ i - 1 = Len(wire) /\ Len(wire) \in 1 .. Len(wire)
      BY <1>4, <2>1, <2>2, SMT
    <3> QED
      BY <1>1, <1>4, <2>1, <2>2, <3>1
  <2>3. CASE i = Len(wire)
    <3>1. i < Len(wire') /\ i + 1 = Len(wire) + 1 /\ wire'[i] = wire[Len(wire)]
      BY <1>4, <2>1, <2>3, SMT
    <3> QED
      BY <1>1, <1>4, <2>1, <3>1
  <2>4. CASE i \in 1 .. Len(wire) /\ i # Len(wire)
    <3>1. IF wire[i].part = "header"
          THEN \/ AnnouncedLength(wire[i].bytes) = 0
               \/ i < Len(wire)
                  /\ wire[i + 1] = [part |-> "payload", by |-> wire[i].by,
                                    len |-> AnnouncedLength(wire[i].bytes)]
          ELSE i > 1 /\ wire[i - 1].part = "header"
      BY <1>3, <1>4, <2>4, Zenon DEF WritersInv, FramesWhole
    <3>2. wire'[i] = wire[i] /\ i < Len(wire')
          /\ (i < Len(wire) => wire'[i + 1] = wire[i + 1])
          /\ (i > 1 => wire'[i - 1] = wire[i - 1])
      BY <1>4, <2>4, SMT
    <3> QED
      BY <3>1, <3>2, Zenon
  <2> QED
    BY <1>4, <2>2, <2>3, <2>4, SMT
<1> QED
  BY <1>3, <1>4, <1>5, <1>6, Zenon DEF WritersInv

\* Whoever gives up gives up writeMu; only a write to an open connection counts as
\* failed, and on a closed one a frame may be left without its payload.
LEMMA WritersFailing ==
    ASSUME WritersInv, NEW w \in Writers, WriteError(w)
    PROVE  WritersInv'
<1>1. /\ UNCHANGED <<input, framesRead, wire, closed>> /\ Give(w, NoTask)
      /\ (closed /\ failures' = failures) \/ failures' = failures + 1
      /\ lock = w \/ lock = "none"
      /\ lock' = IF lock = w THEN "none" ELSE lock
  BY DEF WriteError, OnWrite, Free
<1>2. lock' = "none"
  BY <1>1
<1>3. task' \in [Writers -> Tasks]
  BY <1>1, NoTaskIsTask DEF WritersInv, Give
<1>4. failures \in Nat /\ failures' \in Nat /\ (failures' = failures + 1 => failures' # 0)
  BY <1>1, SMT DEF WritersInv
<1>5. FramesWhole'
  <2>1. CASE failures' # 0
    BY <2>1 DEF FramesWhole
  <2>2. CASE closed /\ failures' = failures
    BY <1>1, <2>2, Zenon DEF WritersInv, FramesWhole
  <2> QED
    BY <1>1, <1>4, <2>1, <2>2
<1> QED
  BY <1>1, <1>2, <1>3, <1>4, <1>5, Zenon DEF WritersInv

LEMMA WritersStep == WritersInv /\ [FramesNext]_framesVars => WritersInv'
<1> SUFFICES ASSUME WritersInv, [FramesNext]_framesVars PROVE WritersInv'
  OBVIOUS
<1>1. CASE ReadFrame
  BY <1>1, WritersReading
<1>2. CASE ReadError \/ CloseConn \/ CloseNow \/ \E n \in Lengths : SendMessage(n)
  BY <1>2, WritersGiven
<1>3. ASSUME NEW w \in Writers, WriteHeader(w) PROVE WritersInv'
  BY <1>3, WritersHeading
<1>4. ASSUME NEW w \in Writers, WritePayload(w) PROVE WritersInv'
  BY <1>4, WritersPaying
<1>5. ASSUME NEW w \in Writers, WriteError(w) PROVE WritersInv'
  BY <1>5, WritersFailing
<1>6. CASE UNCHANGED framesVars
  <2>1. UNCHANGED <<input, framesRead, task, lock, wire, failures, closed>>
    BY <1>6 DEF framesVars
  <2> QED
    BY <2>1, GivingIsHarmless DEF WritersInv
<1> QED
  BY <1>1, <1>2, <1>3, <1>4, <1>5, <1>6 DEF FramesNext

\* FramesWhole, the frames of the pump, of the reader and of the handler in whatever
\* order: a connection that was open at every write that failed has been given whole
\* frames, each header followed at once by the payload, of the same writer, that it
\* announces, up to the last: the one that the holder of writeMu is writing, or that
\* conn.Close has cut, which Close calls after it has released writeMu.
THEOREM FramesAreWhole == FramesSpec => []FramesWhole
<1>1. WritersInv => FramesWhole
  BY DEF WritersInv
<1> QED
  BY <1>1, WritersInit, WritersStep, PTL DEF FramesSpec

-----------------------------------------------------------------------------
(* Sizes. *)

Sums(f, s) ==
    /\ f \in [0 .. Len(s) -> Nat]
    /\ f[0] = 0 /\ \A k \in 1 .. Len(s) : f[k] = f[k - 1] + s[k]

LEMMA SizeIsTheLastSum ==
    ASSUME NEW s \in Seq(Nat)
    PROVE  \E f : Sums(f, s) /\ Size(s) = f[Len(s)]
<1> DEFINE n == Len(s)
           step == [k \in Nat |-> [x \in Nat |-> IF k \in 1 .. n THEN x + s[k] ELSE x]]
           Eq(f) == f = [k \in 0 .. n |-> IF k = 0 THEN 0 ELSE f[k - 1] + s[k]]
<1>1. n \in Nat /\ \A k \in 1 .. n : s[k] \in Nat
  BY LenProperties, ElementOfSeq
<1>2. step \in [Nat -> [Nat -> Nat]]
  BY <1>1
<1>3. PICK f : Runs(f, n, Nat, 0, step)
  <2> HIDE DEF n, step
  <2> QED
    BY <1>1, <1>2, LoopsHaveValues
<1>4. ASSUME NEW k \in 1 .. n PROVE k - 1 \in 0 .. n /\ f[k] = f[k - 1] + s[k]
  <2>0. f[k] = step[k][f[k - 1]] /\ f \in [0 .. n -> Nat]
    <3> HIDE DEF n, step
    <3> QED
      BY <1>3 DEF Runs, Passes
  <2>1. f[k] = step[k][f[k - 1]] /\ f \in [0 .. n -> Nat] /\ k - 1 \in 0 .. n /\ k \in Nat
    BY <1>1, <2>0
  <2>2. f[k - 1] \in Nat
    BY <2>1
  <2>3. step[k][f[k - 1]] = f[k - 1] + s[k]
    BY <2>1, <2>2
  <2> HIDE DEF n, step
  <2> QED
    BY <2>1, <2>3
<1> HIDE DEF step
<1>5. f \in [0 .. n -> Nat] /\ f[0] = 0
  BY <1>3 DEF Runs, Passes
<1>6. Eq(f)
  BY <1>1, <1>4, <1>5
<1> DEFINE upTo == CHOOSE g : Eq(g)
<1>7. Eq(upTo)
  BY <1>6
<1>8. Size(s) = upTo[n]
  BY DEF Size
<1> HIDE DEF upTo
<1>9. \A k \in 0 .. n : upTo[k] = f[k]
  <2> DEFINE more == [k \in Nat |-> [x \in Nat |-> x + s[k]]]
             S == {k \in Nat : k <= n => upTo[k] = f[k]}
  <2>1. 0 \in S
    BY <1>1, <1>5, <1>7
  <2>2. ASSUME NEW k \in Nat, k \in S PROVE k + 1 \in S
    <3> SUFFICES ASSUME k + 1 <= n PROVE upTo[k + 1] = f[k + 1]
      OBVIOUS
    <3>1. k + 1 \in 1 .. n /\ k + 1 \in 0 .. n /\ k + 1 # 0 /\ k <= n /\ (k + 1) - 1 = k
      BY <1>1
    <3>2. upTo[k + 1] = upTo[k] + s[k + 1]
      BY <1>7, <3>1
    <3>3. f[k + 1] = f[k] + s[k + 1]
      BY <1>4, <3>1
    <3>4. upTo[k] = f[k]
      BY <2>2, <3>1
    <3> QED
      BY ONLY <3>2, <3>3, <3>4
  <2> HIDE DEF S
  <2>3. \A k \in Nat : k \in S
    BY <2>1, <2>2, EveryNumber
  <2> QED
    BY <1>1, <2>3 DEF S
<1> QED
  BY <1>1, <1>4, <1>5, <1>8, <1>9 DEF Sums

LEMMA SizesAdd ==
    /\ Size(<<>>) = 0
    /\ \A s \in Seq(Nat), n \in Nat :
          /\ Append(s, n) \in Seq(Nat) /\ Size(s) \in Nat
          /\ Size(Append(s, n)) = Size(s) + n
<1>1. Size(<<>>) = 0
  <2>1. <<>> \in Seq(Nat) /\ Len(<<>>) = 0
    BY EmptySeq
  <2>2. PICK f : Sums(f, <<>>) /\ Size(<<>>) = f[Len(<<>>)]
    BY <2>1, SizeIsTheLastSum
  <2> QED
    BY <2>1, <2>2 DEF Sums
<1>2. ASSUME NEW s \in Seq(Nat), NEW n \in Nat
      PROVE  /\ Append(s, n) \in Seq(Nat) /\ Size(s) \in Nat
             /\ Size(Append(s, n)) = Size(s) + n
  <2> DEFINE t == Append(s, n)
             l == Len(s)
             step == [k \in Nat |-> [x \in Nat |-> x + s[k]]]
  <2>1. /\ t \in Seq(Nat) /\ l \in Nat /\ Len(t) = l + 1 /\ t[l + 1] = n
        /\ \A k \in 1 .. l : t[k] = s[k]
    BY AppendProperties, LenProperties
  <2> HIDE DEF t
  <2>2. PICK f : Sums(f, s) /\ Size(s) = f[l]
    BY SizeIsTheLastSum
  <2>3. PICK g : Sums(g, t) /\ Size(t) = g[l + 1]
    BY <2>1, SizeIsTheLastSum
  <2> HIDE DEF l
  <2>4. f[0] = 0 /\ g[0] = 0
    BY <2>2, <2>3 DEF Sums
  <2>5. ASSUME NEW k \in 1 .. l
        PROVE  f[k] = step[k][f[k - 1]] /\ g[k] = step[k][g[k - 1]]
    <3>1. k \in 1 .. l + 1 /\ k - 1 \in 0 .. l /\ k - 1 \in 0 .. l + 1 /\ k \in Nat
      BY <2>1
    <3>2. f[k] = f[k - 1] + s[k] /\ f[k - 1] \in Nat
      BY <2>2, <3>1 DEF Sums, l
    <3>3. g[k] = g[k - 1] + s[k] /\ g[k - 1] \in Nat
      BY <2>1, <2>3, <3>1 DEF Sums
    <3> QED
      BY <3>1, <3>2, <3>3
  <2> HIDE DEF step
  <2>6. f[l] = g[l]
    <3>1. Passes(f, l, 0, step) /\ Passes(g, l, 0, step)
      BY <2>4, <2>5 DEF Passes
    <3>2. \A k \in 0 .. l : f[k] = g[k]
      BY <2>1, <3>1, LoopsHaveOneValue
    <3> QED
      BY <2>1, <3>2
  <2>7. f[l] \in Nat
    BY <2>1, <2>2 DEF Sums, l
  <2>8. g[l + 1] = g[l] + n
    <3>1. l + 1 \in 1 .. l + 1 /\ (l + 1) - 1 = l
      BY <2>1
    <3> QED
      BY <2>1, <2>3, <3>1 DEF Sums
  <2> QED
    BY <2>1, <2>2, <2>3, <2>6, <2>7, <2>8 DEF t
<1> QED
  BY <1>1, <1>2

-----------------------------------------------------------------------------
(* Places. *)

\* The places in a finite set of numbers go from 1 to the number of its members.
LEMMA PlacesAreFew ==
    ASSUME NEW S \in SUBSET Nat, IsFiniteSet(S), NEW i \in S
    PROVE  /\ Cardinality(S) \in Nat
           /\ Place(S, i) \in Nat /\ Place(S, i) <= Cardinality(S) /\ Place(S, i) >= 1
<1> DEFINE T == {j \in S : j <= i}
<1>1. T \in SUBSET S /\ i \in T
  OBVIOUS
<1>2. Place(S, i) = Cardinality(T)
  BY DEF Place
<1> HIDE DEF T
<1>3. /\ IsFiniteSet(T) /\ Cardinality(T) \in Nat /\ Cardinality(T) <= Cardinality(S)
      /\ Cardinality(S) \in Nat
  BY <1>1, FS_Subset, FS_CardinalityType
<1>4. Cardinality(T) # 0
  BY <1>1, <1>3, FS_EmptySet
<1> QED
  BY <1>2, <1>3, <1>4

\* Behind a number that is larger than those of a set, nobody's place changes.
LEMMA OneMore ==
    ASSUME NEW S \in SUBSET Nat, IsFiniteSet(S), NEW n \in Nat, \A i \in S : i < n
    PROVE  /\ IsFiniteSet(S \cup {n}) /\ Cardinality(S) \in Nat
           /\ Cardinality(S \cup {n}) = Cardinality(S) + 1
           /\ \A i \in S : Place(S \cup {n}, i) = Place(S, i)
           /\ Place(S \cup {n}, n) = Cardinality(S) + 1
<1>1. n \notin S
  <2>1. ~ n < n
    OBVIOUS
  <2> QED
    BY <2>1
<1>2. /\ IsFiniteSet(S \cup {n}) /\ Cardinality(S) \in Nat
      /\ Cardinality(S \cup {n}) = Cardinality(S) + 1
  BY <1>1, FS_AddElement, FS_CardinalityType
<1>3. ASSUME NEW i \in S PROVE Place(S \cup {n}, i) = Place(S, i)
  <2>1. ~ n <= i
    OBVIOUS
  <2>2. {j \in S \cup {n} : j <= i} = {j \in S : j <= i}
    BY <2>1
  <2> QED
    BY <2>2 DEF Place
<1>4. Place(S \cup {n}, n) = Cardinality(S) + 1
  <2>1. \A j \in S \cup {n} : j <= n
    OBVIOUS
  <2>2. {j \in S \cup {n} : j <= n} = S \cup {n}
    BY <2>1
  <2> QED
    BY <1>2, <2>2 DEF Place
<1> QED
  BY <1>2, <1>3, <1>4

-----------------------------------------------------------------------------
(* What has been read. *)

InputsTypeOK == input \in Inputs /\ framesRead \in Nat /\ framesRead <= Len(input)

\* The numbers of frames are finite sets, as far as the reader has come.
LEMMA ReadSoFar ==
    ASSUME InputsTypeOK
    PROVE  /\ \A ops : FramesOf(ops) \in SUBSET (1 .. framesRead)
           /\ \A S : S \in SUBSET (1 .. framesRead) =>
                 /\ IsFiniteSet(S) /\ Cardinality(S) \in Nat /\ S \in SUBSET Nat
                 /\ \A i \in S : i < framesRead + 1
           /\ Ends \in SUBSET (1 .. framesRead)
           /\ \A m : Fragments(m) \in SUBSET (1 .. framesRead)
<1>1. IsFiniteSet(1 .. framesRead) /\ framesRead \in Nat
  BY FS_Interval DEF InputsTypeOK
<1>2. ASSUME NEW S \in SUBSET (1 .. framesRead)
      PROVE  /\ IsFiniteSet(S) /\ Cardinality(S) \in Nat /\ S \in SUBSET Nat
             /\ \A i \in S : i < framesRead + 1
  <2>1. IsFiniteSet(S) /\ Cardinality(S) \in Nat
    BY <1>1, FS_Subset, FS_CardinalityType
  <2> QED
    BY <1>1, <2>1
<1>3. \A ops : FramesOf(ops) \in SUBSET (1 .. framesRead)
  BY DEF FramesOf
<1>4. Ends \in SUBSET (1 .. framesRead) /\ \A m : Fragments(m) \in SUBSET (1 .. framesRead)
  <2>1. Ends \subseteq FramesOf(Data) /\ \A m : Fragments(m) \subseteq FramesOf(Data)
    BY DEF Ends, Fragments
  <2> QED
    BY <1>3, <2>1
<1> QED
  BY <1>2, <1>3, <1>4

\* No frame is behind more ends than there are.
LEMMA FragmentsOfMessages ==
    ASSUME InputsTypeOK
    PROVE  /\ Cardinality(Ends) \in Nat
           /\ \A m \in Nat : m > Cardinality(Ends) + 1 => Fragments(m) = {}
<1>1. Cardinality(Ends) \in Nat /\ IsFiniteSet(Ends)
  BY ReadSoFar
<1>2. ASSUME NEW m \in Nat, m > Cardinality(Ends) + 1, NEW i \in Fragments(m)
      PROVE  FALSE
  <2> DEFINE E == {e \in Ends : e < i}
  <2>1. E \in SUBSET Ends
    OBVIOUS
  <2>2. Cardinality(E) = m - 1
    BY DEF Fragments
  <2> HIDE DEF E
  <2>3. Cardinality(E) <= Cardinality(Ends)
    BY <1>1, <2>1, FS_Subset
  <2> QED
    BY <1>1, <1>2, <2>2, <2>3
<1> QED
  BY <1>1, <1>2

\* One frame more is one number more, in the sets that it belongs to.
LEMMA OneFrameMore ==
    ASSUME InputsTypeOK, framesRead < Len(input), framesRead' = framesRead + 1, input' = input
    PROVE  LET n == framesRead + 1
               frame == input[n]
           IN  /\ InputsTypeOK' /\ frame \in [op : Nat, fin : BOOLEAN, len : 0 .. Radix8 - 1]
               /\ frame.op \in Nat /\ frame.fin \in BOOLEAN
               /\ frame.len \in Nat
               /\ \A ops : FramesOf(ops)' = IF frame.op \in ops THEN FramesOf(ops) \cup {n}
                                            ELSE FramesOf(ops)
               /\ Ends' = IF frame.op \in Data /\ frame.fin THEN Ends \cup {n} ELSE Ends
               /\ \A m \in Nat :
                     Fragments(m)' =
                        IF frame.op \in Data /\ m = Cardinality(Ends) + 1
                        THEN Fragments(m) \cup {n} ELSE Fragments(m)
<1> DEFINE n == framesRead + 1
           frame == input[n]
<1>1. framesRead \in Nat /\ input \in Inputs /\ n \in Nat /\ n \in 1 .. Len(input)
      /\ 1 .. n = (1 .. framesRead) \cup {n}
  <2>1. framesRead \in Nat /\ input \in Inputs /\ Len(input) \in Nat
    <3>1. input \in Seq([op : Nat, fin : BOOLEAN, len : 0 .. Radix8 - 1])
      BY FrameInputsAssumption DEF InputsTypeOK
    <3> QED
      BY <3>1, LenProperties DEF InputsTypeOK
  <2> QED
    BY <2>1
<1>2. InputsTypeOK'
  BY <1>1 DEF InputsTypeOK
<1>3. /\ frame \in [op : Nat, fin : BOOLEAN, len : 0 .. Radix8 - 1]
      /\ frame.op \in Nat /\ frame.fin \in BOOLEAN
      /\ frame.len \in Nat
  BY <1>1, PeersFrames
<1>4. ASSUME NEW ops
      PROVE  FramesOf(ops)' = IF frame.op \in ops THEN FramesOf(ops) \cup {n} ELSE FramesOf(ops)
  <2>1. FramesOf(ops)' = {i \in (1 .. framesRead) \cup {n} : input[i].op \in ops}
    BY <1>1 DEF FramesOf
  <2>2. FramesOf(ops) = {i \in 1 .. framesRead : input[i].op \in ops}
    BY DEF FramesOf
  <2> QED
    BY <2>1, <2>2
<1> HIDE DEF n
<1>5. Ends' = IF frame.op \in Data /\ frame.fin THEN Ends \cup {n} ELSE Ends
  <2>1. FramesOf(Data)' = IF frame.op \in Data THEN FramesOf(Data) \cup {n} ELSE FramesOf(Data)
    BY <1>4
  <2>2. Ends' = {i \in FramesOf(Data)' : input[i].fin}
    BY DEF Ends, Data
  <2>3. Ends = {i \in FramesOf(Data) : input[i].fin}
    BY DEF Ends
  <2> QED
    BY <2>1, <2>2, <2>3
<1>6. ASSUME NEW m \in Nat
      PROVE  Fragments(m)' = IF frame.op \in Data /\ m = Cardinality(Ends) + 1
                             THEN Fragments(m) \cup {n} ELSE Fragments(m)
  <2> DEFINE before(i) == {e \in Ends : e < i}
             after(i) == {e \in Ends' : e < i}
  <2>1. FramesOf(Data)' = IF frame.op \in Data THEN FramesOf(Data) \cup {n} ELSE FramesOf(Data)
    BY <1>4
  <2>2. Fragments(m)' = {i \in FramesOf(Data)' : Cardinality(after(i)) = m - 1}
    BY DEF Fragments, Data
  <2>3. Fragments(m) = {i \in FramesOf(Data) : Cardinality(before(i)) = m - 1}
    BY DEF Fragments
  <2>4. ASSUME NEW i \in FramesOf(Data) PROVE after(i) = before(i)
    <3>1. i \in 1 .. framesRead
      BY ReadSoFar
    <3>2. ~ n < i
      BY <1>1, <3>1 DEF n
    <3> QED
      BY <1>5, <3>2
  <2>5. after(n) = Ends
    <3>1. \A e \in Ends : e < n
      BY ReadSoFar DEF n
    <3>2. ~ n < n
      BY <1>1
    <3> QED
      BY <1>5, <3>1, <3>2
  <2>6. Cardinality(Ends) = m - 1 <=> m = Cardinality(Ends) + 1
    BY FragmentsOfMessages
  <2>7. \A i \in FramesOf(Data) : Cardinality(after(i)) = Cardinality(before(i))
    BY <2>4
  <2>8. Cardinality(after(n)) = Cardinality(Ends)
    BY <2>5
  <2> HIDE DEF before, after
  <2> QED
    BY <2>1, <2>2, <2>3, <2>6, <2>7, <2>8
<1> QED
  BY <1>2, <1>3, <1>4, <1>5, <1>6 DEF n

-----------------------------------------------------------------------------
(* The messages that are delivered. *)

\* The fragments whose numbers are F have these lengths, in their order.
Assembles(lengths, F, frames) ==
    /\ lengths \in Seq(Nat) /\ Len(lengths) = Cardinality(F)
    /\ \A i \in F : lengths[Place(F, i)] = frames[i].len

\* A message that a frame as long as may be has made longer than may be.
Bounded(lengths) == Size(lengths) <= 2 * wsMaxFrameBytes

\* What is delivered are the messages that have ended; what is assembled, as long as the
\* reader reads, are the fragments of the next one.
MessagesInv ==
    /\ InputsTypeOK /\ delivered \in Seq(Seq(Nat))
    /\ Len(delivered) <= Cardinality(Ends)
    /\ \A m \in 1 .. Len(delivered) :
          Assembles(delivered[m], Fragments(m), input) /\ Bounded(delivered[m])
    /\ reading => /\ Len(delivered) = Cardinality(Ends)
                  /\ Assembles(msg, Fragments(Cardinality(Ends) + 1), input)
                  /\ ~ Size(msg) > wsMaxFrameBytes

\* A message that has one more fragment is as long as its fragments, and in their order.
LEMMA MessagesGrow ==
    ASSUME NEW n \in Nat, NEW F \in SUBSET Nat, IsFiniteSet(F), \A i \in F : i < n,
           NEW frames, NEW length \in Nat, length = frames[n].len,
           NEW lengths, Assembles(lengths, F, frames)
    PROVE  Assembles(Append(lengths, length), F \cup {n}, frames)
<1> DEFINE t == Append(lengths, length)
<1>1. /\ Cardinality(F) \in Nat /\ Cardinality(F \cup {n}) = Cardinality(F) + 1
      /\ \A i \in F : /\ Place(F \cup {n}, i) = Place(F, i)
                      /\ Place(F, i) \in 1 .. Cardinality(F)
      /\ Place(F \cup {n}, n) = Cardinality(F) + 1
  <2>1. /\ Cardinality(F) \in Nat /\ Cardinality(F \cup {n}) = Cardinality(F) + 1
        /\ \A i \in F : Place(F \cup {n}, i) = Place(F, i)
        /\ Place(F \cup {n}, n) = Cardinality(F) + 1
    BY OneMore
  <2>2. \A i \in F : Place(F, i) \in Nat /\ Place(F, i) <= Cardinality(F) /\ Place(F, i) >= 1
    BY PlacesAreFew
  <2> QED
    BY <2>1, <2>2
<1>2. /\ lengths \in Seq(Nat) /\ Len(lengths) = Cardinality(F)
      /\ \A i \in F : lengths[Place(F, i)] = frames[i].len
  BY DEF Assembles
<1>3. /\ t \in Seq(Nat) /\ Len(t) = Cardinality(F) + 1 /\ t[Cardinality(F) + 1] = length
      /\ \A k \in 1 .. Cardinality(F) : t[k] = lengths[k]
  BY <1>2, AppendProperties
<1> HIDE DEF t
<1>4. ASSUME NEW i \in F \cup {n} PROVE t[Place(F \cup {n}, i)] = frames[i].len
  <2>1. CASE i = n
    BY <1>1, <1>3, <2>1
  <2>2. CASE i \in F
    BY <1>1, <1>2, <1>3, <2>2
  <2> QED
    BY <2>1, <2>2
<1> QED
  BY <1>1, <1>3, <1>4 DEF Assembles, t

LEMMA NoMessageYet ==
    ASSUME NEW frames
    PROVE  Assembles(<<>>, {}, frames) /\ ~ Size(<<>>) > wsMaxFrameBytes
<1>1. <<>> \in Seq(Nat) /\ Len(<<>>) = 0 /\ Cardinality({}) = 0
  BY EmptySeq, FS_EmptySet
<1>2. Size(<<>>) = 0 /\ wsMaxFrameBytes \in Nat
  BY SizesAdd, FrameBytesAssumption, SMT
<1> QED
  BY <1>1, <1>2 DEF Assembles

LEMMA MessagesInit == FramesInit => MessagesInv
<1> SUFFICES ASSUME FramesInit PROVE MessagesInv
  OBVIOUS
<1>1. /\ input \in Inputs /\ framesRead = 0 /\ msg = <<>> /\ delivered = <<>> /\ reading = TRUE
  BY DEF FramesInit
<1>2. InputsTypeOK
  <2>1. input \in Seq([op : Nat, fin : BOOLEAN, len : 0 .. Radix8 - 1])
    BY <1>1, FrameInputsAssumption
  <2>2. Len(input) \in Nat
    BY <2>1, LenProperties
  <2> QED
    BY <1>1, <2>2 DEF InputsTypeOK
<1>3. 1 .. framesRead = {}
  BY <1>1
<1>4. Ends = {} /\ Fragments(1) = {}
  BY <1>2, <1>3, ReadSoFar
<1>5. Cardinality(Ends) = 0
  BY <1>4, FS_EmptySet
<1>6. delivered \in Seq(Seq(Nat)) /\ Len(delivered) = 0 /\ 1 .. Len(delivered) = {}
  BY <1>1, EmptySeq
<1>7. Cardinality(Ends) + 1 = 1 /\ Len(delivered) <= Cardinality(Ends)
  BY <1>5, <1>6
<1> QED
  BY <1>1, <1>2, <1>4, <1>5, <1>6, <1>7, NoMessageYet DEF MessagesInv

\* Nothing else reads, and the reader stops for good.
LEMMA MessagesStay ==
    ASSUME MessagesInv, UNCHANGED <<input, framesRead, msg, delivered>>,
           reading' = reading \/ reading' = FALSE
    PROVE  MessagesInv'
<1>1. Ends' = Ends /\ \A m : Fragments(m)' = Fragments(m)
  BY DEF Ends, Fragments, FramesOf
<1>2. InputsTypeOK'
  BY Zenon DEF InputsTypeOK, MessagesInv
<1>3. CASE reading' = reading
  BY <1>1, <1>2, <1>3, Zenon DEF MessagesInv
<1>4. CASE reading' = FALSE
  BY <1>1, <1>2, <1>4, Zenon DEF MessagesInv
<1> QED
  BY <1>3, <1>4

LEMMA MessagesReading == ASSUME MessagesInv, ReadFrame PROVE MessagesInv'
<1> PICK n : n = framesRead + 1
  OBVIOUS
<1> PICK E : E = Cardinality(Ends)
  OBVIOUS
<1> PICK frame : frame = input[framesRead + 1]
  OBVIOUS
<1> DEFINE length == frame.len
           m0 == E + 1
           data == frame.op \in Data
<1>1. /\ reading /\ task["reader"] = NoTask /\ input' = input
      /\ framesRead < Len(input) /\ framesRead' = framesRead + 1
  BY DEF ReadFrame, CanRead
<1>2. /\ InputsTypeOK /\ delivered \in Seq(Seq(Nat)) /\ Len(delivered) = E
      /\ Assembles(msg, Fragments(m0), input) /\ ~ Size(msg) > wsMaxFrameBytes
      /\ \A m \in 1 .. E : Assembles(delivered[m], Fragments(m), input) /\ Bounded(delivered[m])
  BY <1>1, Zenon DEF MessagesInv
<1>3. /\ InputsTypeOK' /\ frame.op \in Nat /\ frame.fin \in BOOLEAN
      /\ length \in Nat
      /\ Ends' = IF data /\ frame.fin THEN Ends \cup {n} ELSE Ends
      /\ \A m \in Nat : Fragments(m)' = IF data /\ m = m0
                                        THEN Fragments(m) \cup {n} ELSE Fragments(m)
  BY <1>1, <1>2, OneFrameMore
<1>4. /\ E \in Nat /\ m0 \in Nat /\ n \in Nat
      /\ IsFiniteSet(Ends) /\ Ends \in SUBSET Nat /\ \A i \in Ends : i < n
      /\ \A m : IsFiniteSet(Fragments(m)) /\ Fragments(m) \in SUBSET Nat
                /\ \A i \in Fragments(m) : i < n
      /\ Fragments(m0 + 1) = {}
  <2>1. n \in Nat /\ E \in Nat /\ m0 \in Nat /\ m0 + 1 \in Nat /\ m0 + 1 > E + 1
    BY <1>2, ReadSoFar DEF InputsTypeOK
  <2>2. Fragments(m0 + 1) = {}
    BY <1>2, <2>1, FragmentsOfMessages
  <2>3. IsFiniteSet(Ends) /\ Ends \in SUBSET Nat /\ \A i \in Ends : i < n
    BY <1>2, ReadSoFar
  <2>4. \A m : IsFiniteSet(Fragments(m)) /\ Fragments(m) \in SUBSET Nat
                /\ \A i \in Fragments(m) : i < n
    BY <1>2, ReadSoFar
  <2> QED
    BY <2>1, <2>2, <2>3, <2>4
<1>5. Cardinality(Ends \cup {n}) = m0
  BY <1>4, OneMore
<1>6. \/ StopReading
      \/ data /\ ~ length > wsMaxFrameBytes /\ TakeData(frame, length)
      \/ ~ data /\ (TakeClose \/ TakeControl(frame, length))
  BY <1>2, ControlFrames, FramesAreTaken DEF InputsTypeOK
<1> HIDE DEF data, length
<1>7. /\ m0 # m0 + 1 /\ m0 + 1 \in Nat /\ E <= m0 /\ E <= E /\ m0 <= m0 /\ E + 1 = m0
      /\ 1 .. m0 = (1 .. E) \cup {m0}
      /\ \A m \in 1 .. E : m \in Nat /\ m # m0
  BY <1>4
<1> HIDE DEF m0
<1>8. \A m \in 1 .. E : /\ Fragments(m)' = Fragments(m)
                         /\ Assembles(delivered[m], Fragments(m), input)
                         /\ Bounded(delivered[m])
  BY <1>2, <1>3, <1>7, Zenon
<1>9. CASE StopReading
  <2>1. reading' = FALSE /\ msg' = msg /\ delivered' = delivered
    BY <1>9 DEF StopReading
  <2>2. Cardinality(Ends') = E \/ Cardinality(Ends') = m0
    BY <1>3, <1>5, Zenon
  <2>3. Len(delivered) <= Cardinality(Ends')
    BY <1>2, <1>7, <2>2, Zenon
  <2> QED
    BY <1>1, <1>2, <1>3, <1>8, <2>1, <2>3, Zenon DEF MessagesInv
<1>10. CASE ~ data /\ (TakeClose \/ TakeControl(frame, length))
  <2>1. /\ msg' = msg /\ delivered' = delivered
        /\ (reading' => reading)
    BY <1>1, <1>10 DEF TakeClose, TakeControl
  <2>2. Ends' = Ends /\ Fragments(m0)' = Fragments(m0)
    BY <1>3, <1>4, <1>10, Zenon
  <2> QED
    BY <1>1, <1>2, <1>3, <1>7, <1>8, <2>1, <2>2, Zenon DEF MessagesInv
<1>11. CASE data /\ ~ length > wsMaxFrameBytes /\ TakeData(frame, length)
  <2> PICK t : t = Append(msg, length)
    OBVIOUS
  <2>1. Assembles(t, Fragments(m0)', input) /\ t \in Seq(Nat)
    <3>1. Fragments(m0)' = Fragments(m0) \cup {n}
      BY <1>3, <1>4, <1>11, Zenon
    <3>2. length = input[n].len
      BY DEF length
    <3> PICK F : F = Fragments(m0)
      OBVIOUS
    <3>3. Assembles(msg, F, input) /\ IsFiniteSet(F) /\ F \in SUBSET Nat /\ \A i \in F : i < n
      BY <1>2, <1>4, Zenon
    <3>4. length \in Nat /\ n \in Nat
      BY <1>3, <1>4, Zenon
    <3>5. Assembles(Append(msg, length), F \cup {n}, input)
      BY ONLY <3>2, <3>3, <3>4, MessagesGrow
    <3> QED
      BY <3>1, <3>5 DEF Assembles
  <2>2. Bounded(t)
    <3>1. msg \in Seq(Nat)
      BY <1>2 DEF Assembles
    <3>2. Size(t) = Size(msg) + length /\ Size(msg) \in Nat
      BY <1>3, <3>1, SizesAdd
    <3>3. wsMaxFrameBytes \in Nat
      BY FrameBytesAssumption, SMT
    <3> QED
      BY <1>2, <1>3, <1>11, <3>2, <3>3 DEF Bounded
  <2>3. CASE frame.fin
    <3>1. delivered' = Append(delivered, t) /\ msg' = <<>> /\ reading' = reading
      BY <1>11, <2>3 DEF TakeData
    <3>2. Cardinality(Ends') = m0 /\ Cardinality(Ends') + 1 = m0 + 1
      BY <1>3, <1>5, <1>11, <2>3, Zenon
    <3>3. Fragments(m0 + 1)' = {}
      BY <1>3, <1>4, <1>7, Zenon
    <3>4. /\ delivered' \in Seq(Seq(Nat)) /\ Len(delivered') = m0 /\ delivered'[m0] = t
          /\ \A m \in 1 .. E : delivered'[m] = delivered[m]
      <4>1. t \in Seq(Nat) /\ delivered \in Seq(Seq(Nat)) /\ Len(delivered) = E
        BY <1>2, <2>1, Zenon
      <4>2. /\ Append(delivered, t) \in Seq(Seq(Nat))
            /\ Len(Append(delivered, t)) = Len(delivered) + 1
            /\ Append(delivered, t)[Len(delivered) + 1] = t
            /\ \A m \in 1 .. Len(delivered) : Append(delivered, t)[m] = delivered[m]
        BY ONLY <4>1, AppendProperties
      <4> QED
        BY <1>7, <3>1, <4>1, <4>2, Zenon
    <3>5. \A m \in 1 .. m0 : Assembles(delivered'[m], Fragments(m)', input) /\ Bounded(delivered'[m])
      BY <1>7, <1>8, <2>1, <2>2, <3>4, Zenon
    <3>6. Assembles(<<>>, {}, input) /\ ~ Size(<<>>) > wsMaxFrameBytes
      BY NoMessageYet
    <3>7. /\ Len(delivered') <= Cardinality(Ends') /\ Len(delivered') = Cardinality(Ends')
          /\ Assembles(msg', Fragments(m0 + 1)', input) /\ ~ Size(msg') > wsMaxFrameBytes
      BY <1>7, <3>1, <3>2, <3>3, <3>4, <3>6, Zenon
    <3> QED
      BY <1>1, <1>3, <3>1, <3>2, <3>4, <3>5, <3>7, Zenon DEF MessagesInv
  <2>4. CASE ~ frame.fin
    <3>1. /\ delivered' = delivered
          /\ \/ reading' = FALSE /\ msg' = msg
             \/ reading' = reading /\ msg' = t /\ ~ Size(t) > wsMaxFrameBytes
      BY <1>11, <2>4 DEF TakeData, StopReading
    <3>2. Ends' = Ends
      BY <1>3, <2>4, Zenon
    <3> QED
      BY <1>1, <1>2, <1>3, <1>7, <1>8, <2>1, <3>1, <3>2, Zenon DEF MessagesInv
  <2> QED
    BY <2>3, <2>4
<1> QED
  BY <1>6, <1>9, <1>10, <1>11

-----------------------------------------------------------------------------
(* The pings that are answered. *)

\* The headers at P have the lengths of the frames at Q, in their order.
Answers(P, Q, pieces, frames) ==
    \A p \in P, q \in Q :
        Place(P, p) = Place(Q, q) => AnnouncedLength(pieces[p].bytes) = frames[q].len

\* A ping more is not answered yet.
LEMMA PingsToAnswer ==
    ASSUME NEW P \in SUBSET Nat, IsFiniteSet(P), NEW Q \in SUBSET Nat, IsFiniteSet(Q),
           Cardinality(P) <= Cardinality(Q), NEW n \in Nat, \A i \in Q : i < n,
           NEW pieces, NEW frames, Answers(P, Q, pieces, frames)
    PROVE  /\ Answers(P, Q \cup {n}, pieces, frames)
           /\ Cardinality(Q \cup {n}) = Cardinality(Q) + 1
           /\ \A q \in Q \cup {n} : Place(Q \cup {n}, q) = Cardinality(Q) + 1 => q = n
<1>1. /\ Cardinality(Q) \in Nat /\ Cardinality(Q \cup {n}) = Cardinality(Q) + 1
      /\ \A q \in Q : Place(Q \cup {n}, q) = Place(Q, q)
      /\ Place(Q \cup {n}, n) = Cardinality(Q) + 1
  BY OneMore
<1>2. \A q \in Q : Place(Q, q) \in Nat /\ Place(Q, q) <= Cardinality(Q)
  BY PlacesAreFew
<1>3. \A p \in P : /\ Place(P, p) \in Nat /\ Place(P, p) <= Cardinality(P)
                   /\ Cardinality(P) \in Nat
  BY PlacesAreFew
<1>4. \A p \in P : Place(P, p) # Cardinality(Q) + 1
  BY <1>1, <1>3
<1>5. ASSUME NEW p \in P, NEW q \in Q \cup {n}, Place(P, p) = Place(Q \cup {n}, q)
      PROVE  AnnouncedLength(pieces[p].bytes) = frames[q].len
  <2>1. q # n
    BY <1>1, <1>4, <1>5
  <2> QED
    BY <1>1, <1>5, <2>1 DEF Answers
<1>6. \A q \in Q \cup {n} : Place(Q \cup {n}, q) = Cardinality(Q) + 1 => q = n
  BY <1>1, <1>2
<1>7. Answers(P, Q \cup {n}, pieces, frames)
  BY <1>5 DEF Answers
<1> QED
  BY <1>1, <1>6, <1>7

\* A pong more answers the last ping.
LEMMA PongsAnswerPings ==
    ASSUME NEW P \in SUBSET Nat, IsFiniteSet(P), NEW Q \in SUBSET Nat, IsFiniteSet(Q),
           Cardinality(P) + 1 = Cardinality(Q), NEW n \in Nat, \A i \in P : i < n,
           NEW pieces, NEW frames, Answers(P, Q, pieces, frames),
           NEW more, \A p \in P : more[p] = pieces[p],
           \A q \in Q : Place(Q, q) = Cardinality(Q) =>
                            AnnouncedLength(more[n].bytes) = frames[q].len
    PROVE  /\ Answers(P \cup {n}, Q, more, frames)
           /\ Cardinality(P \cup {n}) = Cardinality(Q)
<1>1. /\ Cardinality(P) \in Nat /\ Cardinality(P \cup {n}) = Cardinality(P) + 1
      /\ \A p \in P : Place(P \cup {n}, p) = Place(P, p)
      /\ Place(P \cup {n}, n) = Cardinality(P) + 1
  BY OneMore
<1>2. ASSUME NEW p \in P \cup {n}, NEW q \in Q, Place(P \cup {n}, p) = Place(Q, q)
      PROVE  AnnouncedLength(more[p].bytes) = frames[q].len
  <2>1. CASE p = n
    BY <1>1, <1>2, <2>1
  <2>2. CASE p \in P
    BY <1>1, <1>2, <2>2 DEF Answers
  <2> QED
    BY <2>1, <2>2
<1> QED
  BY <1>1, <1>2 DEF Answers

\* The reader has a pong to write and has not begun.
Owes == task["reader"].op = Pong /\ lock # "reader"

\* Every ping that was read has its pong on the connection, the last one perhaps only
\* as the task of the reader, which reads no more before it is written.
PongsInv ==
    /\ \A w \in Writers \ {"reader"} : task[w].op # Pong
    /\ failures = 0 /\ ~ closed =>
          /\ Answers(Pongs, Pings, wire, input)
          /\ Owes => /\ Cardinality(Pongs) + 1 = Cardinality(Pings)
                     /\ \A q \in Pings : Place(Pings, q) = Cardinality(Pings) =>
                                             task["reader"].len = input[q].len
          /\ ~ Owes => /\ Cardinality(Pongs) <= Cardinality(Pings)
                       /\ reading => Cardinality(Pongs) = Cardinality(Pings)

\* The connection is given a piece more.
LEMMA PongsWritten ==
    ASSUME wire \in Seq(Pieces)
    PROVE  LET n == Len(wire) + 1
           IN  /\ n \in Nat /\ Pongs \in SUBSET Nat /\ IsFiniteSet(Pongs)
               /\ Cardinality(Pongs) \in Nat /\ \A i \in Pongs : i < n
               /\ \A piece \in Pieces :
                     wire' = Append(wire, piece) =>
                        /\ \A p \in Pongs : wire'[p] = wire[p]
                        /\ wire'[n] = piece
                        /\ Pongs' = IF piece.part = "header" /\ piece.op = Pong
                                    THEN Pongs \cup {n} ELSE Pongs
<1> DEFINE n == Len(wire) + 1
<1>1. Len(wire) \in Nat /\ DOMAIN wire = 1 .. Len(wire) /\ n \in Nat
  BY LenProperties
<1>2. Pongs \in SUBSET (1 .. Len(wire)) /\ IsFiniteSet(1 .. Len(wire))
  BY <1>1, FS_Interval DEF Pongs
<1>3. IsFiniteSet(Pongs) /\ Cardinality(Pongs) \in Nat
  BY <1>2, FS_Subset, FS_CardinalityType
<1>4. Pongs \in SUBSET Nat /\ \A i \in Pongs : i < n
  BY <1>1, <1>2
<1>5. ASSUME NEW piece \in Pieces, wire' = Append(wire, piece)
      PROVE  /\ \A p \in Pongs : wire'[p] = wire[p]
             /\ wire'[n] = piece
             /\ Pongs' = IF piece.part = "header" /\ piece.op = Pong
                         THEN Pongs \cup {n} ELSE Pongs
  <2>1. /\ wire' \in Seq(Pieces) /\ Len(wire') = n /\ wire'[n] = piece
        /\ \A i \in 1 .. Len(wire) : wire'[i] = wire[i]
    BY ONLY <1>5, wire \in Seq(Pieces), piece \in Pieces, AppendProperties
  <2>2. DOMAIN wire' = (1 .. Len(wire)) \cup {n}
    <3>1. DOMAIN wire' = 1 .. n
      BY <2>1, LenProperties
    <3> QED
      BY <1>1, <3>1
  <2>3. Pongs' = {i \in DOMAIN wire' : wire'[i].part = "header" /\ wire'[i].op = Pong}
    BY DEF Pongs, Pong
  <2>4. Pongs = {i \in 1 .. Len(wire) : wire[i].part = "header" /\ wire[i].op = Pong}
    BY <1>1 DEF Pongs
  <2> HIDE DEF n
  <2>5. \A i : i \in Pongs' <=> i \in (IF piece.part = "header" /\ piece.op = Pong
                                       THEN Pongs \cup {n} ELSE Pongs)
    BY <2>1, <2>2, <2>3, <2>4
  <2> QED
    BY <1>2, <2>1, <2>5
<1> QED
  BY <1>1, <1>3, <1>4, <1>5

LEMMA OtherOpcodes ==
    /\ \A len : /\ Frame(CloseOp, TRUE, len).op # Pong /\ Frame(Text, TRUE, len).op # Pong
                /\ Frame(Pong, TRUE, len).op = Pong /\ Frame(Pong, TRUE, len).len = len
    /\ NoTask.op # Pong /\ Ping # Pong /\ Ping # CloseOp /\ Ping \notin Data
    /\ NoTask.len = 0
  BY SMT DEF Frame, NoTask, CloseOp, Text, Ping, Pong, Data

LEMMA PongsInit == FramesInit => PongsInv
<1> SUFFICES ASSUME FramesInit PROVE PongsInv
  OBVIOUS
<1>1. wire = <<>> /\ framesRead = 0 /\ task = [w \in Writers |-> NoTask]
  BY DEF FramesInit
<1>2. DOMAIN wire = {} /\ 1 .. framesRead = {}
  BY <1>1
<1>3. Pongs = {} /\ Pings = {}
  BY <1>2 DEF Pongs, Pings, FramesOf
<1>4. \A w \in Writers : task[w].op # Pong
  BY <1>1, OtherOpcodes, Zenon
<1>5. Cardinality({}) = 0 /\ 0 <= 0
  BY FS_EmptySet
<1>6. "reader" \in Writers
  BY DEF Writers
<1> QED
  BY <1>3, <1>4, <1>5, <1>6, Zenon DEF PongsInv, Owes, Answers

\* Neither a ping nor a pong more, and the reader owes what it owed.
LEMMA PongsStay ==
    ASSUME PongsInv, Pongs' = Pongs, Pings' = Pings, input' = input,
           \A p \in Pongs : wire'[p] = wire[p],
           \A w \in Writers \ {"reader"} : task'[w].op # Pong,
           Owes' => Owes /\ task'["reader"] = task["reader"], Owes => Owes',
           failures' = 0 /\ ~ closed' => failures = 0 /\ ~ closed,
           reading' => reading
    PROVE  PongsInv'
<1> SUFFICES ASSUME failures' = 0, ~ closed'
             PROVE  /\ Answers(Pongs, Pings, wire', input)
                    /\ Owes' => /\ Cardinality(Pongs) + 1 = Cardinality(Pings)
                                /\ \A q \in Pings : Place(Pings, q) = Cardinality(Pings) =>
                                                        task'["reader"].len = input[q].len
                    /\ ~ Owes' => /\ Cardinality(Pongs) <= Cardinality(Pings)
                                  /\ reading' => Cardinality(Pongs) = Cardinality(Pings)
  BY Zenon DEF PongsInv, Pong
<1>1. failures = 0 /\ ~ closed
  OBVIOUS
<1>2. Answers(Pongs, Pings, wire, input)
  BY <1>1, Zenon DEF PongsInv
<1>3. Answers(Pongs, Pings, wire', input)
  BY <1>2 DEF Answers
<1> QED
  BY <1>1, <1>3, Zenon DEF PongsInv

\* The reader, which has nothing to write while it reads, takes a frame.
LEMMA PongsReading == ASSUME WritersInv, InputsTypeOK, PongsInv, ReadFrame PROVE PongsInv'
<1> PICK n : n = framesRead + 1
  OBVIOUS
<1> PICK frame : frame = input[framesRead + 1]
  OBVIOUS
<1>1. /\ reading /\ task["reader"] = NoTask /\ input' = input
      /\ framesRead < Len(input) /\ framesRead' = framesRead + 1
      /\ UNCHANGED <<lock, wire, failures, closed>>
  BY DEF ReadFrame, CanRead
<1>2. /\ frame.len \in Nat
      /\ \A ops : FramesOf(ops)' = IF frame.op \in ops THEN FramesOf(ops) \cup {n}
                                   ELSE FramesOf(ops)
  BY <1>1, OneFrameMore
<1>3. Pings' = IF frame.op = Ping THEN Pings \cup {n} ELSE Pings
  BY <1>2 DEF Pings, Ping
<1>4. Pongs' = Pongs
  BY <1>1 DEF Pongs, Pong
<1>5. /\ Pings \in SUBSET Nat /\ IsFiniteSet(Pings) /\ Cardinality(Pings) \in Nat
      /\ n \in Nat /\ \A i \in Pings : i < n
  BY ReadSoFar DEF Pings, InputsTypeOK
<1>6. Pongs \in SUBSET Nat /\ IsFiniteSet(Pongs) /\ Cardinality(Pongs) \in Nat
  BY PongsWritten DEF WritersInv
<1>7. lock # "reader" /\ ~ Owes /\ task \in [Writers -> Tasks] /\ "reader" \in Writers
  <2>1. lock = "reader" => task["reader"].len > 0
    BY DEF WritersInv
  <2>2. ~ 0 > 0
    BY SMT
  <2> QED
    BY <1>1, <2>1, <2>2, OtherOpcodes, Zenon DEF WritersInv, Owes, Writers
<1>8. \/ StopReading
      \/ frame.op \in Data /\ TakeData(frame, frame.len)
      \/ frame.op = CloseOp /\ TakeClose
      \/ frame.op \in {Ping, Pong} /\ TakeControl(frame, frame.len)
  BY FramesAreTaken DEF InputsTypeOK
<1>9. \/ UNCHANGED task /\ (frame.op # Ping \/ ~ reading')
      \/ \E len : task' = [task EXCEPT !["reader"] = Frame(CloseOp, TRUE, len)] /\ frame.op # Ping
      \/ /\ frame.op = Ping /\ reading' = reading
         /\ task' = [task EXCEPT !["reader"] = Frame(Pong, TRUE, frame.len)]
  <2>1. CASE StopReading
    BY <2>1 DEF StopReading
  <2>2. CASE frame.op \in Data /\ TakeData(frame, frame.len)
    BY <2>2, OtherOpcodes DEF TakeData, StopReading
  <2>3. CASE frame.op = CloseOp /\ TakeClose
    BY <2>3, OtherOpcodes DEF TakeClose, Give
  <2>4. CASE frame.op \in {Ping, Pong} /\ TakeControl(frame, frame.len)
    BY <2>4, OtherOpcodes DEF TakeControl
  <2> QED
    BY <1>8, <2>1, <2>2, <2>3, <2>4
<1>10. \A w \in Writers \ {"reader"} : task'[w].op # Pong
  BY <1>7, <1>9 DEF PongsInv
<1>11. /\ frame.op = Ping /\ reading' /\ Owes' => task'["reader"].len = frame.len
       /\ ~ (frame.op = Ping /\ reading') => ~ Owes'
       /\ frame.op = Ping /\ reading' => Owes'
  <2>1. lock' # "reader"
    BY <1>1, <1>7
  <2>2. CASE UNCHANGED task /\ (frame.op # Ping \/ ~ reading')
    BY <1>1, <2>2, OtherOpcodes, Zenon DEF Owes, Pong
  <2>3. ASSUME NEW len, frame.op # Ping,
               task' = [task EXCEPT !["reader"] = Frame(CloseOp, TRUE, len)]
        PROVE  ~ Owes'
    <3>1. task'["reader"] = Frame(CloseOp, TRUE, len)
      BY <1>7, <2>3
    <3>2. task'["reader"].op # Pong
      BY <3>1, OtherOpcodes
    <3> QED
      BY <3>2, Zenon DEF Owes, Pong
  <2>4. ASSUME frame.op = Ping, reading' = reading,
               task' = [task EXCEPT !["reader"] = Frame(Pong, TRUE, frame.len)]
        PROVE  Owes' /\ task'["reader"].len = frame.len /\ reading'
    <3>1. task'["reader"] = Frame(Pong, TRUE, frame.len)
      BY <1>7, <2>4
    <3>2. task'["reader"].op = Pong /\ task'["reader"].len = frame.len
      BY <3>1, OtherOpcodes
    <3>3. Owes'
      BY <2>1, <3>2, Zenon DEF Owes, Pong
    <3> QED
      BY <1>1, <2>4, <3>2, <3>3, Zenon
  <2> QED
    BY <1>9, <2>2, <2>3, <2>4, Zenon
<1>12. failures' = 0 /\ ~ closed' =>
         /\ failures = 0 /\ ~ closed /\ Answers(Pongs, Pings, wire, input)
         /\ Cardinality(Pongs) = Cardinality(Pings) /\ Cardinality(Pongs) <= Cardinality(Pings)
  BY <1>1, <1>5, <1>7 DEF PongsInv
<1>13. CASE frame.op # Ping
  <2>1. Pings' = Pings /\ ~ Owes'
    BY <1>3, <1>11, <1>13, Zenon
  <2> QED
    BY <1>1, <1>4, <1>10, <1>12, <2>1, Zenon DEF PongsInv, Pong
<1>14. CASE frame.op = Ping
  <2> SUFFICES ASSUME failures' = 0, ~ closed'
               PROVE  /\ Answers(Pongs, Pings', wire, input)
                      /\ Owes' => /\ Cardinality(Pongs) + 1 = Cardinality(Pings')
                                  /\ \A q \in Pings' : Place(Pings', q) = Cardinality(Pings') =>
                                                          task'["reader"].len = input[q].len
                      /\ ~ Owes' => /\ Cardinality(Pongs) <= Cardinality(Pings')
                                    /\ ~ reading'
    BY <1>1, <1>4, <1>10, Zenon DEF PongsInv, Pong
  <2>1. /\ Answers(Pongs, Pings \cup {n}, wire, input)
        /\ Cardinality(Pings \cup {n}) = Cardinality(Pings) + 1
        /\ \A q \in Pings \cup {n} : Place(Pings \cup {n}, q) = Cardinality(Pings) + 1 => q = n
    <3>1. Cardinality(Pongs) <= Cardinality(Pings) /\ Answers(Pongs, Pings, wire, input)
      BY <1>12
    <3> QED
      BY ONLY <1>5, <1>6, <3>1, PingsToAnswer
  <2>2. Pings' = Pings \cup {n}
    BY <1>3, <1>14
  <2>3. Cardinality(Pongs) + 1 = Cardinality(Pings') /\ Cardinality(Pongs) <= Cardinality(Pings')
    BY <1>5, <1>12, <2>1, <2>2
  <2>4. Owes' => task'["reader"].len = input[n].len
    BY <1>11, <1>14
  <2>5. ~ Owes' => ~ reading'
    BY <1>11, <1>14
  <2> QED
    BY <2>1, <2>2, <2>3, <2>4, <2>5, Zenon
<1> QED
  BY <1>13, <1>14

\* Nothing else is given to the reader, and nothing else is a pong.
LEMMA PongsGiven ==
    ASSUME WritersInv, PongsInv,
           ReadError \/ CloseConn \/ CloseNow \/ \E n \in Lengths : SendMessage(n)
    PROVE  PongsInv'
<1>1. /\ UNCHANGED <<input, framesRead, lock, wire, failures>> /\ (~ closed' => ~ closed)
      /\ task \in [Writers -> Tasks] /\ "reader" \in Writers /\ (reading' => reading)
  <2>1. UNCHANGED <<input, framesRead, lock, wire, failures>> /\ (~ closed' => ~ closed)
    <3>1. UNCHANGED <<input, framesRead, lock, wire, failures>>
      BY DEF ReadError, CloseConn, CloseNow, SendMessage
    <3>2. closed' = closed \/ ~ closed
      BY DEF ReadError, CloseConn, CloseNow, SendMessage
    <3> QED
      BY <3>1, <3>2
  <2>2. reading' => reading
    BY Zenon DEF ReadError, StopReading, CloseConn, CloseNow, SendMessage
  <2> QED
    BY <2>1, <2>2 DEF WritersInv, Writers
<1>2. Pongs' = Pongs /\ Pings' = Pings
  BY <1>1 DEF Pongs, Pings, FramesOf, Pong, Ping
<1>3. \/ UNCHANGED task
      \/ \E len : task' = [task EXCEPT !["handler"] = Frame(CloseOp, TRUE, len)]
      \/ \E len : task' = [task EXCEPT !["pump"] = Frame(Text, TRUE, len)]
  BY DEF ReadError, StopReading, CloseConn, CloseNow, SendMessage, Give
<1>4. /\ task'["reader"] = task["reader"]
      /\ \A w \in Writers \ {"reader"} : task'[w].op # Pong
  <2>1. \A w \in Writers \ {"reader"} : task[w].op # Pong
    BY DEF PongsInv
  <2>2. CASE UNCHANGED task
    BY <2>1, <2>2
  <2>3. ASSUME NEW len, task' = [task EXCEPT !["handler"] = Frame(CloseOp, TRUE, len)]
        PROVE  /\ task'["reader"] = task["reader"]
               /\ \A w \in Writers \ {"reader"} : task'[w].op # Pong
    BY <1>1, <2>1, <2>3, OtherOpcodes
  <2>4. ASSUME NEW len, task' = [task EXCEPT !["pump"] = Frame(Text, TRUE, len)]
        PROVE  /\ task'["reader"] = task["reader"]
               /\ \A w \in Writers \ {"reader"} : task'[w].op # Pong
    BY <1>1, <2>1, <2>4, OtherOpcodes
  <2> QED
    BY <1>3, <2>2, <2>3, <2>4
<1>5. (Owes' => Owes /\ task'["reader"] = task["reader"]) /\ (Owes => Owes')
  BY <1>1, <1>4, Zenon DEF Owes, Pong
<1>6. \A p \in Pongs : wire'[p] = wire[p]
  BY <1>1
<1> QED
  BY <1>1, <1>2, <1>4, <1>5, <1>6, PongsStay, Zenon

\* What a writer that has written its frame, or given it up, leaves.
LEMMA PongsOver ==
    ASSUME task \in [Writers -> Tasks], PongsInv, NEW w \in Writers, Give(w, NoTask)
    PROVE  /\ \A v \in Writers \ {"reader"} : task'[v].op # Pong
           /\ w # "reader" => task'["reader"] = task["reader"]
           /\ w = "reader" => ~ Owes'
<1>1. task' = [task EXCEPT ![w] = NoTask]
  BY DEF Give
<1>2. \A v \in Writers : task'[v] = IF v = w THEN NoTask ELSE task[v]
  BY <1>1
<1>3. "reader" \in Writers
  BY DEF Writers
<1>4. \A v \in Writers \ {"reader"} : task'[v].op # Pong
  BY <1>2, OtherOpcodes DEF PongsInv
<1>5. w # "reader" => task'["reader"] = task["reader"]
  BY <1>2, <1>3
<1>6. w = "reader" => task'["reader"].op # Pong
  BY <1>2, <1>3, OtherOpcodes
<1> QED
  BY <1>4, <1>5, <1>6, Zenon DEF Owes, Pong

LEMMA PongsHeading ==
    ASSUME WritersInv, InputsTypeOK, PongsInv, NEW w \in Writers, WriteHeader(w)
    PROVE  PongsInv'
<1> PICK n : n = Len(wire) + 1
  OBVIOUS
<1> PICK head : head = Header(w, task[w])
  OBVIOUS
<1>1. /\ head \in Pieces /\ head.part = "header" /\ AnnouncedLength(head.bytes) = task[w].len
      /\ head.op = task[w].op
  BY HeadersAnnounce DEF WritersInv, Header
<1>2. /\ lock = "none" /\ ~ closed /\ wire' = Append(wire, head)
      /\ UNCHANGED <<input, framesRead, failures, reading, closed>>
      /\ task \in [Writers -> Tasks] /\ "reader" \in Writers /\ w # "none" /\ "none" # "reader"
  BY DEF WritersInv, WriteHeader, Free, OnWrite, Writers
<1>3. \/ Give(w, NoTask) /\ lock' = lock
      \/ lock' = w /\ UNCHANGED task
  BY DEF WriteHeader
<1>4. Pings' = Pings
  BY <1>2 DEF Pings, FramesOf, Ping
<1>5. /\ n \in Nat /\ Pongs \in SUBSET Nat /\ IsFiniteSet(Pongs) /\ Cardinality(Pongs) \in Nat
      /\ \A i \in Pongs : i < n
      /\ \A p \in Pongs : wire'[p] = wire[p]
      /\ wire'[n] = head
      /\ Pongs' = IF task[w].op = Pong THEN Pongs \cup {n} ELSE Pongs
  BY <1>1, <1>2, PongsWritten DEF WritersInv
<1>6. \A v \in Writers \ {"reader"} : task'[v].op # Pong
  <2>1. CASE Give(w, NoTask)
    BY <1>2, <2>1, PongsOver
  <2>2. CASE UNCHANGED task
    BY <2>2 DEF PongsInv
  <2> QED
    BY <1>3, <2>1, <2>2
<1>7. w = "reader" => ~ Owes'
  <2>1. CASE Give(w, NoTask)
    BY <1>2, <2>1, PongsOver
  <2>2. CASE lock' = w
    BY <2>2, Zenon DEF Owes, Pong
  <2> QED
    BY <1>3, <2>1, <2>2
<1>8. w # "reader" => task'["reader"] = task["reader"] /\ lock # "reader" /\ lock' # "reader"
  <2>1. CASE Give(w, NoTask) /\ lock' = lock
    BY <1>2, <2>1, PongsOver
  <2>2. CASE lock' = w /\ UNCHANGED task
    BY <1>2, <2>2
  <2> QED
    BY <1>3, <2>1, <2>2
<1>9. CASE w # "reader"
  <2>1. Pongs' = Pongs
    BY <1>5, <1>9 DEF PongsInv
  <2>2. (Owes' => Owes /\ task'["reader"] = task["reader"]) /\ (Owes => Owes')
    BY <1>8, <1>9, Zenon DEF Owes, Pong
  <2> QED
    BY <1>2, <1>4, <1>5, <1>6, <2>1, <2>2, PongsStay, Zenon
<1>10. CASE w = "reader" /\ task["reader"].op # Pong
  <2>1. Pongs' = Pongs
    BY <1>5, <1>10
  <2>2. ~ Owes
    BY <1>10 DEF Owes
  <2> QED
    BY <1>2, <1>4, <1>5, <1>6, <1>7, <1>10, <2>1, <2>2, PongsStay, Zenon
<1>11. CASE w = "reader" /\ task["reader"].op = Pong
  <2> SUFFICES ASSUME failures' = 0, ~ closed'
               PROVE  /\ Answers(Pongs', Pings, wire', input)
                      /\ Cardinality(Pongs') <= Cardinality(Pings)
                      /\ Cardinality(Pongs') = Cardinality(Pings)
    BY <1>2, <1>4, <1>6, <1>7, <1>11, Zenon DEF PongsInv, Pong
  <2>1. Pongs' = Pongs \cup {n}
    BY <1>5, <1>11
  <2>2. Owes
    BY <1>2, <1>11, Zenon DEF Owes
  <2>3. /\ Answers(Pongs, Pings, wire, input)
        /\ Cardinality(Pongs) + 1 = Cardinality(Pings)
        /\ \A q \in Pings : Place(Pings, q) = Cardinality(Pings) =>
                                task["reader"].len = input[q].len
    BY <1>2, <2>2, Zenon DEF PongsInv
  <2>4. Pings \in SUBSET Nat /\ IsFiniteSet(Pings)
    BY ReadSoFar DEF Pings
  <2>5. \A q \in Pings : Place(Pings, q) = Cardinality(Pings) =>
                             AnnouncedLength(wire'[n].bytes) = input[q].len
    BY <1>1, <1>5, <1>11, <2>3, Zenon
  <2> PICK more : more = wire'
    OBVIOUS
  <2>6. /\ \A p \in Pongs : more[p] = wire[p]
        /\ \A q \in Pings : Place(Pings, q) = Cardinality(Pings) =>
                             AnnouncedLength(more[n].bytes) = input[q].len
    BY <1>5, <2>5
  <2>7. /\ n \in Nat /\ Pongs \in SUBSET Nat /\ IsFiniteSet(Pongs)
        /\ \A i \in Pongs : i < n
    BY <1>5
  <2>8. Answers(Pongs \cup {n}, Pings, more, input)
        /\ Cardinality(Pongs \cup {n}) = Cardinality(Pings)
    <3> PICK P, Q, frames : P = Pongs /\ Q = Pings /\ frames = input
      OBVIOUS
    <3>1. Answers(P, Q, wire, frames) /\ Cardinality(P) + 1 = Cardinality(Q)
      BY <2>3
    <3>2. P \in SUBSET Nat /\ IsFiniteSet(P) /\ n \in Nat /\ \A i \in P : i < n
      BY <2>7
    <3>3. Q \in SUBSET Nat /\ IsFiniteSet(Q)
      BY <2>4
    <3>4. /\ \A p \in P : more[p] = wire[p]
          /\ \A q \in Q : Place(Q, q) = Cardinality(Q) =>
                              AnnouncedLength(more[n].bytes) = frames[q].len
      BY <2>6
    <3>5. Answers(P \cup {n}, Q, more, frames) /\ Cardinality(P \cup {n}) = Cardinality(Q)
      BY ONLY <3>1, <3>2, <3>3, <3>4, PongsAnswerPings
    <3> QED
      BY <3>5
  <2>9. Cardinality(Pings) \in Nat
    BY <2>4, FS_CardinalityType
  <2> QED
    BY <2>1, <2>8, <2>9
<1> QED
  BY <1>9, <1>10, <1>11

LEMMA PongsPaying ==
    ASSUME WritersInv, PongsInv, NEW w \in Writers, WritePayload(w)
    PROVE  PongsInv'
<1> PICK pay : pay = Payload(w, task[w])
  OBVIOUS
<1>1. pay \in Pieces /\ pay.part # "header"
  BY PayloadsFollow DEF WritersInv
<1>2. /\ lock = w /\ ~ closed /\ wire' = Append(wire, pay) /\ lock' = "none"
      /\ UNCHANGED <<input, framesRead, failures, reading, closed>> /\ Give(w, NoTask)
      /\ task \in [Writers -> Tasks] /\ "none" # "reader"
  BY DEF WritersInv, WritePayload, OnWrite
<1>3. Pings' = Pings
  BY <1>2 DEF Pings, FramesOf, Ping
<1>4. Pongs' = Pongs /\ \A p \in Pongs : wire'[p] = wire[p]
  BY <1>1, <1>2, PongsWritten DEF WritersInv
<1>5. /\ \A v \in Writers \ {"reader"} : task'[v].op # Pong
      /\ w # "reader" => task'["reader"] = task["reader"]
      /\ w = "reader" => ~ Owes'
  BY <1>2, PongsOver
<1>6. (Owes' => Owes /\ task'["reader"] = task["reader"]) /\ (Owes => Owes')
  <2>1. CASE w = "reader"
    BY <1>2, <1>5, <2>1, Zenon DEF Owes
  <2>2. CASE w # "reader"
    BY <1>2, <1>5, <2>2, Zenon DEF Owes, Pong
  <2> QED
    BY <2>1, <2>2, Zenon
<1> QED
  BY <1>2, <1>3, <1>4, <1>5, <1>6, PongsStay, Zenon

LEMMA PongsFailing ==
    ASSUME WritersInv, PongsInv, NEW w \in Writers, WriteError(w)
    PROVE  PongsInv'
<1>1. /\ closed' = closed /\ Give(w, NoTask)
      /\ closed \/ failures' = failures + 1
      /\ task \in [Writers -> Tasks] /\ failures \in Nat
  BY DEF WritersInv, WriteError, OnWrite
<1>2. ~ (failures' = 0 /\ ~ closed')
  <2>1. failures' = failures + 1 => failures' # 0
    BY <1>1
  <2>2. closed => closed'
    BY <1>1, Zenon
  <2> QED
    BY <1>1, <2>1, <2>2, Zenon
<1>3. \A v \in Writers \ {"reader"} : task'[v].op # Pong
  BY <1>1, PongsOver
<1> QED
  BY <1>2, <1>3, Zenon DEF PongsInv, Pong

-----------------------------------------------------------------------------
(* What is read is what was sent. *)

\* The lengths of the frames that have been read.
LEMMA LengthsReading ==
    ASSUME input \in Inputs, framesRead \in Nat, LengthsKept, ~ crashed, ReadFrame
    PROVE  LengthsKept'
<1> PICK frames, n, len, sign : frames = input /\ n = framesRead + 1 /\ len = input[n].len
                                /\ sign = Radix8 \div 2
  OBVIOUS
<1>1. reading /\ input' = frames /\ framesRead' = n
  BY DEF ReadFrame, CanRead
<1>2. FramesTaken' = FramesTaken \cup {n}
  BY <1>1 DEF FramesTaken
<1>3. /\ \A i \in FramesTaken : frames[i].len <= wsMaxFrameBytes
      /\ ~ \E i \in FramesTaken : frames[i].len >= sign
  BY <1>1 DEF LengthsKept
<1>4. /\ len \in Nat
      /\ \/ ~ len < sign /\ StopReading /\ crashed' = TRUE
         \/ len < sign /\ UNCHANGED crashed
            /\ \/ len > wsMaxFrameBytes /\ StopReading
               \/ ~ len > wsMaxFrameBytes /\ TakeFrame(input[n], len)
  BY LengthsAreTaken, Zenon
<1>5. (~ len < sign <=> len >= sign) /\ (~ len > wsMaxFrameBytes <=> len <= wsMaxFrameBytes)
  BY <1>4, Powers, FrameBytesAssumption
<1>6. crashed' <=> len >= sign
  BY <1>4, <1>5
<1>7. reading' => len <= wsMaxFrameBytes
  <2>1. ~ len > wsMaxFrameBytes \/ StopReading
    BY <1>4
  <2> QED
    BY <1>5, <2>1 DEF StopReading
<1>8. (\E i \in FramesTaken' : frames[i].len >= sign) <=> len >= sign
  BY <1>2, <1>3
<1>9. reading' => \A i \in FramesTaken' : frames[i].len <= wsMaxFrameBytes
  BY <1>2, <1>3, <1>7
<1> QED
  BY <1>1, <1>6, <1>8, <1>9, Zenon DEF LengthsKept

LEMMA LengthsStay ==
    ASSUME LengthsKept, UNCHANGED <<input, framesRead, crashed>>, reading' => reading
    PROVE  LengthsKept'
<1>1. FramesTaken' = FramesTaken
  BY DEF FramesTaken
<1> QED
  BY <1>1 DEF LengthsKept

ReaderInv == WritersInv /\ MessagesInv /\ PongsInv /\ LengthsKept

LEMMA ReaderInit == FramesInit => ReaderInv
<1>1. FramesInit => LengthsKept
  BY DEF FramesInit, LengthsKept, FramesTaken
<1> QED
  BY <1>1, WritersInit, MessagesInit, PongsInit DEF ReaderInv

LEMMA ReaderStep == ReaderInv /\ [FramesNext]_framesVars => ReaderInv'
<1> SUFFICES ASSUME ReaderInv, [FramesNext]_framesVars PROVE ReaderInv'
  OBVIOUS
<1>1. WritersInv /\ MessagesInv /\ PongsInv /\ LengthsKept /\ InputsTypeOK
  BY DEF ReaderInv, MessagesInv
<1>2. WritersInv'
  BY <1>1, WritersStep
<1>3. CASE ReadFrame /\ ~ crashed
  <2>1. LengthsKept'
    BY <1>1, <1>3, LengthsReading DEF InputsTypeOK
  <2> QED
    BY <1>1, <1>2, <1>3, <2>1, MessagesReading, PongsReading DEF ReaderInv
<1>4. CASE ReadError \/ CloseConn \/ CloseNow \/ \E n \in Lengths : SendMessage(n)
  <2>1. /\ UNCHANGED <<input, framesRead, msg, delivered, crashed>>
        /\ reading' = reading \/ reading' = FALSE
    BY <1>4 DEF ReadError, StopReading, CloseConn, CloseNow, SendMessage
  <2>2. LengthsKept'
    BY <1>1, <2>1, LengthsStay
  <2> QED
    BY <1>1, <1>2, <1>4, <2>1, <2>2, MessagesStay, PongsGiven DEF ReaderInv
<1>5. ASSUME NEW w \in Writers, WriteHeader(w) \/ WritePayload(w) \/ WriteError(w)
      PROVE  ReaderInv'
  <2>1. UNCHANGED <<input, framesRead, msg, delivered, reading, crashed>>
    BY <1>5 DEF WriteHeader, WritePayload, WriteError, OnWrite
  <2>2. MessagesInv' /\ LengthsKept'
    BY <1>1, <2>1, MessagesStay, LengthsStay
  <2>3. PongsInv'
    BY <1>1, <1>5, PongsHeading, PongsPaying, PongsFailing
  <2> QED
    BY <1>2, <2>2, <2>3 DEF ReaderInv
<1>6. CASE UNCHANGED framesVars
  <2>1. UNCHANGED <<input, framesRead, msg, delivered, reading, lock, task, wire, failures, closed,
                    crashed>>
    BY <1>6 DEF framesVars
  <2>2. MessagesInv' /\ LengthsKept'
    BY <1>1, <2>1, MessagesStay, LengthsStay
  <2>3. Pongs' = Pongs /\ Pings' = Pings
    BY <2>1 DEF Pongs, Pings, FramesOf, Pong, Ping
  <2>4. \A w \in Writers \ {"reader"} : task'[w].op # Pong
    BY <1>1, <2>1 DEF PongsInv
  <2>5. (Owes' => Owes /\ task'["reader"] = task["reader"]) /\ (Owes => Owes')
    BY <2>1, Zenon DEF Owes, Pong
  <2>6. \A p \in Pongs : wire'[p] = wire[p]
    BY <2>1
  <2>7. PongsInv'
    BY <1>1, <2>1, <2>3, <2>4, <2>5, <2>6, PongsStay, Zenon
  <2> QED
    BY <1>2, <2>2, <2>7 DEF ReaderInv
<1> QED
  BY <1>3, <1>4, <1>5, <1>6 DEF FramesNext

\* ReadsMeanInput, whatever a peer sends and whenever the three writers write: the
\* messages that ReadMessage has returned are the payloads of the fragments the peer
\* sent, message by message and in order, none over twice the cap; no frame over the
\* cap is read on from, and one whose length does not fit an int64, and no other, ends
\* the process; and while no write has failed and the connection is open, the pongs
\* written are those of its pings, in order, all of them whenever the reader can read on.
THEOREM FramesReadsMeanInput == FramesSpec => []ReadsMeanInput
<1>1. ReaderInv => ReadsMeanInput
  <2> SUFFICES ASSUME ReaderInv PROVE ReadsMeanInput
    OBVIOUS
  <2>1. WritersInv /\ MessagesInv /\ PongsInv /\ LengthsKept /\ InputsTypeOK
    BY DEF ReaderInv, MessagesInv
  <2>2. /\ Len(delivered) <= Cardinality(Ends)
        /\ reading => Len(delivered) = Cardinality(Ends)
        /\ delivered \in Seq(Seq(Nat))
        /\ \A m \in 1 .. Len(delivered) :
              Assembles(delivered[m], Fragments(m), input) /\ Bounded(delivered[m])
    BY <2>1 DEF MessagesInv
  <2>3. DOMAIN delivered = 1 .. Len(delivered)
    BY <2>2, LenProperties
  <2>4. \A m \in DOMAIN delivered :
           IsMessage(delivered[m], m) /\ Size(delivered[m]) <= 2 * wsMaxFrameBytes
    BY <2>2, <2>3 DEF Assembles, IsMessage, Bounded
  <2>5. ASSUME failures = 0, ~ closed
        PROVE  /\ PongsAnswer /\ Cardinality(Pongs) <= Cardinality(Pings)
               /\ CanRead => Cardinality(Pongs) = Cardinality(Pings)
    <3>1. PongsAnswer
      BY <2>1, <2>5 DEF PongsInv, PongsAnswer, Answers
    <3>2. Cardinality(Pongs) \in Nat /\ Cardinality(Pings) \in Nat
      BY <2>1, PongsWritten, ReadSoFar DEF WritersInv, Pings
    <3>3. CASE Owes
      <4>1. Cardinality(Pongs) + 1 = Cardinality(Pings)
        BY <2>1, <2>5, <3>3 DEF PongsInv
      <4>2. ~ CanRead
        BY <3>3, OtherOpcodes DEF Owes, CanRead
      <4> QED
        BY <3>1, <3>2, <4>1, <4>2
    <3>4. CASE ~ Owes
      BY <2>1, <2>5, <3>1, <3>4 DEF PongsInv, CanRead
    <3> QED
      BY <3>3, <3>4
  <2> QED
    BY <2>1, <2>2, <2>4, <2>5 DEF ReadsMeanInput
<1> QED
  BY <1>1, ReaderInit, ReaderStep, PTL DEF FramesSpec

-----------------------------------------------------------------------------
(* Stretches. *)

\* Where the stretch before line i begins: behind c.
CutAt(lines, i, c) ==
    /\ c \in 0 .. i - 1 /\ (c = 0 \/ lines[c] = Blank)
    /\ \A k \in c + 1 .. i - 1 : lines[k] # Blank

\* A stretch is what lies behind its cut.
LEMMA StretchesAreCut ==
    ASSUME NEW lines, NEW i \in Nat, i >= 1
    PROVE  /\ \E c : CutAt(lines, i, c)
           /\ \A c : CutAt(lines, i, c) => Stretch(lines, i) = SubSeq(lines, c + 1, i - 1)
<1> DEFINE blanks == {k \in 1 .. i - 1 : lines[k] = Blank}
           S == {0} \cup blanks
<1>1. S \in SUBSET Nat /\ S # {} /\ i - 1 \in Nat /\ \A k \in S : k <= i - 1
  OBVIOUS
<1>2. Max(S) \in S /\ \A k \in S : k <= Max(S)
  <2> HIDE DEF S
  <2> QED
    BY <1>1, MaxIsLargest
<1>3. Stretch(lines, i) = SubSeq(lines, Max(S) + 1, i - 1)
  BY DEF Stretch
<1>4. CutAt(lines, i, Max(S))
  <2> PICK m : m = Max(S)
    OBVIOUS
  <2>1. m \in 0 .. i - 1 /\ (m = 0 \/ lines[m] = Blank)
    BY <1>2
  <2>2. ASSUME NEW k \in m + 1 .. i - 1, lines[k] = Blank PROVE FALSE
    <3>1. k \in S /\ k > m /\ m \in Nat /\ k \in Nat
      BY <2>1, <2>2
    <3>2. k <= m
      BY <1>2, <3>1
    <3> QED
      BY <3>1, <3>2
  <2> QED
    BY <2>1, <2>2 DEF CutAt
<1>5. ASSUME NEW c, CutAt(lines, i, c) PROVE c = Max(S)
  <2> PICK m : m = Max(S)
    OBVIOUS
  <2>1. c \in S /\ c \in Nat /\ m \in Nat
    BY <1>1, <1>2, <1>5 DEF CutAt
  <2>2. c <= m
    BY <1>2, <2>1
  <2>3. ASSUME c < m PROVE FALSE
    <3>1. m # 0 /\ m \in c + 1 .. i - 1
      BY <1>1, <1>2, <2>1, <2>3
    <3>2. lines[m] = Blank
      BY <1>2, <3>1
    <3> QED
      BY <1>5, <3>1, <3>2 DEF CutAt
  <2> QED
    BY <2>1, <2>2, <2>3
<1> QED
  BY <1>3, <1>4, <1>5

\* It depends on the lines before only.
LEMMA StretchesStay ==
    ASSUME NEW X, NEW s \in Seq(X), NEW t \in Seq(X), NEW i \in Nat, i >= 1,
           i - 1 <= Len(s), i - 1 <= Len(t), \A k \in 1 .. i - 1 : s[k] = t[k]
    PROVE  Stretch(s, i) = Stretch(t, i)
<1>1. PICK c : CutAt(s, i, c)
  BY StretchesAreCut
<1>2. CutAt(t, i, c)
  BY <1>1 DEF CutAt
<1>3. Stretch(s, i) = SubSeq(s, c + 1, i - 1) /\ Stretch(t, i) = SubSeq(t, c + 1, i - 1)
  BY <1>1, <1>2, StretchesAreCut
<1>4. SubSeq(s, c + 1, i - 1) = SubSeq(t, c + 1, i - 1)
  <2>1. /\ c + 1 \in Nat /\ i - 1 \in Nat /\ c + 1 >= 1 /\ c + 1 <= (i - 1) + 1
        /\ \A k \in c + 1 .. i - 1 : k \in 1 .. i - 1
    BY <1>1 DEF CutAt
  <2>2. \A k \in c + 1 .. i - 1 : s[k] = t[k]
    BY <2>1
  <2> PICK a, b : a = c + 1 /\ b = i - 1
    OBVIOUS
  <2>3. /\ a \in Nat /\ b \in Nat /\ a >= 1 /\ a <= b + 1 /\ b <= Len(s) /\ b <= Len(t)
        /\ \A k \in a .. b : s[k] = t[k]
    BY <2>1, <2>2
  <2> QED
    BY ONLY <2>3, a = c + 1, b = i - 1, s \in Seq(X), t \in Seq(X), PartsOfPrefix
<1> QED
  BY <1>3, <1>4

\* A stretch of lines is lines.
LEMMA StretchesAreLines ==
    ASSUME NEW X, NEW s \in Seq(X), NEW i \in 1 .. Len(s) + 1
    PROVE  Stretch(s, i) \in Seq(X)
<1>1. Len(s) \in Nat /\ i \in Nat /\ i >= 1
  BY LenProperties
<1>2. PICK c : CutAt(s, i, c)
  BY <1>1, StretchesAreCut
<1>3. c + 1 \in Nat /\ i - 1 \in Nat /\ c + 1 >= 1 /\ c + 1 <= (i - 1) + 1 /\ i - 1 <= Len(s)
  BY <1>1, <1>2 DEF CutAt
<1>4. Stretch(s, i) = SubSeq(s, c + 1, i - 1)
  BY <1>1, <1>2, StretchesAreCut
<1> QED
  BY <1>3, <1>4, PartsAre

\* A blank line begins a new one, any other line makes it longer.
LEMMA StretchesGrow ==
    ASSUME NEW X, NEW s \in Seq(X), NEW i \in 1 .. Len(s)
    PROVE  /\ Stretch(s, i) \in Seq(X)
           /\ s[i] = Blank => Stretch(s, i + 1) = <<>>
           /\ s[i] # Blank => Stretch(s, i + 1) = Append(Stretch(s, i), s[i])
<1>1. i \in Nat /\ i >= 1 /\ i + 1 \in Nat /\ i + 1 >= 1 /\ (i + 1) - 1 = i /\ Len(s) \in Nat
  BY LenProperties
<1>2. PICK c : CutAt(s, i, c)
  BY <1>1, StretchesAreCut
<1>3. Stretch(s, i) = SubSeq(s, c + 1, i - 1) /\ c \in 0 .. i - 1
  BY <1>1, <1>2, StretchesAreCut DEF CutAt
<1>4. SubSeq(s, c + 1, i - 1) \in Seq(X)
  <2>1. /\ c + 1 \in Nat /\ i - 1 \in Nat /\ c + 1 >= 1 /\ c + 1 <= (i - 1) + 1
        /\ i - 1 <= Len(s)
    BY <1>1, <1>3
  <2> QED
    BY <2>1, PartsAre
<1>5. ASSUME s[i] = Blank PROVE Stretch(s, i + 1) = <<>>
  <2>1. CutAt(s, i + 1, i)
    BY <1>1, <1>5 DEF CutAt
  <2>2. Stretch(s, i + 1) = SubSeq(s, i + 1, i)
    BY <1>1, <2>1, StretchesAreCut
  <2>3. i + 1 \in Int /\ i \in Int /\ i < i + 1
    BY <1>1
  <2> QED
    BY <2>2, <2>3, SubSeqEmpty
<1>6. ASSUME s[i] # Blank PROVE Stretch(s, i + 1) = Append(Stretch(s, i), s[i])
  <2>1. CutAt(s, i + 1, c)
    <3>1. \A k \in c + 1 .. i : k = i \/ k \in c + 1 .. i - 1
      BY <1>1, <1>3
    <3>2. c \in 0 .. i
      BY <1>1, <1>3
    <3> QED
      BY <1>1, <1>2, <1>6, <3>1, <3>2 DEF CutAt
  <2>2. Stretch(s, i + 1) = SubSeq(s, c + 1, i)
    BY <1>1, <2>1, StretchesAreCut
  <2>3. SubSeq(s, c + 1, i) = Append(SubSeq(s, c + 1, i - 1), s[i])
    <3>1. c + 1 \in 1 .. i
      BY <1>1, <1>3
    <3> QED
      BY <3>1, PartsGrow
  <2> QED
    BY <1>3, <2>2, <2>3
<1> QED
  BY <1>3, <1>4, <1>5, <1>6

-----------------------------------------------------------------------------
(* What a block is left with. *)

\* BlockOf: a line more, or, when they are too many, none.
LEMMA BlocksGrow ==
    ASSUME NEW X, NEW s \in Seq(X), NEW x \in X
    PROVE  /\ LeftOf(s) \in Seq(X) /\ LeftOf(<<>>) = <<>>
           /\ Append(s, x) \in Seq(X)
           /\ LeftOf(Append(s, x)) = LET longer == Append(LeftOf(s), x)
                                     IN  IF Len(longer) > MaxBlock THEN <<>> ELSE longer
<1> DEFINE n == Len(s)
           d == MaxBlock + 1
           r == n % d
           t == Append(s, x)
<1>1. n \in Nat /\ d \in Nat \ {0} /\ d - 1 = MaxBlock /\ MaxBlock \in Nat
  BY LenProperties, EventBlockAssumption
<1>2. /\ t \in Seq(X) /\ Len(t) = n + 1 /\ t[n + 1] = x
      /\ \A k \in 1 .. n : t[k] = s[k]
  BY AppendProperties, LenProperties
<1>3. r \in 0 .. MaxBlock /\ r <= n /\ (n + 1) % d = IF r = MaxBlock THEN 0 ELSE r + 1
  <2> HIDE DEF d, n
  <2> QED
    BY <1>1, RestsGrow
<1>4. LeftOf(s) = SubSeq(s, n - r + 1, n)
  BY DEF LeftOf
<1>5. LeftOf(t) = SubSeq(t, (n + 1) - ((n + 1) % d) + 1, n + 1)
  <2>1. LeftOf(t) = SubSeq(t, Len(t) - (Len(t) % d) + 1, Len(t))
    BY DEF LeftOf
  <2> HIDE DEF t, d
  <2> QED
    BY <1>2, <2>1, Zenon
<1>6. LeftOf(<<>>) = <<>>
  <2>1. Len(<<>>) = 0 /\ <<>> \in Seq(X)
    BY EmptySeq
  <2>2. LeftOf(<<>>) = SubSeq(<<>>, 0 - (0 % d) + 1, 0)
    BY <2>1 DEF LeftOf
  <2>3. 0 % d = 0
    <3> HIDE DEF d
    <3>1. 0 % d \in 0 .. d - 1 /\ 0 % d <= 0
      BY <1>1, RestsGrow
    <3> QED
      BY <1>1, <3>1
  <2>4. LeftOf(<<>>) = SubSeq(<<>>, 1, 0)
    BY <2>2, <2>3
  <2> QED
    BY <2>4, SubSeqEmpty
<1> HIDE DEF d, t, r
<1>7. LeftOf(s) \in Seq(X) /\ Len(LeftOf(s)) = r
  <2>1. n - r + 1 \in Int /\ n \in Int /\ \A k \in n - r + 1 .. n : k \in 1 .. n
    BY <1>1, <1>3
  <2>2. \A k \in n - r + 1 .. n : s[k] \in X
    BY <2>1, ElementOfSeq
  <2>3. /\ SubSeq(s, n - r + 1, n) \in Seq(X)
        /\ Len(SubSeq(s, n - r + 1, n)) =
              IF n - r + 1 <= n THEN n - (n - r + 1) + 1 ELSE 0
    BY <2>1, <2>2, SubSeqProperties
  <2> QED
    BY <1>1, <1>3, <1>4, <2>3
<1> DEFINE longer == Append(LeftOf(s), x)
<1>8. Len(longer) = r + 1
  BY <1>7, AppendProperties
<1> HIDE DEF longer
<1>9. CASE r = MaxBlock
  <2>1. LeftOf(t) = SubSeq(t, n + 2, n + 1) /\ n + 2 \in Int /\ n + 1 \in Int /\ n + 1 < n + 2
    <3>1. (n + 1) % d = 0 /\ (n + 1) - 0 + 1 = n + 2
      BY <1>1, <1>3, <1>9
    <3> QED
      BY <1>5, <3>1
  <2>2. LeftOf(t) = <<>>
    BY <2>1, SubSeqEmpty
  <2>3. r + 1 > MaxBlock
    BY ONLY <1>1, <1>9
  <2> QED
    BY <1>2, <1>6, <1>7, <1>8, <2>2, <2>3 DEF t, longer
<1>10. CASE r # MaxBlock
  <2>1. LeftOf(t) = SubSeq(t, n - r + 1, n + 1)
    <3>1. n + 1 - (r + 1) + 1 = n - r + 1
      BY <1>1, <1>3
    <3> QED
      BY <1>3, <1>5, <1>10, <3>1
  <2>2. n + 1 \in 1 .. Len(t) /\ n - r + 1 \in 1 .. n + 1 /\ (n + 1) - 1 = n
        /\ n - r + 1 \in Nat /\ n - r + 1 >= 1 /\ n <= Len(s) /\ n <= Len(t)
    <3>1. n \in Nat /\ r \in Nat /\ r <= n /\ Len(s) \in Nat /\ Len(t) \in Nat
          /\ n <= Len(s) /\ n + 1 <= Len(t)
      BY <1>1, <1>2, <1>3
    <3> QED
      BY ONLY <3>1
  <2>3. SubSeq(t, n - r + 1, n + 1) = Append(SubSeq(t, n - r + 1, n), x)
    BY <1>2, <2>2, PartsGrow
  <2>4. SubSeq(t, n - r + 1, n) = SubSeq(s, n - r + 1, n)
    BY <1>1, <1>2, <2>2, PartsOfPrefix
  <2>5. ~ r + 1 > MaxBlock
    BY <1>1, <1>3, <1>10
  <2> QED
    BY <1>2, <1>4, <1>6, <1>7, <1>8, <2>1, <2>3, <2>4, <2>5 DEF t, longer
<1> QED
  BY <1>9, <1>10

-----------------------------------------------------------------------------
(* Fields. *)

\* The values an upstream may send.
UpstreamValues == UNION {Values[f] : f \in {"data", "event", "id"}}

\* The values a relay may write, masks and words of its own among them.
OutValues == UpstreamValues \cup {"", "***", "error", "upstream"}

\* The lines of them.
OutLines == [field : {"blank", "comment", "data", "event", "id"}, value : OutValues]

LEMMA EmptyIsAValue == "" \in OutValues
  BY DEF OutValues

\* The values of a field, line after line.
LEMMA ValuesAreALoop ==
    ASSUME NEW s \in Seq(OutLines), NEW f
    PROVE  \E u : /\ u[0] = <<>> /\ ValuesOf(s, f) = u[Len(s)]
                  /\ \A k \in 1 .. Len(s) :
                        u[k] = IF s[k].field = f THEN Append(u[k - 1], s[k].value)
                               ELSE u[k - 1]
<1> DEFINE n == Len(s)
           V == Seq(OutValues)
           step == [k \in Nat |-> [x \in V |->
                       IF k \in 1 .. n /\ s[k].field = f THEN Append(x, s[k].value) ELSE x]]
           Eq(u) == u = [k \in 0 .. n |->
                            IF k = 0 THEN <<>>
                            ELSE IF s[k].field = f THEN Append(u[k - 1], s[k].value)
                            ELSE u[k - 1]]
<1>1. n \in Nat /\ \A k \in 1 .. n : s[k].value \in OutValues
  <2>1. \A k \in 1 .. n : s[k] \in OutLines
    BY ElementOfSeq
  <2> QED
    BY <2>1, LenProperties DEF OutLines
<1>2. <<>> \in V /\ \A x \in V, y \in OutValues : Append(x, y) \in V
  BY EmptySeq, AppendProperties
<1> HIDE DEF n, V
<1>3. step \in [Nat -> [V -> V]]
  BY <1>1, <1>2
<1>4. PICK w : Runs(w, n, V, <<>>, step)
  <2> HIDE DEF step
  <2> QED
    BY <1>1, <1>2, <1>3, LoopsHaveValues
<1>5. w \in [0 .. n -> V] /\ w[0] = <<>>
  BY <1>4 DEF Runs, Passes
<1>6. ASSUME NEW k \in 1 .. n
      PROVE  w[k] = IF s[k].field = f THEN Append(w[k - 1], s[k].value) ELSE w[k - 1]
  <2>1. w[k] = step[k][w[k - 1]]
    <3> HIDE DEF step
    <3> QED
      BY <1>4 DEF Runs, Passes
  <2>2. k \in Nat /\ w[k - 1] \in V
    BY <1>1, <1>5
  <2>3. step[k][w[k - 1]] = IF k \in 1 .. n /\ s[k].field = f
                            THEN Append(w[k - 1], s[k].value) ELSE w[k - 1]
    BY <2>2
  <2> HIDE DEF step
  <2> QED
    BY <2>1, <2>3
<1> HIDE DEF step
<1>7. Eq(w)
  <2> DEFINE g == [k \in 0 .. n |->
                      IF k = 0 THEN <<>>
                      ELSE IF s[k].field = f THEN Append(w[k - 1], s[k].value)
                      ELSE w[k - 1]]
  <2>1. ASSUME NEW k \in 0 .. n PROVE w[k] = g[k]
    <3>1. CASE k = 0
      BY <1>5, <3>1
    <3>2. CASE k # 0
      <4>1. k \in 1 .. n
        BY <1>1, <3>2
      <4>2. g[k] = IF s[k].field = f THEN Append(w[k - 1], s[k].value) ELSE w[k - 1]
        BY <3>2
      <4> QED
        BY <1>6, <4>1, <4>2
    <3> QED
      BY <3>1, <3>2
  <2>2. w = [k \in 0 .. n |-> w[k]] /\ g = [k \in 0 .. n |-> g[k]]
    BY <1>5
  <2> HIDE DEF g
  <2>3. w = g
    BY <2>1, <2>2
  <2> QED
    BY <2>3 DEF g
<1> DEFINE upTo == CHOOSE u : Eq(u)
<1>8. Eq(upTo)
  BY <1>7
<1>9. ValuesOf(s, f) = upTo[n]
  BY DEF ValuesOf, n
<1> HIDE DEF upTo
<1>10. upTo[0] = <<>>
  BY <1>1, <1>8
<1>11. ASSUME NEW k \in 1 .. n
       PROVE  upTo[k] = IF s[k].field = f THEN Append(upTo[k - 1], s[k].value)
                        ELSE upTo[k - 1]
  <2>1. k \in 0 .. n /\ k # 0
    BY <1>1
  <2> QED
    BY <1>8, <2>1
<1> QED
  BY <1>9, <1>10, <1>11 DEF n

\* The values of fields are values.
LEMMA ValuesAreValues ==
    ASSUME NEW s \in Seq(OutLines), NEW f
    PROVE  ValuesOf(s, f) \in Seq(OutValues)
<1> PICK u : /\ u[0] = <<>> /\ ValuesOf(s, f) = u[Len(s)]
             /\ \A k \in 1 .. Len(s) :
                   u[k] = IF s[k].field = f THEN Append(u[k - 1], s[k].value) ELSE u[k - 1]
  BY ValuesAreALoop
<1> DEFINE S == {k \in Nat : k <= Len(s) => u[k] \in Seq(OutValues)}
<1>1. 0 \in S
  BY EmptySeq
<1>2. ASSUME NEW k \in Nat, k \in S PROVE k + 1 \in S
  <2> SUFFICES ASSUME k + 1 <= Len(s) PROVE u[k + 1] \in Seq(OutValues)
    OBVIOUS
  <2>1. k + 1 \in 1 .. Len(s) /\ (k + 1) - 1 = k /\ k <= Len(s)
    BY LenProperties
  <2>2. s[k + 1] \in OutLines /\ u[k] \in Seq(OutValues)
    BY <1>2, <2>1, ElementOfSeq
  <2>3. s[k + 1].value \in OutValues
    BY <2>2 DEF OutLines
  <2>4. Append(u[k], s[k + 1].value) \in Seq(OutValues)
    BY <2>2, <2>3, AppendProperties
  <2>5. u[k + 1] = IF s[k + 1].field = f THEN Append(u[k], s[k + 1].value) ELSE u[k]
    BY <2>1
  <2> QED
    BY <2>2, <2>4, <2>5
<1>3. Len(s) \in S
  <2> HIDE DEF S
  <2> QED
    BY <1>1, <1>2, EveryNumber, LenProperties
<1> QED
  BY <1>3

\* The lines of a field that are those from m + 1 to m + j.
LEMMA ValuesOfARow ==
    ASSUME NEW s \in Seq(OutLines), NEW f, NEW m \in Nat, NEW j \in Nat, m + j <= Len(s),
           \A k \in 1 .. Len(s) : s[k].field = f <=> m < k /\ k <= m + j
    PROVE  /\ ValuesOf(s, f) \in Seq(OutValues) /\ Len(ValuesOf(s, f)) = j
           /\ \A i \in 1 .. j : ValuesOf(s, f)[i] = s[m + i].value
<1> PICK u : /\ u[0] = <<>> /\ ValuesOf(s, f) = u[Len(s)]
             /\ \A k \in 1 .. Len(s) :
                   u[k] = IF s[k].field = f THEN Append(u[k - 1], s[k].value) ELSE u[k - 1]
  BY ValuesAreALoop
<1> DEFINE n(k) == IF k <= m THEN 0 ELSE IF k <= m + j THEN k - m ELSE j
           Is(v, k) == /\ v \in Seq(OutValues) /\ Len(v) = n(k)
                       /\ \A i \in 1 .. n(k) : v[i] = s[m + i].value
           S == {k \in Nat : k <= Len(s) => Is(u[k], k)}
<1>0. Len(s) \in Nat
  BY LenProperties
<1>1. 0 \in S
  <2>1. n(0) = 0
    OBVIOUS
  <2>2. <<>> \in Seq(OutValues) /\ Len(<<>>) = 0
    BY EmptySeq
  <2>3. Is(<<>>, 0)
    BY <2>1, <2>2
  <2> HIDE DEF Is
  <2> QED
    BY <2>3
<1>2. ASSUME NEW k \in Nat, k \in S PROVE k + 1 \in S
  <2> SUFFICES ASSUME k + 1 <= Len(s) PROVE Is(u[k + 1], k + 1)
    OBVIOUS
  <2>1. k + 1 \in 1 .. Len(s) /\ (k + 1) - 1 = k /\ k <= Len(s)
    BY <1>0
  <2> PICK v : v = u[k]
    OBVIOUS
  <2>2. Is(v, k)
    BY <1>2, <2>1
  <2>3. u[k + 1] = IF s[k + 1].field = f THEN Append(v, s[k + 1].value) ELSE v
    BY <2>1
  <2>4. CASE s[k + 1].field = f
    <3>1. m < k + 1 /\ k + 1 <= m + j
      BY <2>1, <2>4
    <3>2. n(k) = k - m /\ n(k + 1) = (k - m) + 1 /\ k - m \in Nat /\ m + ((k - m) + 1) = k + 1
      BY <3>1
    <3>3. s[k + 1].value \in OutValues
      <4>1. s[k + 1] \in OutLines
        BY <2>1, ElementOfSeq
      <4> QED
        BY <4>1 DEF OutLines
    <3> DEFINE w == Append(v, s[k + 1].value)
    <3>4. /\ w \in Seq(OutValues) /\ Len(w) = (k - m) + 1
          /\ \A i \in 1 .. k - m : w[i] = v[i]
          /\ w[(k - m) + 1] = s[k + 1].value
      <4>1. v \in Seq(OutValues) /\ Len(v) = k - m
        BY <2>2, <3>2
      <4> QED
        BY ONLY <3>3, <4>1, AppendProperties
    <3> HIDE DEF w
    <3>5. \A i \in 1 .. (k - m) + 1 : w[i] = s[m + i].value
      <4>1. \A i \in 1 .. (k - m) + 1 : i \in 1 .. k - m \/ i = (k - m) + 1
        BY <3>2
      <4>2. \A i \in 1 .. k - m : w[i] = s[m + i].value
        BY <2>2, <3>2, <3>4
      <4> QED
        BY <3>2, <3>4, <4>1, <4>2
    <3>6. Is(w, k + 1)
      BY <3>2, <3>4, <3>5
    <3> HIDE DEF Is
    <3> QED
      BY <2>3, <2>4, <3>6 DEF w
  <2>5. CASE s[k + 1].field # f
    <3>1. ~ (m < k + 1 /\ k + 1 <= m + j)
      BY <2>1, <2>5
    <3>2. n(k + 1) = n(k)
      BY <3>1
    <3>3. Is(v, k + 1)
      BY <2>2, <3>2
    <3> HIDE DEF Is
    <3> QED
      BY <2>3, <2>5, <3>3
  <2> QED
    BY <2>4, <2>5
<1>3. Len(s) \in S
  <2> HIDE DEF S
  <2> QED
    BY <1>0, <1>1, <1>2, EveryNumber
<1>4. n(Len(s)) = j
  BY <1>0
<1> QED
  BY <1>0, <1>3, <1>4

-----------------------------------------------------------------------------
(* Events. *)

\* The events of them: the data is one line at least.
OutEvents == [type : OutValues, data : Seq(OutValues) \ {<<>>}, id : OutValues]

\* The last of some values, or none, is a value.
LEMMA LastValues ==
    ASSUME NEW values \in Seq(OutValues)
    PROVE  LastOr(values, "") \in OutValues
<1>1. CASE values = <<>>
  BY <1>1 DEF LastOr, OutValues
<1>2. CASE values # <<>>
  <2>1. Len(values) \in Nat /\ Len(values) # 0
    BY <1>2, EmptySeq
  <2>2. Len(values) \in 1 .. Len(values)
    BY <2>1
  <2>3. Last(values) \in OutValues
    BY <2>2, ElementOfSeq DEF Last
  <2> QED
    BY <1>2, <2>3 DEF LastOr
<1> QED
  BY <1>1, <1>2

\* What is parsed is an event, and no lines are none.
LEMMA EventsAreEvents ==
    ASSUME NEW s \in Seq(OutLines)
    PROVE  ParseSSEEvent(s) \in OutEvents
<1>1. \A f : ValuesOf(s, f) \in Seq(OutValues)
  BY ValuesAreValues
<1>2. \A v \in Seq(OutValues) : DataOf(v) \in Seq(OutValues) \ {<<>>}
  <2>1. "" \in OutValues
    BY DEF OutValues
  <2>2. <<"">> \in Seq(OutValues) /\ <<"">> # <<>>
    BY <2>1, Singles
  <2> QED
    BY <2>2 DEF DataOf
<1> QED
  BY <1>1, <1>2, LastValues DEF ParseSSEEvent, OutEvents

\* Of no lines nothing is said.
LEMMA NoLinesSayNothing == Nothing(ParseSSEEvent(<<>>))
<1>1. <<>> \in Seq(OutLines) /\ Len(<<>>) = 0
  BY EmptySeq
<1>2. ASSUME NEW f PROVE ValuesOf(<<>>, f) = <<>>
  <2> PICK s : s = <<>>
    OBVIOUS
  <2>1. /\ 0 \in Nat /\ 0 + 0 <= Len(s) /\ s \in Seq(OutLines)
        /\ \A k \in 1 .. Len(s) : s[k].field = f <=> 0 < k /\ k <= 0 + 0
    BY <1>1
  <2>2. ValuesOf(s, f) \in Seq(OutValues) /\ Len(ValuesOf(s, f)) = 0
    BY ONLY <2>1, ValuesOfARow
  <2> QED
    BY <2>2, EmptySeq
<1> QED
  BY <1>2 DEF ParseSSEEvent, Nothing, NoData, LastOr, DataOf

\* A mask is a value too.
LEMMA MaskedValues == \A v \in OutValues : MaskedText(v) \in OutValues
  BY DEF MaskedText, OutValues

\* What is masked says something when the event does.
LEMMA MaskedEvents ==
    ASSUME NEW e \in OutEvents
    PROVE  /\ Masked(e).type = e.type /\ Masked(e).id = e.id
           /\ Masked(e).data = [i \in 1 .. Len(e.data) |-> MaskedText(e.data[i])]
           /\ Masked(e) = [type |-> e.type, data |-> Masked(e).data, id |-> e.id]
           /\ ~ Nothing(e) => ~ Nothing(Masked(e))
<1>1. e.data \in Seq(OutValues) /\ e.data # <<>> /\ e = [type |-> e.type, data |-> e.data, id |-> e.id]
  BY DEF OutEvents
<1>2. DOMAIN e.data = 1 .. Len(e.data) /\ Len(e.data) \in Nat
  BY <1>1, LenProperties
<1> DEFINE d == [i \in 1 .. Len(e.data) |-> MaskedText(e.data[i])]
<1>3. Masked(e) = [type |-> e.type, data |-> d, id |-> e.id]
  <2>1. Masked(e) = [e EXCEPT !.data = d]
    BY <1>2, Zenon DEF Masked
  <2> HIDE DEF d
  <2> QED
    BY <2>1 DEF OutEvents
<1>4. ASSUME d = <<"">> PROVE e.data = <<"">>
  <2>0. "" \in OutValues
    BY DEF OutValues
  <2>1. Len(e.data) = 1
    <3>1. DOMAIN d = 1 .. Len(e.data) /\ DOMAIN <<"">> = 1 .. 1
      BY <2>0, Singles
    <3>2. 1 .. Len(e.data) = 1 .. 1
      BY <1>4, <3>1
    <3>3. 1 \in 1 .. Len(e.data)
      BY <3>2
    <3>4. Len(e.data) \in 1 .. Len(e.data)
      BY <1>2, <3>3
    <3>5. Len(e.data) \in 1 .. 1
      BY <3>2, <3>4, Zenon
    <3> QED
      BY <3>5
  <2>2. MaskedText(e.data[1]) = ""
    <3>1. d[1] = MaskedText(e.data[1])
      BY <2>1
    <3> QED
      BY <1>4, <3>1
  <2>3. e.data[1] = ""
    BY <2>2 DEF MaskedText
  <2> QED
    BY <1>1, <2>0, <2>1, <2>3, Singles
<1> HIDE DEF d
<1>5. Masked(e).type = e.type /\ Masked(e).id = e.id /\ Masked(e).data = d
  BY <1>3
<1>6. ~ Nothing(e) => ~ Nothing(Masked(e))
  BY <1>4, <1>5, Zenon DEF Nothing, NoData
<1> QED
  BY <1>3, <1>5, <1>6 DEF d

-----------------------------------------------------------------------------
(* What is written for an event. *)

\* A field is written on one line, or on none when it is empty.
LEMMA FieldsAreLines ==
    ASSUME NEW name \in {"event", "id"}, NEW v \in OutValues
    PROVE  /\ Field(name, v) \in Seq(OutLines)
           /\ Len(Field(name, v)) = IF v = "" THEN 0 ELSE 1
           /\ v # "" => Field(name, v)[1] = Line(name, v)
<1>1. Line(name, v) \in OutLines
  BY DEF Line, OutLines
<1>2. CASE v = ""
  BY <1>2, EmptySeq DEF Field
<1>3. CASE v # ""
  <2> PICK line : line = Line(name, v)
    OBVIOUS
  <2>1. Field(name, v) = <<line>>
    BY <1>3 DEF Field
  <2>2. <<line>> \in Seq(OutLines) /\ Len(<<line>>) = 1 /\ <<line>>[1] = line
    BY <1>1, Singles
  <2> QED
    BY <1>3, <2>1, <2>2
<1> QED
  BY <1>2, <1>3

\* How many lines a field takes.
Ones(v) == IF v = "" THEN 0 ELSE 1

\* The lines that are written for an event: its type, its id, each of its data,
\* and a blank one.
LEMMA WrittenLines ==
    ASSUME NEW e \in OutEvents
    PROVE  LET a == Ones(e.type)
               b == Ones(e.id)
               n == Len(e.data)
               w == Written(e)
           IN  /\ w \in Seq(OutLines) /\ Len(w) = a + b + n + 1
               /\ a = 1 => w[1] = Line("event", e.type)
               /\ b = 1 => w[a + 1] = Line("id", e.id)
               /\ \A i \in 1 .. n : w[a + b + i] = Line("data", MaskedText(e.data[i]))
               /\ w[a + b + n + 1] = Blank
<1> DEFINE a == Ones(e.type)
           b == Ones(e.id)
           n == Len(e.data)
           A == Field("event", e.type)
           B == Field("id", e.id)
           D == [i \in DOMAIN e.data |-> Line("data", MaskedText(e.data[i]))]
           L == <<Blank>>
<1>0. e.type \in OutValues /\ e.id \in OutValues /\ e.data \in Seq(OutValues)
  BY DEF OutEvents
<1>1. A \in Seq(OutLines) /\ Len(A) = a /\ (a = 1 => A[1] = Line("event", e.type)) /\ a \in {0, 1}
  <2>1. "event" \in {"event", "id"}
    OBVIOUS
  <2>2. /\ A \in Seq(OutLines) /\ Len(A) = IF e.type = "" THEN 0 ELSE 1
        /\ e.type # "" => A[1] = Line("event", e.type)
    BY <1>0, <2>1, FieldsAreLines
  <2> HIDE DEF A
  <2>3. CASE e.type = ""
    <3>1. a = 0
      BY <2>3 DEF Ones
    <3>2. Len(A) = 0 /\ A \in Seq(OutLines)
      BY <2>2, <2>3, Zenon
    <3> HIDE DEF a
    <3> QED
      BY ONLY <3>1, <3>2
  <2>4. CASE e.type # ""
    BY <2>2, <2>4 DEF Ones
  <2> QED
    BY <2>3, <2>4
<1>2. B \in Seq(OutLines) /\ Len(B) = b /\ (b = 1 => B[1] = Line("id", e.id)) /\ b \in {0, 1}
  <2>1. "id" \in {"event", "id"}
    OBVIOUS
  <2>2. /\ B \in Seq(OutLines) /\ Len(B) = IF e.id = "" THEN 0 ELSE 1
        /\ e.id # "" => B[1] = Line("id", e.id)
    BY <1>0, <2>1, FieldsAreLines
  <2> HIDE DEF B
  <2>3. CASE e.id = ""
    <3>1. b = 0
      BY <2>3 DEF Ones
    <3>2. Len(B) = 0 /\ B \in Seq(OutLines)
      BY <2>2, <2>3, Zenon
    <3> HIDE DEF b
    <3> QED
      BY ONLY <3>1, <3>2
  <2>4. CASE e.id # ""
    BY <2>2, <2>4 DEF Ones
  <2> QED
    BY <2>3, <2>4
<1>3. /\ D \in Seq(OutLines) /\ Len(D) = n /\ n \in Nat
      /\ \A i \in 1 .. n : D[i] = Line("data", MaskedText(e.data[i]))
  <2>1. n \in Nat /\ DOMAIN e.data = 1 .. n /\ \A i \in 1 .. n : e.data[i] \in OutValues
    BY <1>0, LenProperties, ElementOfSeq
  <2>2. \A i \in 1 .. n : Line("data", MaskedText(e.data[i])) \in OutLines
    BY <2>1, MaskedValues DEF Line, OutLines
  <2>3. D \in [1 .. n -> OutLines] /\ \A i \in 1 .. n : D[i] = Line("data", MaskedText(e.data[i]))
    BY <2>1, <2>2
  <2> HIDE DEF D, n
  <2> QED
    BY <2>1, <2>3, FunctionsAreSequences
<1>4. L \in Seq(OutLines) /\ Len(L) = 1 /\ L[1] = Blank
  <2>1. Blank \in OutLines
    BY EmptyIsAValue DEF Blank, Line, OutLines
  <2> QED
    BY <2>1, Singles
<1>5. Written(e) = ((A \o B) \o D) \o L
  BY DEF Written
<1> HIDE DEF a, b, n, A, B, D, L
<1>6. PICK AB : AB = A \o B
  OBVIOUS
<1>7. /\ AB \in Seq(OutLines) /\ Len(AB) = a + b
      /\ \A i \in 1 .. a : AB[i] = A[i]
      /\ \A i \in 1 .. b : AB[a + i] = B[i]
  BY <1>1, <1>2, <1>6, Joined
<1>8. PICK ABD : ABD = AB \o D
  OBVIOUS
<1>9. /\ ABD \in Seq(OutLines) /\ Len(ABD) = (a + b) + n
      /\ \A i \in 1 .. a + b : ABD[i] = AB[i]
      /\ \A i \in 1 .. n : ABD[(a + b) + i] = D[i]
  <2>1. AB \in Seq(OutLines) /\ D \in Seq(OutLines)
    BY <1>3, <1>7
  <2>2. /\ ABD \in Seq(OutLines) /\ Len(ABD) = Len(AB) + Len(D)
        /\ \A i \in 1 .. Len(AB) : ABD[i] = AB[i]
        /\ \A i \in 1 .. Len(D) : ABD[Len(AB) + i] = D[i]
    BY ONLY <2>1, <1>8, Joined
  <2>3. Len(AB) = a + b /\ Len(D) = n
    BY <1>3, <1>7
  <2> QED
    BY ONLY <2>2, <2>3
<1>10. PICK w : w = ABD \o L
  OBVIOUS
<1>11. /\ w \in Seq(OutLines) /\ Len(w) = ((a + b) + n) + 1
       /\ \A i \in 1 .. (a + b) + n : w[i] = ABD[i]
       /\ \A i \in 1 .. 1 : w[((a + b) + n) + i] = L[i]
  <2>1. ABD \in Seq(OutLines) /\ L \in Seq(OutLines)
    BY <1>4, <1>9
  <2>2. /\ w \in Seq(OutLines) /\ Len(w) = Len(ABD) + Len(L)
        /\ \A i \in 1 .. Len(ABD) : w[i] = ABD[i]
        /\ \A i \in 1 .. Len(L) : w[Len(ABD) + i] = L[i]
    BY ONLY <2>1, <1>10, Joined
  <2>3. Len(ABD) = (a + b) + n /\ Len(L) = 1
    BY <1>4, <1>9
  <2> QED
    BY ONLY <2>2, <2>3
<1>12. w = Written(e)
  BY <1>5, <1>6, <1>8, <1>10
<1>13. a \in Nat /\ b \in Nat /\ n \in Nat
  BY <1>1, <1>2, <1>3
<1>14. a = 1 => w[1] = Line("event", e.type)
  <2> SUFFICES ASSUME a = 1 PROVE w[1] = Line("event", e.type)
    OBVIOUS
  <2>1. 1 \in 1 .. a /\ 1 \in 1 .. a + b /\ 1 \in 1 .. (a + b) + n
    BY <1>13
  <2>2. w[1] = A[1]
    BY ONLY <1>7, <1>9, <1>11, <2>1
  <2> QED
    BY <1>1, <2>2
<1>15. b = 1 => w[a + 1] = Line("id", e.id)
  <2> SUFFICES ASSUME b = 1 PROVE w[a + 1] = Line("id", e.id)
    OBVIOUS
  <2>1. 1 \in 1 .. b /\ a + 1 \in 1 .. a + b /\ a + 1 \in 1 .. (a + b) + n
    BY <1>13
  <2>2. w[a + 1] = B[1]
    BY ONLY <1>7, <1>9, <1>11, <2>1
  <2> QED
    BY <1>2, <2>2
<1>16. ASSUME NEW i \in 1 .. n PROVE w[a + b + i] = Line("data", MaskedText(e.data[i]))
  <2>1. (a + b) + i \in 1 .. (a + b) + n
    BY <1>13
  <2>2. w[(a + b) + i] = D[i]
    BY <1>9, <1>11, <2>1, Zenon
  <2> QED
    BY <1>3, <2>2
<1>17. w[a + b + n + 1] = Blank
  <2>1. 1 \in 1 .. 1
    OBVIOUS
  <2> QED
    BY <1>4, <1>11, <2>1
<1> QED
  BY <1>11, <1>12, <1>14, <1>15, <1>16, <1>17, Zenon DEF a, b, n

\* A line has the field and the value it is given.
LEMMA LinesAreLines == \A f, v : Line(f, v).field = f /\ Line(f, v).value = v
  BY DEF Line

\* The last of one value, or of none.
LEMMA LastOfOne ==
    ASSUME NEW v \in Seq(OutValues), NEW x, Len(v) = Ones(x), x # "" => v[1] = x
    PROVE  LastOr(v, "") = x
<1>1. CASE x = ""
  <2>1. Len(v) = 0
    BY <1>1 DEF Ones
  <2>2. v = <<>>
    BY <2>1, EmptySeq
  <2> QED
    BY <1>1, <2>2 DEF LastOr
<1>2. CASE x # ""
  <2>1. Len(v) = 1 /\ v[1] = x
    BY <1>2 DEF Ones
  <2>2. v # <<>>
    BY <2>1, EmptySeq
  <2> QED
    BY <2>1, <2>2 DEF LastOr, Last
<1> QED
  BY <1>1, <1>2

\* What the browser reads is the event, masked; no line of it but the last is blank.
LEMMA WrittenIsRead ==
    ASSUME NEW e \in OutEvents, NEW s \in Seq(OutLines), Len(Written(e)) = Len(s) + 1,
           \A k \in 1 .. Len(s) : s[k] = Written(e)[k]
    PROVE  ParseSSEEvent(s) = Masked(e) /\ \A k \in 1 .. Len(s) : s[k] # Blank
<1> PICK a, b, n, w : a = Ones(e.type) /\ b = Ones(e.id) /\ n = Len(e.data) /\ w = Written(e)
  OBVIOUS
<1>1. /\ w \in Seq(OutLines) /\ Len(w) = a + b + n + 1
      /\ a = 1 => w[1] = Line("event", e.type)
      /\ b = 1 => w[a + 1] = Line("id", e.id)
      /\ \A i \in 1 .. n : w[a + b + i] = Line("data", MaskedText(e.data[i]))
  BY WrittenLines, Zenon
<1>2. /\ a \in {0, 1} /\ b \in {0, 1} /\ n \in Nat /\ n # 0 /\ Len(s) \in Nat
      /\ e.data \in Seq(OutValues)
  <2>1. e.data \in Seq(OutValues) /\ e.data # <<>>
    BY DEF OutEvents
  <2> QED
    BY <2>1, EmptySeq, LenProperties DEF Ones
<1>3. Len(s) = a + b + n /\ a \in Nat /\ b \in Nat /\ a <= 1 /\ b <= 1
  <2>1. Len(w) = Len(s) + 1
    OBVIOUS
  <2>2. Len(w) = a + b + n + 1
    BY <1>1, Zenon
  <2>3. a \in {0, 1} /\ b \in {0, 1} /\ n \in Nat /\ Len(s) \in Nat
    BY <1>2, Zenon
  <2> QED
    BY ONLY <2>1, <2>2, <2>3
<1>4. ASSUME NEW k \in 1 .. Len(s)
      PROVE  /\ k <= a => s[k] = Line("event", e.type)
             /\ ~ k <= a /\ k <= a + b => s[k] = Line("id", e.id)
             /\ ~ k <= a + b => s[k] = Line("data", MaskedText(e.data[k - (a + b)]))
  <2>1. s[k] = w[k]
    OBVIOUS
  <2>2. k <= a => k = 1 /\ a = 1
    BY <1>2
  <2>3. ~ k <= a /\ k <= a + b => k = a + 1 /\ b = 1
    BY <1>2
  <2>4. ~ k <= a + b => k - (a + b) \in 1 .. n /\ a + b + (k - (a + b)) = k
    BY ONLY <1>2, <1>3, k \in 1 .. Len(s)
  <2> QED
    BY <1>1, <2>1, <2>2, <2>3, <2>4
<1>5. ASSUME NEW k \in 1 .. Len(s)
      PROVE  /\ s[k].field = "event" <=> 0 < k /\ k <= 0 + a
             /\ s[k].field = "id" <=> a < k /\ k <= a + b
             /\ s[k].field = "data" <=> a + b < k /\ k <= (a + b) + n
             /\ s[k].field # "blank"
  <2>1. CASE k <= a
    <3>1. s[k] = Line("event", e.type)
      BY <1>4, <2>1
    <3>2. s[k].field = "event"
      BY <3>1, LinesAreLines, Zenon
    <3> QED
      BY <1>2, <2>1, <3>2
  <2>2. CASE ~ k <= a /\ k <= a + b
    <3>1. s[k] = Line("id", e.id)
      BY <1>4, <2>2
    <3>2. s[k].field = "id"
      BY <3>1, LinesAreLines, Zenon
    <3> QED
      BY <1>2, <2>2, <3>2
  <2>3. CASE ~ k <= a + b
    <3>0. s[k] = Line("data", MaskedText(e.data[k - (a + b)]))
      BY <1>4, <2>3
    <3>1. s[k].field = "data"
      BY <3>0, LinesAreLines, Zenon
    <3>2. k \in Nat /\ a + b < k /\ k <= (a + b) + n /\ ~ k <= 0 + a
      BY ONLY <1>2, <1>3, <2>3, k \in 1 .. Len(s)
    <3> QED
      BY ONLY <2>3, <3>1, <3>2
  <2> QED
    BY <2>1, <2>2, <2>3
<1>6. LastOr(ValuesOf(s, "event"), "") = e.type
  <2> PICK v : v = ValuesOf(s, "event")
    OBVIOUS
  <2>1. 0 \in Nat /\ a \in Nat /\ 0 + a <= Len(s)
    BY ONLY <1>2, <1>3
  <2>2. v \in Seq(OutValues) /\ Len(v) = a /\ \A i \in 1 .. a : v[i] = s[0 + i].value
    <3>1. \A k \in 1 .. Len(s) : s[k].field = "event" <=> 0 < k /\ k <= 0 + a
      BY <1>5
    <3> QED
      BY ONLY <2>1, <3>1, s \in Seq(OutLines), v = ValuesOf(s, "event"), ValuesOfARow
  <2>3. e.type # "" => v[1] = e.type
    <3>1. e.type # "" => a = 1
      BY DEF Ones
    <3>2. a = 1 => 1 \in 1 .. a /\ 0 + 1 = 1 /\ 1 \in 1 .. Len(s) /\ 1 <= a
      BY ONLY <1>2, <1>3
    <3>3. a = 1 => s[1] = Line("event", e.type)
      BY <1>4, <3>2
    <3>4. a = 1 => s[1].value = e.type
      BY ONLY <3>3, LinesAreLines
    <3> QED
      BY <2>2, <3>1, <3>2, <3>4
  <2> QED
    <3>1. v \in Seq(OutValues) /\ Len(v) = Ones(e.type) /\ (e.type # "" => v[1] = e.type)
      BY <2>2, <2>3
    <3> QED
      BY ONLY <3>1, v = ValuesOf(s, "event"), LastOfOne
<1>7. LastOr(ValuesOf(s, "id"), "") = e.id
  <2> PICK v : v = ValuesOf(s, "id")
    OBVIOUS
  <2>1. a \in Nat /\ b \in Nat /\ a + b <= Len(s)
    BY ONLY <1>2, <1>3
  <2>2. v \in Seq(OutValues) /\ Len(v) = b /\ \A i \in 1 .. b : v[i] = s[a + i].value
    <3>1. \A k \in 1 .. Len(s) : s[k].field = "id" <=> a < k /\ k <= a + b
      BY <1>5
    <3> QED
      BY ONLY <2>1, <3>1, s \in Seq(OutLines), v = ValuesOf(s, "id"), ValuesOfARow
  <2>3. e.id # "" => v[1] = e.id
    <3>1. e.id # "" => b = 1
      BY DEF Ones
    <3>2. b = 1 => 1 \in 1 .. b /\ a + 1 \in 1 .. Len(s) /\ ~ a + 1 <= a /\ a + 1 <= a + b
      BY ONLY <1>2, <1>3
    <3>3. b = 1 => s[a + 1] = Line("id", e.id)
      BY <1>4, <3>2
    <3>4. b = 1 => s[a + 1].value = e.id
      BY ONLY <3>3, LinesAreLines
    <3> QED
      BY <2>2, <3>1, <3>2, <3>4
  <2> QED
    <3>1. v \in Seq(OutValues) /\ Len(v) = Ones(e.id) /\ (e.id # "" => v[1] = e.id)
      BY <2>2, <2>3
    <3> QED
      BY ONLY <3>1, v = ValuesOf(s, "id"), LastOfOne
<1>8. DataOf(ValuesOf(s, "data")) = Masked(e).data
  <2> PICK v, m, d : v = ValuesOf(s, "data") /\ m = a + b /\ d = Masked(e).data
    OBVIOUS
  <2>1. m \in Nat /\ n \in Nat /\ m + n <= Len(s)
    BY ONLY <1>2, <1>3, m = a + b
  <2>2. v \in Seq(OutValues) /\ Len(v) = n /\ \A i \in 1 .. n : v[i] = s[m + i].value
    <3>1. \A k \in 1 .. Len(s) : s[k].field = "data" <=> m < k /\ k <= m + n
      BY <1>5
    <3> QED
      BY ONLY <2>1, <3>1, s \in Seq(OutLines), v = ValuesOf(s, "data"), ValuesOfARow
  <2>3. ASSUME NEW i \in 1 .. n PROVE v[i] = MaskedText(e.data[i])
    <3>1. m + i \in 1 .. Len(s) /\ ~ m + i <= a + b /\ (m + i) - (a + b) = i
      BY ONLY <1>2, <1>3, m = a + b, i \in 1 .. n
    <3>2. s[m + i] = Line("data", MaskedText(e.data[i]))
      BY <1>4, <3>1
    <3>3. s[m + i].value = MaskedText(e.data[i])
      BY ONLY <3>2, LinesAreLines
    <3> QED
      BY <2>2, <3>3
  <2>4. d = [i \in 1 .. n |-> MaskedText(e.data[i])]
    BY MaskedEvents
  <2>5. v = [i \in 1 .. n |-> v[i]]
    BY <2>2, LenProperties
  <2>6. v = d
    BY <2>3, <2>4, <2>5
  <2>7. v # <<>>
    BY <1>2, <2>2, EmptySeq
  <2> QED
    BY <2>6, <2>7 DEF DataOf
<1>9. ParseSSEEvent(s) = Masked(e)
  <2>1. Masked(e) = [type |-> e.type, data |-> Masked(e).data, id |-> e.id]
    BY MaskedEvents
  <2> QED
    BY <1>6, <1>7, <1>8, <2>1, Zenon DEF ParseSSEEvent
<1> QED
  <2>1. Blank.field = "blank"
    BY LinesAreLines DEF Blank
  <2> QED
    BY <1>5, <1>9, <2>1

-----------------------------------------------------------------------------
(* What the browser has read. *)

\* The browser is between two events.
Ended(lines) == lines = <<>> \/ lines[Len(lines)] = Blank

\* EventsRead, of any lines.
ReadIn(lines) ==
    {i \in DOMAIN lines : lines[i] = Blank /\ ~ Nothing(ParseSSEEvent(Stretch(lines, i)))}

\* Lines that end with their only blank one.
IsOne(w) ==
    /\ w \in Seq(OutLines) /\ w # <<>> /\ w[Len(w)] = Blank
    /\ \A k \in 1 .. Len(w) - 1 : w[k] # Blank

\* What is written for an event, behind lines that have ended, is one more stretch,
\* and the others stay as they are.
LEMMA OneMoreStretch ==
    ASSUME NEW lines \in Seq(OutLines), Ended(lines), NEW w, IsOne(w)
    PROVE  LET more == lines \o w
               n    == Len(lines)
           IN  /\ more \in Seq(OutLines) /\ Len(more) = n + Len(w) /\ Ended(more)
               /\ n \in Nat /\ Len(w) \in Nat /\ Len(w) >= 1
               /\ \A i \in 1 .. n : more[i] = lines[i] /\ Stretch(more, i) = Stretch(lines, i)
               /\ \A i \in n + 1 .. n + Len(w) : more[i] = Blank <=> i = n + Len(w)
               /\ Stretch(more, n + Len(w)) \in Seq(OutLines)
               /\ Len(Stretch(more, n + Len(w))) = Len(w) - 1
               /\ \A k \in 1 .. Len(w) - 1 : Stretch(more, n + Len(w))[k] = w[k]
<1> PICK more, n, l : more = lines \o w /\ n = Len(lines) /\ l = Len(w)
  OBVIOUS
<1>1. /\ n \in Nat /\ l \in Nat /\ l >= 1 /\ w \in Seq(OutLines) /\ w[l] = Blank
      /\ \A k \in 1 .. l - 1 : w[k] # Blank
  <2>1. w \in Seq(OutLines) /\ w # <<>>
    BY DEF IsOne
  <2>2. l \in Nat \ {0}
    BY <2>1, EmptySeq
  <2> QED
    BY <2>1, <2>2, LenProperties DEF IsOne
<1>2. /\ more \in Seq(OutLines) /\ Len(more) = n + l
      /\ \A i \in 1 .. n : more[i] = lines[i]
      /\ \A i \in 1 .. l : more[n + i] = w[i]
  BY <1>1, Joined
<1>3. ASSUME NEW i \in n + 1 .. n + l PROVE more[i] = Blank <=> i = n + l
  <2>1. i - n \in 1 .. l /\ n + (i - n) = i /\ (i - n = l <=> i = n + l)
        /\ (i - n # l => i - n \in 1 .. l - 1)
    <3>1. n \in Nat /\ l \in Nat /\ l >= 1
      BY <1>1
    <3> QED
      BY ONLY <3>1, i \in n + 1 .. n + l
  <2>2. more[i] = w[i - n]
    BY <1>2, <2>1
  <2> QED
    BY <1>1, <2>1, <2>2
<1>4. Ended(more)
  <2>1. n + l \in n + 1 .. n + l
    BY <1>1
  <2> QED
    BY <1>2, <1>3, <2>1 DEF Ended
<1>5. ASSUME NEW i \in 1 .. n PROVE Stretch(more, i) = Stretch(lines, i)
  <2>1. /\ i \in Nat /\ i >= 1 /\ i - 1 <= Len(lines) /\ i - 1 <= Len(more)
        /\ \A k \in 1 .. i - 1 : k \in 1 .. n
    BY <1>1, <1>2
  <2>2. \A k \in 1 .. i - 1 : more[k] = lines[k]
    BY <1>2, <2>1
  <2> QED
    BY <1>2, <2>1, <2>2, StretchesStay
<1>6. CutAt(more, n + l, n)
  <2>1. n \in 0 .. (n + l) - 1
    BY <1>1
  <2>2. n = 0 \/ more[n] = Blank
    <3>1. CASE lines = <<>>
      BY <3>1, EmptySeq
    <3>2. CASE lines[n] = Blank /\ n # 0
      <4>1. n \in 1 .. n
        BY <1>1, <3>2
      <4> QED
        BY <1>2, <3>2, <4>1
    <3> QED
      BY <3>1, <3>2 DEF Ended
  <2>3. ASSUME NEW k \in n + 1 .. (n + l) - 1 PROVE more[k] # Blank
    <3>1. k \in n + 1 .. n + l /\ k # n + l
      BY <1>1
    <3> QED
      BY <1>3, <3>1
  <2> QED
    BY <2>1, <2>2, <2>3 DEF CutAt
<1> PICK p : p = SubSeq(more, n + 1, (n + l) - 1)
  OBVIOUS
<1>7. Stretch(more, n + l) = p
  <2>1. n + l \in Nat /\ n + l >= 1
    BY <1>1
  <2> QED
    BY <1>6, <2>1, StretchesAreCut
<1>8. /\ p \in Seq(OutLines) /\ Len(p) = l - 1
      /\ \A k \in 1 .. l - 1 : p[k] = w[k]
  <2>1. /\ n + 1 \in Nat /\ (n + l) - 1 \in Nat /\ n + 1 >= 1 /\ n + 1 <= ((n + l) - 1) + 1
        /\ (n + l) - 1 <= Len(more) /\ ((n + l) - 1) + 1 - (n + 1) = l - 1
    BY <1>1, <1>2
  <2>2. /\ p \in Seq(OutLines) /\ Len(p) = ((n + l) - 1) + 1 - (n + 1)
        /\ \A k \in 1 .. ((n + l) - 1) + 1 - (n + 1) : p[k] = more[(n + 1) + k - 1]
    BY <1>2, <2>1, PartsAre
  <2>3. ASSUME NEW k \in 1 .. l - 1 PROVE p[k] = w[k]
    <3>1. k \in 1 .. l /\ (n + 1) + k - 1 = n + k
      BY <1>1
    <3> QED
      BY <1>2, <2>1, <2>2, <3>1
  <2> QED
    BY <2>1, <2>2, <2>3
<1> QED
  BY <1>1, <1>2, <1>3, <1>4, <1>5, <1>7, <1>8, Zenon

\* It is read as one event more, if it says something.
LEMMA OneMoreRead ==
    ASSUME NEW lines \in Seq(OutLines), Ended(lines), NEW w, IsOne(w),
           ~ Nothing(ParseSSEEvent(Stretch(lines \o w, Len(lines \o w))))
    PROVE  LET n == Len(lines \o w)
           IN  /\ ReadIn(lines \o w) = ReadIn(lines) \cup {n} /\ n \in Nat
               /\ ReadIn(lines) \in SUBSET Nat /\ IsFiniteSet(ReadIn(lines))
               /\ \A i \in ReadIn(lines) :
                     i < n /\ Stretch(lines \o w, i) = Stretch(lines, i)
<1> PICK more, m, l : more = lines \o w /\ m = Len(lines) /\ l = Len(w)
  OBVIOUS
<1>1. /\ more \in Seq(OutLines) /\ Len(more) = m + l
      /\ m \in Nat /\ l \in Nat /\ l >= 1
      /\ \A i \in 1 .. m : more[i] = lines[i] /\ Stretch(more, i) = Stretch(lines, i)
      /\ \A i \in m + 1 .. m + l : more[i] = Blank <=> i = m + l
  BY OneMoreStretch, ZenonT(40)
<1>2. DOMAIN more = 1 .. m + l /\ DOMAIN lines = 1 .. m
  BY <1>1, LenProperties
<1>3. ReadIn(lines) \subseteq 1 .. m
  BY <1>2 DEF ReadIn
<1>4. IsFiniteSet(ReadIn(lines))
  <2>1. IsFiniteSet(1 .. m)
    BY <1>1, FS_Interval
  <2> QED
    BY <1>3, <2>1, FS_Subset
<1>5. ASSUME NEW i PROVE i \in ReadIn(more) <=> i \in ReadIn(lines) \/ i = m + l
  <2>1. CASE i \in 1 .. m
    <3>1. i \in 1 .. m + l /\ i # m + l
      BY <1>1, <2>1
    <3> QED
      BY <1>1, <1>2, <2>1, <3>1 DEF ReadIn
  <2>2. CASE i \in m + 1 .. m + l
    <3>1. i \in 1 .. m + l /\ i \notin 1 .. m
      BY <1>1, <2>2
    <3> QED
      BY <1>1, <1>2, <2>2, <3>1 DEF ReadIn
  <2>3. CASE i \notin 1 .. m + l
    <3>1. i \notin 1 .. m /\ i # m + l
      BY <1>1, <2>3
    <3> QED
      BY <1>2, <2>3, <3>1 DEF ReadIn
  <2> QED
    BY <1>1, <2>1, <2>2, <2>3
<1>6. \A i \in ReadIn(lines) : i < m + l /\ Stretch(more, i) = Stretch(lines, i)
  <2>1. \A i \in 1 .. m : i < m + l
    BY <1>1
  <2> QED
    BY <1>1, <1>3, <2>1
<1>7. ReadIn(lines) \in SUBSET Nat /\ m + l \in Nat
  BY <1>1, <1>3
<1>8. ReadIn(more) = ReadIn(lines) \cup {m + l}
  BY <1>5
<1> QED
  BY <1>1, <1>4, <1>6, <1>7, <1>8, Zenon

\* What is written for an event is such lines.
LEMMA OneIsWritten ==
    ASSUME NEW e \in OutEvents
    PROVE  IsOne(Written(e))
<1> PICK w, l : w = Written(e) /\ l = Len(Written(e)) - 1
  OBVIOUS
<1>1. /\ w \in Seq(OutLines) /\ Len(w) = l + 1 /\ l \in Nat /\ w[l + 1] = Blank
  <2> PICK a, b, n : a = Ones(e.type) /\ b = Ones(e.id) /\ n = Len(e.data)
    OBVIOUS
  <2>1. w \in Seq(OutLines) /\ Len(w) = a + b + n + 1 /\ w[a + b + n + 1] = Blank
    BY WrittenLines, Zenon
  <2>2. a \in Nat /\ b \in Nat /\ n \in Nat
    <3>1. e.data \in Seq(OutValues)
      BY DEF OutEvents
    <3> QED
      BY <3>1, LenProperties DEF Ones
  <2>3. Len(w) - 1 = a + b + n /\ a + b + n \in Nat
    BY ONLY <2>1, <2>2
  <2>4. l = a + b + n /\ l \in Nat
    BY <2>3
  <2> QED
    BY ONLY <2>1, <2>4
<1> DEFINE s == SubSeq(w, 1, l)
<1>2. s \in Seq(OutLines) /\ Len(s) = l /\ \A k \in 1 .. l : s[k] = w[k]
  <2>1. 1 \in Nat /\ 1 >= 1 /\ 1 <= l + 1 /\ l <= Len(w) /\ l + 1 - 1 = l
    BY <1>1
  <2>2. s \in Seq(OutLines) /\ Len(s) = l + 1 - 1 /\ \A k \in 1 .. l + 1 - 1 : s[k] = w[1 + k - 1]
    BY ONLY <1>1, <2>1, PartsAre
  <2>3. \A k \in 1 .. l : 1 + k - 1 = k
    BY <1>1
  <2> QED
    BY <2>1, <2>2, <2>3
<1> HIDE DEF s
<1>3. \A k \in 1 .. l : s[k] # Blank
  BY <1>1, <1>2, WrittenIsRead
<1>4. w # <<>>
  BY <1>1, EmptySeq
<1>5. Len(w) - 1 = l
  BY <1>1
<1> QED
  BY <1>1, <1>2, <1>3, <1>4, <1>5 DEF IsOne

\* And so is what tells of an error.
LEMMA ErrorsAreOne ==
    /\ IsOne(ErrorEvent) /\ Len(ErrorEvent) = 3
    /\ Front(ErrorEvent) \in Seq(OutLines) /\ Len(Front(ErrorEvent)) = 2
    /\ \A k \in 1 .. 2 : Front(ErrorEvent)[k] = ErrorEvent[k]
    /\ ~ Nothing(ParseSSEEvent(Front(ErrorEvent)))
<1> PICK x, y : x = Line("event", "error") /\ y = Line("data", "upstream")
  OBVIOUS
<1>1. x \in OutLines /\ y \in OutLines /\ Blank \in OutLines /\ x # Blank /\ y # Blank
      /\ x.field = "event" /\ y.field = "data" /\ x.value = "error"
  <2>1. {"", "error", "upstream"} \subseteq OutValues
    BY DEF OutValues
  <2> QED
    BY <2>1 DEF Blank, Line, OutLines
<1> PICK w : w = <<x, y, Blank>>
  OBVIOUS
<1>2. w = ErrorEvent
  BY DEF ErrorEvent
<1>3. w \in Seq(OutLines) /\ Len(w) = 3 /\ w[1] = x /\ w[2] = y /\ w[3] = Blank
  BY <1>1
<1>4. IsOne(w)
  <2>1. w # <<>> /\ \A k \in 1 .. 3 - 1 : w[k] # Blank
    BY <1>1, <1>3
  <2> QED
    BY <1>3, <2>1 DEF IsOne
<1> PICK s : s = SubSeq(w, 1, 2)
  OBVIOUS
<1>5. s \in Seq(OutLines) /\ Len(s) = 2 /\ \A k \in 1 .. 2 : s[k] = w[k]
  <2>1. 1 \in Nat /\ 2 \in Nat /\ 1 >= 1 /\ 1 <= 2 + 1 /\ 2 <= Len(w) /\ 2 + 1 - 1 = 2
    BY <1>3
  <2>2. s \in Seq(OutLines) /\ Len(s) = 2 + 1 - 1 /\ \A k \in 1 .. 2 + 1 - 1 : s[k] = w[1 + k - 1]
    BY <1>3, <2>1, PartsAre
  <2>3. \A k \in 1 .. 2 : 1 + k - 1 = k
    OBVIOUS
  <2> QED
    BY <2>1, <2>2, <2>3
<1>6. s = Front(w)
  BY <1>3 DEF Front
<1>7. LastOr(ValuesOf(s, "event"), "") = "error"
  <2> PICK v, m, j : v = ValuesOf(s, "event") /\ m = 0 /\ j = 1
    OBVIOUS
  <2>1. \A k \in 1 .. Len(s) : s[k].field = "event" <=> m < k /\ k <= m + j
    BY <1>1, <1>3, <1>5
  <2>2. m \in Nat /\ j \in Nat /\ m + j <= Len(s)
    BY <1>5
  <2>3. v \in Seq(OutValues) /\ Len(v) = j /\ \A i \in 1 .. j : v[i] = s[m + i].value
    <3>1. s \in Seq(OutLines)
      BY <1>5
    <3> QED
      BY ONLY <2>1, <2>2, <3>1, v = ValuesOf(s, "event"), ValuesOfARow
  <2>4. v[1] = "error"
    BY <1>1, <1>3, <1>5, <2>3
  <2>5. Len(v) = Ones("error")
    BY <2>3 DEF Ones
  <2> QED
    BY <2>3, <2>4, <2>5, LastOfOne
<1>8. ~ Nothing(ParseSSEEvent(s))
  BY <1>7 DEF Nothing, ParseSSEEvent
<1> QED
  BY <1>2, <1>3, <1>4, <1>5, <1>6, <1>8

-----------------------------------------------------------------------------
(* What the upstream has sent. *)

\* SentEvent and EventsSent, of any lines.
SentOf(lines, i) == ParseSSEEvent(LeftOf(Stretch(lines, i)))

SentIn(lines, n) ==
    {i \in 1 .. n : /\ lines[i] = Blank /\ ~ Nothing(SentOf(lines, i))
                    /\ Wanted(SentOf(lines, i))}

\* They depend on the lines that were read only.
LEMMA SentStays ==
    ASSUME NEW s \in Seq(OutLines), NEW t \in Seq(OutLines), NEW n \in Nat,
           n <= Len(s), n <= Len(t), \A k \in 1 .. n : s[k] = t[k]
    PROVE  /\ SentIn(s, n) = SentIn(t, n)
           /\ \A i \in 1 .. n + 1 : Stretch(s, i) = Stretch(t, i) /\ SentOf(s, i) = SentOf(t, i)
<1>1. ASSUME NEW i \in 1 .. n + 1 PROVE Stretch(s, i) = Stretch(t, i)
  <2>1. i \in Nat /\ i >= 1 /\ i - 1 <= n /\ Len(s) \in Nat /\ Len(t) \in Nat
    BY LenProperties
  <2>2. i - 1 <= Len(s) /\ i - 1 <= Len(t) /\ \A k \in 1 .. i - 1 : k \in 1 .. n
    BY <2>1
  <2> QED
    BY <2>1, <2>2, StretchesStay
<1>2. \A i \in 1 .. n + 1 : SentOf(s, i) = SentOf(t, i)
  BY <1>1 DEF SentOf
<1>3. \A i \in 1 .. n : i \in 1 .. n + 1
  OBVIOUS
<1>4. SentIn(s, n) = SentIn(t, n)
  BY <1>2, <1>3 DEF SentIn
<1> QED
  BY <1>1, <1>2, <1>4

\* A line more.
LEMMA SentGrows ==
    ASSUME NEW s, NEW n \in Nat
    PROVE  /\ SentIn(s, n) \in SUBSET Nat /\ IsFiniteSet(SentIn(s, n))
           /\ \A i \in SentIn(s, n) : i < n + 1
           /\ SentIn(s, n + 1) =
                 SentIn(s, n) \cup
                 IF /\ s[n + 1] = Blank /\ ~ Nothing(SentOf(s, n + 1))
                    /\ Wanted(SentOf(s, n + 1))
                 THEN {n + 1} ELSE {}
<1>1. SentIn(s, n) \subseteq 1 .. n
  BY DEF SentIn
<1>2. IsFiniteSet(SentIn(s, n))
  BY <1>1, FS_Interval, FS_Subset
<1>3. \A i : i \in 1 .. n + 1 <=> i \in 1 .. n \/ i = n + 1
  OBVIOUS
<1>4. n + 1 \notin 1 .. n
  OBVIOUS
<1> DEFINE T(i) == s[i] = Blank /\ ~ Nothing(SentOf(s, i)) /\ Wanted(SentOf(s, i))
<1>5. \A i : i \in SentIn(s, n) <=> i \in 1 .. n /\ T(i)
  BY DEF SentIn
<1>6. \A i : i \in SentIn(s, n + 1) <=> i \in 1 .. n + 1 /\ T(i)
  BY DEF SentIn
<1>7. SentIn(s, n + 1) = SentIn(s, n) \cup IF T(n + 1) THEN {n + 1} ELSE {}
  <2> HIDE DEF T
  <2> QED
    BY <1>3, <1>5, <1>6, Zenon
<1> QED
  BY <1>1, <1>2, <1>7

-----------------------------------------------------------------------------
(* Events survive. *)

\* Survive, of any lines.
SurviveIn(due, read, from, to) ==
    /\ Cardinality(read) = Cardinality(due)
    /\ \A r \in read, s \in due :
          Place(read, r) = Place(due, s) =>
              ParseSSEEvent(Stretch(to, r)) = Masked(SentOf(from, s))

\* One more event is sent, and one more read that is it: they survive as before.
LEMMA OneMoreSurvives ==
    ASSUME NEW due \in SUBSET Nat, IsFiniteSet(due), NEW n \in Nat, \A i \in due : i < n,
           NEW read \in SUBSET Nat, IsFiniteSet(read), NEW m \in Nat, \A i \in read : i < m,
           NEW from, NEW to, NEW more, SurviveIn(due, read, from, to),
           \A r \in read : Stretch(more, r) = Stretch(to, r),
           ParseSSEEvent(Stretch(more, m)) = Masked(SentOf(from, n))
    PROVE  SurviveIn(due \cup {n}, read \cup {m}, from, more)
<1>1. /\ Cardinality(due) \in Nat /\ Cardinality(due \cup {n}) = Cardinality(due) + 1
      /\ \A i \in due : Place(due \cup {n}, i) = Place(due, i)
      /\ Place(due \cup {n}, n) = Cardinality(due) + 1
  BY OneMore
<1>2. /\ Cardinality(read) \in Nat /\ Cardinality(read \cup {m}) = Cardinality(read) + 1
      /\ \A i \in read : Place(read \cup {m}, i) = Place(read, i)
      /\ Place(read \cup {m}, m) = Cardinality(read) + 1
  BY OneMore
<1>3. Cardinality(read) = Cardinality(due)
  BY DEF SurviveIn
<1>4. \A i \in due : Place(due, i) # Cardinality(due) + 1
  BY <1>1, PlacesAreFew
<1>5. \A i \in read : Place(read, i) # Cardinality(read) + 1
  BY <1>2, PlacesAreFew
<1>6. ASSUME NEW r \in read \cup {m}, NEW s \in due \cup {n},
             Place(read \cup {m}, r) = Place(due \cup {n}, s)
      PROVE  ParseSSEEvent(Stretch(more, r)) = Masked(SentOf(from, s))
  <2>1. CASE r \in read /\ s \in due
    <3>1. Place(read, r) = Place(due, s)
      BY <1>1, <1>2, <1>6, <2>1
    <3> QED
      BY <2>1, <3>1 DEF SurviveIn
  <2>2. CASE r = m /\ s = n
    BY <2>2
  <2>3. CASE r \in read /\ s = n
    BY <1>1, <1>2, <1>3, <1>5, <1>6, <2>3
  <2>4. CASE r = m /\ s \in due
    BY <1>1, <1>2, <1>3, <1>4, <1>6, <2>4
  <2> QED
    BY <2>1, <2>2, <2>3, <2>4
<1> QED
  BY <1>1, <1>2, <1>3, <1>6 DEF SurviveIn

-----------------------------------------------------------------------------
(* The relay of events. *)

\* EventBehind, of any lines.
BehindOf(lines, n) ==
    LET event == SentOf(lines, n + 1)
    IN  IF (NoData(event) /\ event.type = "") \/ ~ Wanted(event) THEN {} ELSE {n + 1}

\* The events the browser should have: those before the line that is read next and,
\* when the upstream has ended, the one it did not close with a blank line.
AllSent ==
    SentIn(source, atLine)
        \cup IF relay \in {"returned", "judged", "recorded"} /\ outcome = "nil"
             THEN BehindOf(source, atLine) ELSE {}

\* Behind the event that tells of an error.
Told == IF relay = "recorded" /\ failed THEN {Len(relayed)} ELSE {}

\* The block is what is left of the stretch since the last blank line, and the
\* browser is between two events.
LinesInv ==
    /\ source \in Seq(OutLines) /\ atLine \in Nat /\ atLine <= Len(source)
    /\ block = LeftOf(Stretch(source, atLine + 1))
    /\ relayed \in Seq(OutLines) /\ Ended(relayed)

\* An error is told of exactly when there is one and the browser has not gone, before
\* it is judged or since; the history is asked once.
VerdictInv ==
    /\ relay \in {"dialling", "reading"} => outcome = "nil"
    /\ relay \in {"judged", "recorded"} => /\ failed => outcome = "error"
                                           /\ outcome = "error" /\ browser # "gone" => failed
    /\ relay # "recorded" => ~ warned

\* The events sent have survived, those of the relay's own are errors, and the
\* count and the row are of what the browser has read.
EventInv ==
    /\ LinesInv /\ VerdictInv
    /\ SurviveIn(AllSent, ReadIn(relayed) \ Told, source, relayed)
    /\ \A i \in Told : /\ i \in ReadIn(relayed)
                       /\ ParseSSEEvent(Stretch(relayed, i)) = ParseSSEEvent(Front(ErrorEvent))
    /\ eventCount = Cardinality(ReadIn(relayed) \ Told)
    /\ record = IF relay # "recorded" \/ warned THEN <<>>
                ELSE <<[status |-> IF failed THEN 502 ELSE 200, events |-> eventCount]>>

\* What is proved of the lines is what EventsSurviveRelay says.
LEMMA EventsSurvive == EventInv => EventsSurviveRelay
<1> SUFFICES ASSUME EventInv PROVE EventsSurviveRelay
  OBVIOUS
<1>1. EventsRead = ReadIn(relayed) /\ EventsSent = SentIn(source, atLine)
  BY Zenon DEF EventsRead, ReadIn, ReadEvent, EventsSent, SentIn, SentEvent, SentOf
<1>2. EventBehind = BehindOf(source, atLine)
  BY Zenon DEF EventBehind, BehindOf, SentEvent, SentOf
<1> PICK due, read : due = AllSent /\ read = ReadIn(relayed) \ Told
  OBVIOUS
<1>3. Survive(due, read)
  BY Zenon DEF EventInv, SurviveIn, Survive, Place, EventNo, ReadEvent, SentEvent, SentOf
<1>4. due = EventsSent \cup IF relay \in {"returned", "judged", "recorded"} /\ outcome = "nil"
                             THEN EventBehind ELSE {}
  BY <1>1, <1>2, Zenon DEF AllSent
<1>5. read = EventsRead \ Told
  BY <1>1
<1>6. \A i \in Told : i \in EventsRead /\ ReadEvent(i) = ParseSSEEvent(Front(ErrorEvent))
  BY <1>1, Zenon DEF EventInv, ReadEvent
<1>7. record = IF relay # "recorded" \/ warned THEN <<>>
               ELSE <<[status |-> IF relay = "recorded" /\ failed THEN 502 ELSE 200,
                       events |-> Cardinality(EventsRead \ Told)]>>
  <2>1. eventCount = Cardinality(EventsRead \ Told)
    BY <1>1, Zenon DEF EventInv
  <2>2. CASE relay = "recorded" /\ ~ warned
    <3>1. record = <<[status |-> IF failed THEN 502 ELSE 200, events |-> eventCount]>>
      BY <2>2, Zenon DEF EventInv
    <3> QED
      BY <2>1, <2>2, <3>1, ZenonT(40)
  <2>3. CASE relay # "recorded" \/ warned
    BY <2>3, Zenon DEF EventInv
  <2> QED
    BY <2>2, <2>3
<1>8. /\ relay = "recorded" /\ failed => outcome = "error"
      /\ relay = "recorded" /\ outcome = "error" /\ browser # "gone" => failed
  BY DEF EventInv, VerdictInv
<1> QED
  BY <1>3, <1>4, <1>5, <1>6, <1>7, <1>8, ZenonT(40) DEF EventsSurviveRelay, Told

\* What an upstream sends are lines.
LEMMA LinesOfUpstreams == \A line \in Lines : line \in OutLines
<1> SUFFICES ASSUME NEW line \in Lines PROVE line \in OutLines
  OBVIOUS
<1>1. CASE line \in {Blank, Line("comment", "")}
  <2>1. Blank \in OutLines
    BY EmptyIsAValue DEF Blank, Line, OutLines
  <2>2. Line("comment", "") \in OutLines
    BY EmptyIsAValue DEF Line, OutLines
  <2> QED
    BY <1>1, <2>1, <2>2
<1>2. CASE line \in UNION {{Line(f, v) : v \in Values[f]} : f \in {"data", "event", "id"}}
  <2>1. PICK f \in {"data", "event", "id"} : line \in {Line(f, v) : v \in Values[f]}
    BY <1>2, Zenon
  <2>2. PICK v \in Values[f] : line = Line(f, v)
    BY <2>1, Zenon
  <2>3. v \in UpstreamValues
    BY <2>2, Zenon DEF UpstreamValues
  <2>4. v \in OutValues
    BY <2>3 DEF OutValues
  <2> QED
    BY <2>2, <2>4 DEF Line, OutLines
<1> QED
  BY <1>1, <1>2 DEF Lines

\* A relay that has not begun: no lines, no events.
LEMMA EventsInitInv == EventsInit => EventInv
<1> SUFFICES ASSUME EventsInit PROVE EventInv
  OBVIOUS
<1> PICK s : s = source
  OBVIOUS
<1>1. s = <<>> /\ s \in Seq(OutLines) /\ Len(s) = 0 /\ relayed = s /\ block = s /\ record = s
      /\ atLine = 0 /\ eventCount = 0 /\ relay = "dialling" /\ outcome = "nil"
      /\ VerdictInv
  BY EmptySeq DEF EventsInit, VerdictInv
<1>2. LinesInv
  <2>1. CutAt(s, 1, 0)
    BY DEF CutAt
  <2>2. Stretch(s, 1) = SubSeq(s, 0 + 1, 1 - 1)
    BY <2>1, StretchesAreCut
  <2>3. Stretch(s, 1) = <<>>
    BY <2>2, SubSeqEmpty
  <2>4. LeftOf(<<>>) = <<>>
    BY <1>1, BlocksGrow DEF LeftOf
  <2> QED
    BY <1>1, <2>3, <2>4 DEF LinesInv, Ended
<1>3. ReadIn(s) = {} /\ SentIn(s, 0) = {}
  <2>1. DOMAIN s = {}
    BY <1>1
  <2> QED
    BY <2>1 DEF ReadIn, SentIn
<1>4. Told = {} /\ AllSent = {}
  BY <1>1, <1>3 DEF Told, AllSent
<1>5. Cardinality({}) = 0
  BY FS_EmptySet
<1>6. SurviveIn({}, {}, source, relayed)
  BY DEF SurviveIn
<1>7. ReadIn(relayed) \ Told = {}
  BY <1>1, <1>3
<1> QED
  BY <1>1, <1>2, <1>4, <1>5, <1>6, <1>7, Zenon DEF EventInv

\* An event that is relayed, or is not wanted, survives.
LEMMA YieldsSurvive ==
    ASSUME relayed \in Seq(OutLines), Ended(relayed), NEW e \in OutEvents, ~ Nothing(e),
           NEW from, NEW due \in SUBSET Nat, IsFiniteSet(due),
           NEW n \in Nat, \A i \in due : i < n,
           SurviveIn(due, ReadIn(relayed), from, relayed),
           eventCount = Cardinality(ReadIn(relayed)), SentOf(from, n) = e, YieldEvent(e)
    PROVE  /\ relayed' \in Seq(OutLines) /\ Ended(relayed')
           /\ eventCount' = Cardinality(ReadIn(relayed'))
           /\ SurviveIn(due \cup (IF Wanted(e) THEN {n} ELSE {}), ReadIn(relayed'), from,
                        relayed')
<1>1. CASE ~ Wanted(e)
  <2>1. UNCHANGED <<relayed, eventCount>>
    BY <1>1 DEF YieldEvent
  <2>2. due \cup (IF Wanted(e) THEN {n} ELSE {}) = due
    BY <1>1
  <2> QED
    BY <2>1, <2>2
<1>2. CASE Wanted(e)
  <2> PICK w, more, m : w = Written(e) /\ more = relayed \o w /\ m = Len(more)
    OBVIOUS
  <2>1. relayed' = more /\ eventCount' = eventCount + 1
    BY <1>2 DEF YieldEvent
  <2>2. IsOne(w)
    BY OneIsWritten
  <2> PICK p : p = Stretch(more, m)
    OBVIOUS
  <2>3. /\ more \in Seq(OutLines) /\ Ended(more)
        /\ p \in Seq(OutLines) /\ Len(p) = Len(w) - 1 /\ Len(w) \in Nat
        /\ \A k \in 1 .. Len(w) - 1 : p[k] = w[k]
    <3> PICK l : l = Len(relayed)
      OBVIOUS
    <3>1. /\ more \in Seq(OutLines) /\ Len(more) = l + Len(w) /\ Ended(more)
          /\ Len(w) \in Nat /\ Stretch(more, l + Len(w)) \in Seq(OutLines)
          /\ Len(Stretch(more, l + Len(w))) = Len(w) - 1
          /\ \A k \in 1 .. Len(w) - 1 : Stretch(more, l + Len(w))[k] = w[k]
      BY <2>2, OneMoreStretch
    <3>2. p = Stretch(more, l + Len(w))
      BY <3>1
    <3> QED
      BY <3>1, <3>2, Zenon
  <2>4. Len(w) = Len(p) + 1 /\ \A k \in 1 .. Len(p) : p[k] = w[k]
    BY <2>3
  <2>5. ParseSSEEvent(p) = Masked(e)
    <3>1. p \in Seq(OutLines) /\ Len(Written(e)) = Len(p) + 1
          /\ \A k \in 1 .. Len(p) : p[k] = Written(e)[k]
      BY <2>2, <2>3, <2>4
    <3> QED
      BY ONLY <3>1, e \in OutEvents, WrittenIsRead
  <2>6. ~ Nothing(ParseSSEEvent(p))
    BY <2>5, MaskedEvents
  <2>7. /\ ReadIn(more) = ReadIn(relayed) \cup {m} /\ m \in Nat
        /\ ReadIn(relayed) \in SUBSET Nat /\ IsFiniteSet(ReadIn(relayed))
        /\ \A i \in ReadIn(relayed) : i < m /\ Stretch(more, i) = Stretch(relayed, i)
    BY <2>2, <2>6, OneMoreRead, Zenon
  <2>8. SurviveIn(due \cup {n}, ReadIn(relayed) \cup {m}, from, more)
    <3>1. /\ ReadIn(relayed) \in SUBSET Nat /\ IsFiniteSet(ReadIn(relayed)) /\ m \in Nat
          /\ \A i \in ReadIn(relayed) : i < m
          /\ \A r \in ReadIn(relayed) : Stretch(more, r) = Stretch(relayed, r)
          /\ ParseSSEEvent(Stretch(more, m)) = Masked(SentOf(from, n))
      BY <2>3, <2>5, <2>7
    <3> QED
      BY <3>1, OneMoreSurvives
  <2>9. Cardinality(ReadIn(relayed) \cup {m}) = Cardinality(ReadIn(relayed)) + 1
    BY <2>7, OneMore
  <2> QED
    BY <1>2, <2>1, <2>3, <2>7, <2>8, <2>9, Zenon
<1> QED
  BY <1>1, <1>2

\* The lines that count are few, and before the next one.
LEMMA SentIsFew ==
    ASSUME LinesInv
    PROVE  /\ AllSent \subseteq 1 .. atLine + 1
           /\ SentIn(source, atLine) \in SUBSET Nat /\ IsFiniteSet(SentIn(source, atLine))
           /\ \A i \in SentIn(source, atLine) : i < atLine + 1
           /\ Stretch(source, atLine + 1) \in Seq(OutLines) /\ block \in Seq(OutLines)
           /\ SentOf(source, atLine + 1) = ParseSSEEvent(block)
           /\ ParseSSEEvent(block) \in OutEvents
<1>1. /\ source \in Seq(OutLines) /\ atLine \in Nat /\ atLine <= Len(source)
      /\ block = LeftOf(Stretch(source, atLine + 1))
  BY DEF LinesInv
<1>2. atLine + 1 \in 1 .. Len(source) + 1
  BY <1>1, LenProperties
<1>3. Stretch(source, atLine + 1) \in Seq(OutLines)
  BY <1>1, <1>2, StretchesAreLines
<1>4. block \in Seq(OutLines)
  <2>1. Blank \in OutLines
    BY EmptyIsAValue DEF Blank, Line, OutLines
  <2> QED
    BY <1>1, <1>3, <2>1, BlocksGrow
<1>5. /\ SentIn(source, atLine) \in SUBSET Nat /\ IsFiniteSet(SentIn(source, atLine))
      /\ \A i \in SentIn(source, atLine) : i < atLine + 1
  BY <1>1, SentGrows
<1>6. AllSent \subseteq 1 .. atLine + 1
  <2>1. 1 .. atLine \subseteq 1 .. atLine + 1 /\ atLine + 1 \in 1 .. atLine + 1
    BY <1>1
  <2>2. SentIn(source, atLine) \subseteq 1 .. atLine
    BY DEF SentIn
  <2>3. BehindOf(source, atLine) \subseteq {atLine + 1}
    BY DEF BehindOf
  <2> QED
    BY <2>1, <2>2, <2>3 DEF AllSent
<1> QED
  BY <1>1, <1>3, <1>4, <1>5, <1>6, EventsAreEvents DEF SentOf

\* The upstream sends lines that are not read yet, answers or stops.
LEMMA EventsUpstream ==
    ASSUME EventInv, OnUpstream, source' \in Seq(OutLines), atLine <= Len(source'),
           \A i \in 1 .. atLine : source'[i] = source[i]
    PROVE  EventInv'
<1> PICK from, to, n : from = source /\ to = source' /\ n = atLine
  OBVIOUS
<1>0. LinesInv
  BY DEF EventInv
<1>1. /\ from \in Seq(OutLines) /\ n \in Nat /\ n <= Len(from)
      /\ to \in Seq(OutLines) /\ n <= Len(to) /\ \A i \in 1 .. n : from[i] = to[i]
  BY <1>0 DEF LinesInv
<1>2. /\ UNCHANGED <<atLine, block, relayed, eventCount, relay, outcome, failed, record, warned>>
      /\ VerdictInv'
  BY DEF OnUpstream, conclusion, EventInv, VerdictInv
<1>3. /\ SentIn(from, n) = SentIn(to, n)
      /\ \A i \in 1 .. n + 1 : Stretch(from, i) = Stretch(to, i) /\ SentOf(from, i) = SentOf(to, i)
  BY <1>1, SentStays
<1>4. n + 1 \in 1 .. n + 1
  BY <1>1
<1>5. LinesInv'
  BY <1>0, <1>1, <1>2, <1>3, <1>4 DEF LinesInv
<1>6. BehindOf(to, n) = BehindOf(from, n)
  BY <1>3, <1>4, Zenon DEF BehindOf
<1>7. AllSent' = AllSent /\ Told' = Told
  BY <1>2, <1>3, <1>6, Zenon DEF AllSent, Told
<1>8. AllSent \subseteq 1 .. n + 1
  BY <1>0, SentIsFew
<1>9. SurviveIn(AllSent', ReadIn(relayed') \ Told', source', relayed')
  <2> PICK due, read : due = AllSent /\ read = ReadIn(relayed) \ Told
    OBVIOUS
  <2>1. SurviveIn(due, read, from, relayed)
    BY DEF EventInv
  <2>2. \A i \in due : SentOf(to, i) = SentOf(from, i)
    BY <1>3, <1>8
  <2>3. SurviveIn(due, read, to, relayed)
    <3>1. ASSUME NEW r \in read, NEW i \in due, Place(read, r) = Place(due, i)
          PROVE  ParseSSEEvent(Stretch(relayed, r)) = Masked(SentOf(to, i))
      <4>1. ParseSSEEvent(Stretch(relayed, r)) = Masked(SentOf(from, i))
        BY <2>1, <3>1 DEF SurviveIn
      <4> QED
        BY <2>2, <4>1
    <3>2. Cardinality(read) = Cardinality(due)
      BY <2>1 DEF SurviveIn
    <3> QED
      BY <3>1, <3>2 DEF SurviveIn
  <2> QED
    BY <1>2, <1>7, <2>3
<1> QED
  BY <1>2, <1>5, <1>7, <1>9, ZenonT(40) DEF EventInv

\* The upstream answers, sends a line, or ends.
LEMMA EventsSending ==
    ASSUME EventInv, UpstreamAnswers \/ UpstreamEnds \/ \E line \in Lines : UpstreamSends(line)
    PROVE  EventInv'
<1>1. source \in Seq(OutLines) /\ atLine \in Nat /\ atLine <= Len(source) /\ Len(source) \in Nat
  BY LenProperties DEF EventInv, LinesInv
<1>2. CASE UpstreamAnswers \/ UpstreamEnds
  <2>1. OnUpstream /\ source' = source
    BY <1>2 DEF UpstreamAnswers, UpstreamEnds
  <2> QED
    BY <1>1, <2>1, EventsUpstream
<1>3. ASSUME NEW line \in Lines, UpstreamSends(line) PROVE EventInv'
  <2>1. OnUpstream /\ source' = Append(source, line) /\ line \in OutLines
    BY <1>3, LinesOfUpstreams DEF UpstreamSends
  <2> PICK from, to : from = source /\ to = Append(from, line)
    OBVIOUS
  <2>2. /\ to \in Seq(OutLines) /\ Len(to) = Len(from) + 1
        /\ \A i \in 1 .. Len(from) : to[i] = from[i]
    BY <1>1, <2>1, AppendProperties
  <2>3. \A i \in 1 .. atLine : i \in 1 .. Len(from)
    BY <1>1
  <2>4. atLine <= Len(to)
    BY <1>1, <2>2
  <2> QED
    BY <2>1, <2>2, <2>3, <2>4, EventsUpstream
<1> QED
  BY <1>2, <1>3

\* The browser goes, stops reading or reads again.
LEMMA EventsBrowsing ==
    ASSUME EventInv, BrowserGoes \/ BrowserStalls \/ BrowserReads
    PROVE  EventInv'
<1>1. /\ UNCHANGED <<source, atLine, block, relayed, eventCount, relay, outcome, failed, record,
                     warned>>
      /\ relay # "recorded" \/ (browser # "gone" /\ browser' # "gone")
      /\ browser' # "gone" => browser # "gone"
  BY DEF BrowserGoes, BrowserStalls, BrowserReads, OnBrowser, conclusion
<1>2. VerdictInv'
  BY <1>1 DEF EventInv, VerdictInv
<1>3. AllSent' = AllSent /\ Told' = Told /\ LinesInv'
  BY <1>1 DEF AllSent, Told, EventInv, LinesInv
<1> QED
  BY <1>1, <1>2, <1>3, ZenonT(40) DEF EventInv

\* The upstream is dialled, or what DialSSE returned is judged.
LEMMA EventsDialling ==
    ASSUME EventInv, Dials \/ Judges
    PROVE  EventInv'
<1>1. /\ UNCHANGED <<source, atLine, block, relayed, eventCount, record, warned>>
      /\ relay # "recorded" /\ relay' # "recorded" /\ VerdictInv'
  <2>1. CASE Judges
    <3>1. /\ relay = "returned" /\ relay' = "judged"
          /\ failed' = (outcome = "error" /\ browser # "gone")
          /\ UNCHANGED <<source, atLine, block, relayed, eventCount, browser, outcome, record,
                         warned>>
      BY <2>1 DEF Judges
    <3>2. ~ warned
      BY <3>1 DEF EventInv, VerdictInv
    <3>3. VerdictInv'
      BY <3>1, <3>2, Zenon DEF VerdictInv
    <3> QED
      BY <3>1, <3>3
  <2>2. CASE Dials
    BY <2>2 DEF EventInv, VerdictInv, Dials, OnRelay, conclusion
  <2> QED
    BY <2>1, <2>2
<1>2. LinesInv'
  BY <1>1 DEF EventInv, LinesInv
<1>3. Told = {} /\ Told' = {}
  BY <1>1 DEF Told
<1>4. AllSent' = AllSent
  <2>1. CASE Judges
    BY <1>1, <2>1 DEF Judges, AllSent
  <2>2. CASE Dials
    <3>1. relay = "dialling" /\ ~ (relay' \in {"returned", "judged", "recorded"} /\ outcome' = "nil")
      BY <2>2 DEF Dials, EventInv, VerdictInv
    <3>2. AllSent = SentIn(source, atLine) /\ AllSent' = SentIn(source, atLine)
      BY <1>1, <3>1 DEF AllSent
    <3> QED
      BY <3>2
  <2> QED
    BY <2>1, <2>2
<1> QED
  BY <1>1, <1>2, <1>3, <1>4, Zenon DEF EventInv

\* A line that is not blank makes the block longer, or too long.
LEMMA EventsReadingOn ==
    ASSUME EventInv, ReadLine, source[atLine + 1] # Blank
    PROVE  EventInv'
<1> PICK s, n, line : s = source /\ n = atLine /\ line = source[atLine + 1]
  OBVIOUS
<1>1. /\ s \in Seq(OutLines) /\ n \in Nat /\ n < Len(s) /\ Len(s) \in Nat
      /\ block = LeftOf(Stretch(s, n + 1)) /\ s[n + 1] = line /\ line # Blank
  BY LenProperties DEF EventInv, LinesInv, ReadLine
<1>2. /\ relay = "reading" /\ outcome = "nil" /\ atLine' = n + 1 /\ block' = BlockOf(line)
      /\ UNCHANGED <<source, browser, failed, record, warned, relayed, eventCount>>
      /\ \/ relay' = "returned" /\ outcome' = "error"
         \/ relay' = "reading" /\ outcome' = "nil"
  BY <1>1 DEF EventInv, VerdictInv, ReadLine, OnRelay, conclusion
<1>3. n + 1 \in 1 .. Len(s) /\ n + 1 \in Nat /\ n + 1 <= Len(s)
  BY <1>1
<1>4. block' = LeftOf(Stretch(s, (n + 1) + 1))
  <2> PICK t : t = Stretch(s, n + 1)
    OBVIOUS
  <2>1. t \in Seq(OutLines) /\ Stretch(s, (n + 1) + 1) = Append(t, line)
    BY <1>1, <1>3, StretchesGrow
  <2>2. line \in OutLines
    BY <1>1, <1>3, ElementOfSeq
  <2>3. LeftOf(Append(t, line)) = LET longer == Append(LeftOf(t), line)
                                  IN  IF Len(longer) > MaxBlock THEN <<>> ELSE longer
    BY <2>1, <2>2, BlocksGrow
  <2> QED
    BY <1>1, <1>2, <2>1, <2>3, Zenon DEF BlockOf
<1>5. LinesInv'
  BY <1>1, <1>2, <1>3, <1>4 DEF EventInv, LinesInv
<1>6. SentIn(s, n + 1) = SentIn(s, n)
  <2>1. SentIn(s, n + 1) =
           SentIn(s, n) \cup
           IF s[n + 1] = Blank /\ ~ Nothing(SentOf(s, n + 1)) /\ Wanted(SentOf(s, n + 1))
           THEN {n + 1} ELSE {}
    BY <1>1, SentGrows
  <2>2. s[n + 1] # Blank
    BY <1>1
  <2> QED
    BY ONLY <2>1, <2>2
<1>7. AllSent = SentIn(s, n) /\ AllSent' = SentIn(s, n)
  BY <1>2, <1>6 DEF AllSent
<1>8. Told = {} /\ Told' = {}
  BY <1>2 DEF Told
<1>9. relay # "recorded" /\ relay' # "recorded"
  BY <1>2
<1>10. VerdictInv'
  BY <1>2 DEF EventInv, VerdictInv
<1> QED
  BY <1>2, <1>5, <1>7, <1>8, <1>9, <1>10, Zenon DEF EventInv

\* A blank line ends it.
LEMMA EventsReadingOne ==
    ASSUME EventInv, ReadLine, source[atLine + 1] = Blank
    PROVE  EventInv'
<1> PICK s, n, e : s = source /\ n = atLine /\ e = ParseSSEEvent(block)
  OBVIOUS
<1>1. /\ s \in Seq(OutLines) /\ n \in Nat /\ n < Len(s) /\ Len(s) \in Nat
      /\ relayed \in Seq(OutLines) /\ Ended(relayed) /\ s[n + 1] = Blank
  BY LenProperties DEF EventInv, LinesInv, ReadLine
<1>2. /\ relay = "reading" /\ outcome = "nil" /\ atLine' = n + 1 /\ block' = <<>>
      /\ UNCHANGED <<source, browser, failed, record, warned, relay, outcome>>
      /\ IF block = <<>> \/ Nothing(e) THEN UNCHANGED <<relayed, eventCount>> ELSE YieldEvent(e)
  BY Zenon DEF EventInv, VerdictInv, ReadLine, OnRelay, conclusion, Flush
<1>3. n + 1 \in 1 .. Len(s) /\ n + 1 \in Nat /\ n + 1 <= Len(s)
  BY <1>1
<1>4. block' = LeftOf(Stretch(s, (n + 1) + 1))
  <2>1. Stretch(s, (n + 1) + 1) = <<>>
    BY <1>1, <1>3, StretchesGrow
  <2>2. Blank \in OutLines /\ s \in Seq(OutLines)
    BY <1>1, EmptyIsAValue DEF Blank, Line, OutLines
  <2>3. LeftOf(<<>>) = <<>>
    BY <2>2, BlocksGrow
  <2> QED
    BY <1>2, <2>1, <2>3
<1>5. /\ SentIn(s, n) \in SUBSET Nat /\ IsFiniteSet(SentIn(s, n))
      /\ \A i \in SentIn(s, n) : i < n + 1
      /\ SentOf(s, n + 1) = e /\ e \in OutEvents
  BY SentIsFew DEF EventInv
<1>6. SentIn(s, n + 1) =
         SentIn(s, n) \cup IF ~ Nothing(e) /\ Wanted(e) THEN {n + 1} ELSE {}
  BY <1>1, <1>5, SentGrows
<1>7. AllSent = SentIn(s, n) /\ AllSent' = SentIn(s, n + 1)
  BY <1>2 DEF AllSent
<1>8. Told = {} /\ Told' = {}
  BY <1>2 DEF Told
<1>9. SurviveIn(SentIn(s, n), ReadIn(relayed), s, relayed)
      /\ eventCount = Cardinality(ReadIn(relayed))
  <2>1. ReadIn(relayed) \ Told = ReadIn(relayed)
    BY <1>8
  <2> QED
    BY <1>7, <2>1, Zenon DEF EventInv
<1>10. /\ relayed' \in Seq(OutLines) /\ Ended(relayed')
       /\ eventCount' = Cardinality(ReadIn(relayed'))
       /\ SurviveIn(SentIn(s, n + 1), ReadIn(relayed'), s, relayed')
  <2>1. CASE Nothing(e)
    <3>1. SentIn(s, n + 1) = SentIn(s, n)
      BY <1>6, <2>1
    <3>2. UNCHANGED <<relayed, eventCount>>
      BY <1>2, <2>1
    <3> QED
      BY <1>1, <1>9, <3>1, <3>2, Zenon
  <2>2. CASE ~ Nothing(e)
    <3>1. YieldEvent(e)
      <4>1. block # <<>>
        BY <2>2, NoLinesSayNothing
      <4> QED
        BY <1>2, <2>2, <4>1
    <3>2. SentIn(s, n + 1) = SentIn(s, n) \cup (IF Wanted(e) THEN {n + 1} ELSE {})
      BY <1>6, <2>2
    <3> PICK due, m : due = SentIn(s, n) /\ m = n + 1
      OBVIOUS
    <3>3. /\ due \in SUBSET Nat /\ IsFiniteSet(due) /\ m \in Nat /\ \A i \in due : i < m
          /\ SentOf(s, m) = e /\ SurviveIn(due, ReadIn(relayed), s, relayed)
      BY <1>3, <1>5, <1>9
    <3>4. /\ relayed' \in Seq(OutLines) /\ Ended(relayed')
          /\ eventCount' = Cardinality(ReadIn(relayed'))
          /\ SurviveIn(due \cup (IF Wanted(e) THEN {m} ELSE {}), ReadIn(relayed'), s,
                       relayed')
      BY <1>1, <1>5, <1>9, <2>2, <3>1, <3>3, YieldsSurvive
    <3> QED
      BY <3>2, <3>4, Zenon
  <2> QED
    BY <2>1, <2>2
<1>11. LinesInv'
  BY <1>1, <1>2, <1>3, <1>4, <1>10 DEF LinesInv
<1>12. ReadIn(relayed') \ Told' = ReadIn(relayed')
  BY <1>8
<1>13. relay # "recorded" /\ relay' # "recorded" /\ VerdictInv'
  BY <1>2 DEF EventInv, VerdictInv
<1> QED
  BY <1>2, <1>7, <1>8, <1>10, <1>11, <1>12, <1>13, Zenon DEF EventInv

\* At the end of the lines, what is left of a block is an event too.
LEMMA EventsReadingEnds ==
    ASSUME EventInv, ReadEnds
    PROVE  EventInv'
<1> PICK s, n, e : s = source /\ n = atLine /\ e = ParseSSEEvent(block)
  OBVIOUS
<1>1. n \in Nat /\ n + 1 \in Nat /\ relayed \in Seq(OutLines) /\ Ended(relayed)
  BY DEF EventInv, LinesInv
<1>2. /\ relay = "reading" /\ outcome = "nil" /\ relay' = "returned" /\ outcome' = "nil"
      /\ UNCHANGED <<source, browser, failed, record, warned, atLine, block>>
      /\ IF block = <<>> \/ (NoData(e) /\ e.type = "") THEN UNCHANGED <<relayed, eventCount>>
         ELSE YieldEvent(e)
  BY Zenon DEF EventInv, VerdictInv, ReadEnds, OnRelay, conclusion
<1>3. /\ SentIn(s, n) \in SUBSET Nat /\ IsFiniteSet(SentIn(s, n))
      /\ \A i \in SentIn(s, n) : i < n + 1
      /\ SentOf(s, n + 1) = e /\ e \in OutEvents
  BY SentIsFew DEF EventInv
<1>4. AllSent = SentIn(s, n) /\ AllSent' = SentIn(s, n) \cup BehindOf(s, n)
  BY <1>2 DEF AllSent
<1>5. Told = {} /\ Told' = {}
  BY <1>2 DEF Told
<1>6. SurviveIn(SentIn(s, n), ReadIn(relayed), s, relayed)
      /\ eventCount = Cardinality(ReadIn(relayed))
  <2>1. ReadIn(relayed) \ Told = ReadIn(relayed)
    BY <1>5
  <2> QED
    BY <1>4, <2>1, Zenon DEF EventInv
<1>7. /\ relayed' \in Seq(OutLines) /\ Ended(relayed')
      /\ eventCount' = Cardinality(ReadIn(relayed'))
      /\ SurviveIn(SentIn(s, n) \cup BehindOf(s, n), ReadIn(relayed'), s, relayed')
  <2>1. CASE NoData(e) /\ e.type = ""
    <3>1. BehindOf(s, n) = {}
      BY <1>3, <2>1 DEF BehindOf
    <3>2. UNCHANGED <<relayed, eventCount>>
      BY <1>2, <2>1
    <3>3. SentIn(s, n) \cup BehindOf(s, n) = SentIn(s, n)
      BY <3>1
    <3> QED
      BY <1>1, <1>6, <3>2, <3>3, Zenon
  <2>2. CASE ~ (NoData(e) /\ e.type = "")
    <3>1. ~ Nothing(e)
      BY <2>2 DEF Nothing
    <3>2. YieldEvent(e)
      <4>1. block # <<>>
        BY <3>1, NoLinesSayNothing
      <4> QED
        BY <1>2, <2>2, <4>1
    <3> PICK due, m : due = SentIn(s, n) /\ m = n + 1
      OBVIOUS
    <3>3. BehindOf(s, n) = IF Wanted(e) THEN {m} ELSE {}
      BY <1>3, <2>2 DEF BehindOf
    <3>4. /\ due \in SUBSET Nat /\ IsFiniteSet(due) /\ m \in Nat /\ \A i \in due : i < m
          /\ SentOf(s, m) = e /\ SurviveIn(due, ReadIn(relayed), s, relayed)
      BY <1>1, <1>3, <1>6
    <3>5. /\ relayed' \in Seq(OutLines) /\ Ended(relayed')
          /\ eventCount' = Cardinality(ReadIn(relayed'))
          /\ SurviveIn(due \cup (IF Wanted(e) THEN {m} ELSE {}), ReadIn(relayed'), s,
                       relayed')
      BY <1>1, <1>3, <1>6, <3>1, <3>2, <3>4, YieldsSurvive
    <3> QED
      BY <3>3, <3>5, Zenon
  <2> QED
    BY <2>1, <2>2
<1>8. LinesInv'
  BY <1>2, <1>7 DEF EventInv, LinesInv
<1>9. ReadIn(relayed') \ Told' = ReadIn(relayed')
  BY <1>5
<1>10. relay # "recorded" /\ relay' # "recorded" /\ VerdictInv'
  BY <1>2 DEF EventInv, VerdictInv
<1> QED
  BY <1>2, <1>4, <1>5, <1>7, <1>8, <1>9, <1>10, Zenon DEF EventInv

\* The relay is over, the browser told of an error, and the history asked for a row.
LEMMA EventsRecording ==
    ASSUME EventInv, Records
    PROVE  EventInv'
<1> PICK old, told : old = relayed /\ told = IF failed THEN ErrorEvent ELSE <<>>
  OBVIOUS
<1>1. /\ relay = "judged" /\ relay' = "recorded" /\ relayed' = old \o told
      /\ UNCHANGED <<source, atLine, block, eventCount, browser, outcome, failed>>
      /\ record = <<>> /\ ~ warned /\ VerdictInv'
      /\ \/ record' = Append(record, Row) /\ ~ warned'
         \/ record' = record /\ warned'
  <2>1. /\ relay = "judged" /\ relay' = "recorded" /\ relayed' = old \o told
        /\ UNCHANGED <<source, atLine, block, eventCount, browser, outcome, failed>>
        /\ \/ record' = Append(record, Row) /\ warned' = warned
           \/ warned' = TRUE /\ record' = record
    BY Zenon DEF Records
  <2>2. record = <<>> /\ ~ warned
    BY <2>1 DEF EventInv, VerdictInv
  <2>3. VerdictInv'
    BY <2>1 DEF EventInv, VerdictInv
  <2>4. \/ record' = Append(record, Row) /\ ~ warned'
        \/ record' = record /\ warned'
    BY <2>1, <2>2
  <2> QED
    BY <2>1, <2>2, <2>3, <2>4
<1>2. old \in Seq(OutLines) /\ Ended(old) /\ LinesInv
  BY DEF EventInv, LinesInv
<1>3. record' = IF relay' # "recorded" \/ warned' THEN <<>>
                ELSE <<[status |-> IF failed' THEN 502 ELSE 200, events |-> eventCount']>>
  <2>1. CASE warned'
    BY <1>1, <2>1
  <2>2. CASE ~ warned'
    <3> PICK row : row = Row
      OBVIOUS
    <3>1. Append(<<>>, row) = <<row>>
      OBVIOUS
    <3>2. record' = <<row>>
      BY <1>1, <2>2, <3>1
    <3>3. row = [status |-> IF failed' THEN 502 ELSE 200, events |-> eventCount']
      BY <1>1, ZenonT(40) DEF Row
    <3> QED
      BY <1>1, <2>2, <3>2, <3>3, ZenonT(40)
  <2> QED
    BY <2>1, <2>2
<1>4. AllSent' = AllSent
  BY <1>1, Zenon DEF AllSent
<1>5. Told = {}
  BY <1>1 DEF Told
<1>6. SurviveIn(AllSent, ReadIn(old), source, old) /\ eventCount = Cardinality(ReadIn(old))
  <2>1. ReadIn(old) \ Told = ReadIn(old)
    BY <1>5
  <2> QED
    BY <2>1, Zenon DEF EventInv
<1>7. CASE ~ failed
  <2>1. relayed' = old
    BY <1>1, <1>2, <1>7, ConcatEmptySeq
  <2>2. Told' = {}
    BY <1>1, <1>7 DEF Told
  <2>3. LinesInv'
    BY <1>1, <1>2, <2>1 DEF LinesInv
  <2>4. ReadIn(relayed') \ Told' = ReadIn(old)
    BY <2>1, <2>2
  <2> QED
    BY <1>1, <1>3, <1>4, <1>6, <2>1, <2>2, <2>3, <2>4, Zenon DEF EventInv
<1>8. CASE failed
  <2> PICK w, more, m, l : w = ErrorEvent /\ more = old \o w /\ m = Len(more) /\ l = Len(old)
    OBVIOUS
  <2>1. relayed' = more /\ IsOne(w) /\ Len(w) = 3
    BY <1>1, <1>8, ErrorsAreOne
  <2>2. /\ more \in Seq(OutLines) /\ m = l + 3 /\ Ended(more)
        /\ Stretch(more, l + 3) \in Seq(OutLines) /\ Len(Stretch(more, l + 3)) = 3 - 1
        /\ \A k \in 1 .. 3 - 1 : Stretch(more, l + 3)[k] = w[k]
    <3>1. /\ more \in Seq(OutLines) /\ Len(more) = l + Len(w) /\ Ended(more)
          /\ Stretch(more, l + Len(w)) \in Seq(OutLines)
          /\ Len(Stretch(more, l + Len(w))) = Len(w) - 1
          /\ \A k \in 1 .. Len(w) - 1 : Stretch(more, l + Len(w))[k] = w[k]
      <4>1. old \in Seq(OutLines) /\ Ended(old) /\ IsOne(w)
        BY <1>2, <2>1
      <4> QED
        BY ONLY <4>1, more = old \o w, l = Len(old), OneMoreStretch
    <3> QED
      BY <2>1, <3>1, Zenon
  <2>3. Stretch(more, m) = Front(w)
    <3> PICK p, q : p = Stretch(more, m) /\ q = Front(w)
      OBVIOUS
    <3>1. p \in Seq(OutLines) /\ Len(p) = 2 /\ \A k \in 1 .. 2 : p[k] = w[k]
      BY <2>2
    <3>2. q \in Seq(OutLines) /\ Len(q) = 2 /\ \A k \in 1 .. 2 : q[k] = w[k]
      BY ErrorsAreOne
    <3>3. \A k \in 1 .. Len(p) : p[k] = q[k]
      BY <3>1, <3>2
    <3>4. p = q
      BY ONLY <3>1, <3>2, <3>3, SeqEqual
    <3> QED
      BY <3>4
  <2>4. ~ Nothing(ParseSSEEvent(Stretch(more, m)))
    BY <2>3, ErrorsAreOne
  <2>5. /\ ReadIn(more) = ReadIn(old) \cup {m} /\ m \in Nat
        /\ \A i \in ReadIn(old) : i < m /\ Stretch(more, i) = Stretch(old, i)
    BY <1>2, <2>1, <2>4, OneMoreRead
  <2>6. Told' = {m}
    BY <1>1, <1>8, <2>1 DEF Told
  <2>7. ReadIn(more) \ {m} = ReadIn(old)
    <3>1. \A i \in ReadIn(old) : i # m
      BY <2>5
    <3> QED
      BY <2>5, <3>1
  <2>8. SurviveIn(AllSent, ReadIn(old), source, more)
    BY <1>6, <2>5 DEF SurviveIn
  <2>9. LinesInv'
    BY <1>1, <1>2, <2>1, <2>2 DEF LinesInv
  <2>10. \A i \in Told' : /\ i \in ReadIn(more)
                          /\ ParseSSEEvent(Stretch(more, i)) = ParseSSEEvent(Front(ErrorEvent))
    BY <2>3, <2>5, <2>6
  <2>11. ReadIn(more) \ Told' = ReadIn(old)
    BY <2>6, <2>7
  <2> QED
    <3>1. SurviveIn(AllSent', ReadIn(relayed') \ Told', source', relayed')
      BY <1>1, <1>4, <2>1, <2>8, <2>11, Zenon
    <3>2. eventCount' = Cardinality(ReadIn(relayed') \ Told')
      BY <1>1, <1>6, <2>1, <2>11, Zenon
    <3>3. \A i \in Told' :
             /\ i \in ReadIn(relayed')
             /\ ParseSSEEvent(Stretch(relayed', i)) = ParseSSEEvent(Front(ErrorEvent))
      BY <2>1, <2>10
    <3>4. VerdictInv'
      BY <1>1
    <3> QED
      BY <1>3, <2>9, <3>1, <3>2, <3>3, <3>4, ZenonT(40) DEF EventInv
<1> QED
  BY <1>7, <1>8

\* Every step of the relay.
LEMMA EventsStepInv == EventInv /\ [EventsNext]_eventVars => EventInv'
<1> SUFFICES ASSUME EventInv, [EventsNext]_eventVars PROVE EventInv'
  OBVIOUS
<1>1. CASE UpstreamAnswers \/ UpstreamEnds \/ \E line \in Lines : UpstreamSends(line)
  BY <1>1, EventsSending
<1>2. CASE Dials \/ Judges
  BY <1>2, EventsDialling
<1>7. CASE BrowserGoes \/ BrowserStalls \/ BrowserReads
  BY <1>7, EventsBrowsing
<1>3. CASE ReadLine
  BY <1>3, EventsReadingOn, EventsReadingOne
<1>4. CASE ReadEnds
  BY <1>4, EventsReadingEnds
<1>5. CASE Records
  BY <1>5, EventsRecording
<1>6. CASE UNCHANGED eventVars
  <2>1. UNCHANGED <<source, atLine, block, relayed, relay, outcome, eventCount, failed, record,
                    warned, browser>>
    BY <1>6 DEF eventVars, conclusion
  <2>2. /\ AllSent' = AllSent /\ Told' = Told
        /\ LinesInv <=> LinesInv'
        /\ VerdictInv <=> VerdictInv'
    BY <2>1 DEF AllSent, Told, LinesInv, VerdictInv
  <2> QED
    BY <2>1, <2>2, ZenonT(40) DEF EventInv
<1> QED
  BY <1>1, <1>2, <1>3, <1>4, <1>5, <1>6, <1>7 DEF EventsNext

\* EventsSurviveRelay, whatever lines an upstream sends, whenever it or the browser
\* goes or the browser stops reading: what was written to the browser are the events
\* of the upstream that the ticket asked for, each whole, in order and with its data
\* masked; the browser is told of every error that came while it stayed, and of no
\* other; and a relay that is over has left one row that says so and counts the
\* events, or none when the history refused it.
THEOREM EventsSurviveTheRelay == EventsSpec => []EventsSurviveRelay
  BY EventsInitInv, EventsStepInv, EventsSurvive, PTL DEF EventsSpec
=============================================================================
