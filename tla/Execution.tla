----------------------------- MODULE Execution ------------------------------
(***************************************************************************)
(* The execute handler from its checks to its answer: the pre-request      *)
(* script, the settings, the call upstream with its redirects, the test    *)
(* script, the history row and the purge.  What it sends, and how values   *)
(* are substituted and masked, is left out; the lookups of secrets are in  *)
(* Vault, the environments in Environments, audit lines in AuditLog.       *)
(* Upstream may answer, redirect, fail or stay silent.                     *)
(***************************************************************************)
EXTENDS Sandbox, History

CONSTANTS
    MaxRedirects,   \* maxRedirects, at which the chain is cut
    MaxExecutions,  \* bound on the executions of a run
    MaxStops        \* bound on restarts and on purges that fail

ASSUME RecordersAssumption == Recorders = Jobs
ASSUME ExecBoundsAssumption == MaxRedirects \in Nat /\ MaxExecutions \in Nat /\ MaxStops \in Nat

VARIABLES
    exec,       \* exec[j]: where execution j is, and how far its redirects have gone
    begun,      \* executions begun
    stops       \* restarts and failed purges

execVars == <<vm, historyVars, exec, begun, stops>>

ExecPc == {"idle", "start", "pre", "resolve", "wait", "answered", "test",
           "insert", "record"}

ExecTypeOK ==
    /\ SandboxTypeOK /\ HistoryTypeOK
    /\ exec \in [Jobs -> [pc : ExecPc, follow : BOOLEAN, via : 0 .. MaxRedirects]]
    /\ begun \in 0 .. MaxExecutions
    /\ stops \in 0 .. MaxStops

Resting == [pc |-> "idle", follow |-> FALSE, via |-> 0]

ExecInit ==
    /\ SandboxInit /\ HistoryInit
    /\ exec = [j \in Jobs |-> Resting]
    /\ begun = 0 /\ stops = 0

-----------------------------------------------------------------------------
At(j, pc) == exec[j].pc = pc

Goto(j, pc) == exec' = [exec EXCEPT ![j].pc = pc]

\* The handler returns; its runtime is garbage, whatever timer is still to run.
Respond(j) ==
    /\ exec' = [exec EXCEPT ![j] = Resting]
    /\ vm' = [vm EXCEPT ![j] = NewRuntime]

\* With or without a pre-request script.
Begin(j, pc, follow) ==
    /\ At(j, "idle") /\ begun < MaxExecutions
    /\ exec' = [exec EXCEPT ![j] = [pc |-> pc, follow |-> follow, via |-> 0]]
    /\ begun' = begun + 1
    /\ UNCHANGED <<vm, historyVars, stops>>

StartPre(j) ==
    /\ At(j, "start")
    /\ StartRun(j, "pre") /\ Goto(j, "pre")
    /\ UNCHANGED <<historyVars, begun, stops>>

\* An exception in the pre-request script, or its interruption, refuses the request.
PreReturns(j) ==
    /\ At(j, "pre")
    /\ \/ Returns(j) /\ Goto(j, "resolve")
       \/ Respond(j)
    /\ UNCHANGED <<historyVars, begun, stops>>

PreInterrupted(j) ==
    /\ At(j, "pre") /\ vm[j].flag
    /\ Respond(j)
    /\ UNCHANGED <<historyVars, begun, stops>>

\* The request is resolved and the settings are read; a placeholder left in the
\* URL, a bad setting or a proxy that is not configured refuses it, as does the
\* check of the target; else it is sent.
Resolve(j) ==
    /\ At(j, "resolve")
    /\ \/ Goto(j, "wait") /\ UNCHANGED vm
       \/ Respond(j)
    /\ UNCHANGED <<historyVars, begun, stops>>

GetAnswer(j) ==
    /\ exec' = [exec EXCEPT ![j] = [Resting EXCEPT !.pc = "answered"]]
    /\ UNCHANGED vm

\* CheckRedirect, when via requests have been sent before this one.
Redirected(j) ==
    LET via == exec[j].via + 1
    IN  /\ At(j, "wait")
        /\ \/ via >= MaxRedirects /\ Respond(j)
           \/ via < MaxRedirects /\ ~ exec[j].follow /\ GetAnswer(j)
           \/ /\ via < MaxRedirects /\ exec[j].follow
              /\ \/ exec' = [exec EXCEPT ![j].via = via] /\ UNCHANGED vm
                 \/ Respond(j)
        /\ UNCHANGED <<historyVars, begun, stops>>

Answered(j) ==
    /\ At(j, "wait")
    /\ GetAnswer(j)
    /\ UNCHANGED <<historyVars, begun, stops>>

\* A failed connection, a caller that is gone, or the client's timeout.
CallFails(j) ==
    /\ At(j, "wait")
    /\ Respond(j)
    /\ UNCHANGED <<historyVars, begun, stops>>

\* With or without a test script.
StartTest(j) ==
    /\ At(j, "answered")
    /\ \/ StartRun(j, "test") /\ Goto(j, "test")
       \/ Goto(j, "insert") /\ UNCHANGED vm
    /\ UNCHANGED <<historyVars, begun, stops>>

\* What goes wrong in the test script is reported beside the answer.
TestReturns(j) ==
    /\ At(j, "test")
    /\ Returns(j) /\ Goto(j, "insert")
    /\ UNCHANGED <<historyVars, begun, stops>>

TestInterrupted(j) ==
    /\ At(j, "test")
    /\ Interrupted(j) /\ Goto(j, "insert")
    /\ UNCHANGED <<historyVars, begun, stops>>

Insert(j) ==
    /\ At(j, "insert")
    /\ InsertRow(j) \/ InsertFails(j)
    /\ Goto(j, "record")
    /\ UNCHANGED <<vm, begun, stops>>

\* The purge, and the answer to the caller when it is over.
Purge(j) ==
    /\ At(j, "record")
    /\ \/ (ReadKeep(j) \/ CountRows(j) \/ DeleteOld(j)) /\ UNCHANGED stops
       \/ stops < MaxStops /\ stops' = stops + 1 /\ PurgesEnd({j})
    /\ IF rec'[j].pc = "off" THEN Respond(j) ELSE UNCHANGED <<exec, vm>>
    /\ UNCHANGED begun

Timer(j, f) ==
    /\ Fire(j, f) \/ Interrupt(j, f)
    /\ UNCHANGED <<historyVars, exec, begun, stops>>

Restart ==
    /\ stops < MaxStops /\ stops' = stops + 1
    /\ exec' = [j \in Jobs |-> Resting]
    /\ vm' = [j \in Jobs |-> NewRuntime]
    /\ PurgesEnd(Jobs)
    /\ UNCHANGED begun

\* What others do to the table and its cap.
Others ==
    /\ (\E id \in rows : DeleteHistory(id)) \/ (\E k \in Keeps : PutKeep(k))
    /\ UNCHANGED <<vm, exec, begun, stops>>

\* What the handler's own goroutine does without waiting for anyone.
Own(j) ==
    \/ StartPre(j) \/ PreInterrupted(j) \/ Resolve(j)
    \/ StartTest(j) \/ TestInterrupted(j) \/ Insert(j) \/ Purge(j)

ExecNext ==
    \/ \E j \in Jobs :
        \/ \E pc \in {"start", "resolve"}, follow \in BOOLEAN : Begin(j, pc, follow)
        \/ Own(j)
        \/ PreReturns(j) \/ TestReturns(j)
        \/ Redirected(j) \/ Answered(j) \/ CallFails(j)
        \/ \E f \in Phases : Timer(j, f)
    \/ Restart
    \/ Others

\* The goroutine runs, timers run, and the HTTP client gives up at its timeout;
\* nothing is assumed of scripts or of upstream.
ExecFairness ==
    \A j \in Jobs :
        /\ WF_execVars(Own(j))
        /\ WF_execVars(CallFails(j))
        /\ \A f \in Phases : WF_execVars(Timer(j, f))

ExecSpec == ExecInit /\ [][ExecNext]_execVars /\ ExecFairness

-----------------------------------------------------------------------------
(* Correctness. *)

\* Every execution is answered, though its scripts never end and upstream never
\* does, or redirects forever.
EveryExecutionEnds == \A j \in Jobs : exec[j].pc # "idle" ~> exec[j].pc = "idle"

\* No chain of redirects is longer than maxRedirects, whatever upstream answers, and
\* the history stays within its cap and the executions that are still to purge it,
\* which are those at the last step of the handler.
ExecutionInv ==
    /\ ExecTypeOK
    /\ HistoryInv
    /\ \A j \in Jobs : At(j, "record") <=> j \in Recording
=============================================================================
