------------------------------ MODULE Sandbox -------------------------------
(***************************************************************************)
(* The JavaScript runtime of an execution and its run deadline.  The       *)
(* pre-request and the test script of one execution run one after the      *)
(* other on one VM.  A run arms a timer whose function calls Interrupt; at *)
(* its end it stops the timer and clears the VM's interrupt flag, but      *)
(* Timer.Stop does not wait for a function that has begun: its Interrupt   *)
(* may come later.                                                         *)
(***************************************************************************)
EXTENDS Integers, FiniteSets

CONSTANT Jobs       \* executions, one runtime each

ASSUME JobsAssumption == IsFiniteSet(Jobs)

VARIABLE vm         \* vm[j]: the runtime of execution j

Phases == {"pre", "test"}

\* running: the script that runs; timer: "fired" is a timer whose function has
\* begun and has not called Interrupt; flag: the VM's interrupt flag.
\* by, late (history): whose timer has set the flag; the pre-request script's
\* timer had fired when its run ended.
Runtime == [running : Phases \cup {"none"},
            timer : [Phases -> {"off", "armed", "fired"}],
            flag : BOOLEAN, by : Phases \cup {"none"}, late : BOOLEAN]

SandboxTypeOK == vm \in [Jobs -> Runtime]

NewRuntime == [running |-> "none", timer |-> [f \in Phases |-> "off"],
               flag |-> FALSE, by |-> "none", late |-> FALSE]

SandboxInit == vm = [j \in Jobs |-> NewRuntime]

StartRunUntimed(j, f) ==
    /\ vm[j].running = "none"
    /\ vm' = [vm EXCEPT ![j].running = f]

\* RunProgram: startDeadline, then the script.
StartRun(j, f) ==
    /\ vm[j].running = "none"
    /\ vm' = [vm EXCEPT ![j] = [@ EXCEPT !.running = f, !.timer[f] = "armed"]]

Fire(j, f) ==
    /\ vm[j].timer[f] = "armed"
    /\ vm' = [vm EXCEPT ![j].timer[f] = "fired"]

Interrupt(j, f) ==
    /\ vm[j].timer[f] = "fired"
    /\ vm' = [vm EXCEPT ![j] = [@ EXCEPT !.timer[f] = "off", !.flag = TRUE, !.by = f]]

StoppedUncleared(j) ==
    LET f == vm[j].running
    IN  [vm[j] EXCEPT !.running = "none",
                      !.timer[f] = IF @ = "armed" THEN "off" ELSE @,
                      !.late = @ \/ (f = "pre" /\ vm[j].timer[f] = "fired")]

\* The deferred done of RunProgram: Stop, then ClearInterrupt.
Stopped(j) ==
    LET f == vm[j].running
    IN  [vm[j] EXCEPT !.running = "none",
                      !.timer[f] = IF @ = "armed" THEN "off" ELSE @,
                      !.late = @ \/ (f = "pre" /\ vm[j].timer[f] = "fired"),
                      !.flag = FALSE, !.by = "none"]

\* A script that ends by itself, with a value or an exception, and one that the
\* VM ends because its flag is set.
Returns(j) == vm[j].running # "none" /\ vm' = [vm EXCEPT ![j] = Stopped(j)]

Interrupted(j) == vm[j].flag /\ Returns(j)

-----------------------------------------------------------------------------
(* Correctness. *)

\* The test script is cut off by its own deadline only, unless the pre-request
\* script ended in the very moment its deadline passed: neither an armed timer
\* nor a raised flag is handed on from one run to the next.
DeadlineIsOfItsRun ==
    \A j \in Jobs :
        vm[j].running = "test" /\ vm[j].flag => vm[j].by = "test" \/ vm[j].late

\* The inductive invariant: what the pre-request script's timer can still do, it
\* does to that script, unless the timer had fired when the script ended.
SandboxInv ==
    /\ SandboxTypeOK
    /\ \A j \in Jobs :
        /\ vm[j].timer["pre"] = "armed" => vm[j].running = "pre"
        /\ vm[j].timer["pre"] = "fired" => vm[j].running = "pre" \/ vm[j].late
        /\ vm[j].flag => vm[j].by \in Phases
        /\ vm[j].by = "pre" => vm[j].running = "pre" \/ vm[j].late
=============================================================================
