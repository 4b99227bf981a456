\* Two executions at once, three in all; a cap of one or two rows; one restart or
\* failed purge; a chain cut at the second redirect.
CONSTANTS
    Jobs = {j1, j2}
    Recorders = {j1, j2}
    Keeps = {1, 2}
    FlagKeep = 2
    MaxId = 3
    MaxRedirects = 2
    MaxExecutions = 3
    MaxStops = 1
SPECIFICATION ExecSpec
INVARIANTS ExecutionInv DeadlineIsOfItsRun
PROPERTY EveryExecutionEnds
CHECK_DEADLOCK FALSE
