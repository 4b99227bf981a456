\* One administrator and one ordinary account, one handler at a time.
CONSTANTS
    Jobs = {j1}
    NoJob = NoJob
    MaxUser = 2
    MaxEnv = 2
SPECIFICATION Spec
INVARIANT GlobalSlotIsGlobal
CHECK_DEADLOCK FALSE
