\* An administrator and an ordinary account, whose id comes back; two handlers at
\* once; two environment ids.
CONSTANTS
    Jobs = {j1, j2}
    NoJob = NoJob
    MaxUser = 2
    MaxEnv = 2
SPECIFICATION Spec
INVARIANTS EnvironmentsInv OrdinaryWritesStayHome
SYMMETRY JobSymmetry
CHECK_DEADLOCK FALSE
