CONSTANTS
    w1 = w1  w2 = w2  j1 = j1  j2 = j2
    Workers = {w1, w2}
    Jobs = {j1, j2}
    Priority <- MCPriority
    DoAll = {j1}
    NumberCall <- MCNumberCall
    FirstCall = 1
    Interval = 2
    Instants = {0, 1, 2, 3, 4}
    MaxFailTime = 1
    MaxFaults = 1
    MaxEdits = 1
    MaxInstalls = 0
    User = User
    None = None
SYMMETRY MCSymmetry
SPECIFICATION Spec
CHECK_DEADLOCK FALSE
INVARIANTS
    TypeOK
    MutualExclusion
    RunsOnlyDue
    NoSkippedRun
