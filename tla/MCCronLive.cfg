CONSTANTS
    w1 = w1  w2 = w2  j1 = j1  j2 = j2
    Workers = {w1, w2}
    Jobs = {j1, j2}
    Priority <- MCPriority
    DoAll = {j1}
    NumberCall <- MCUnlimited
    FirstCall = 1
    Interval = 2
    Instants = {0, 2, 4, 6}
    MaxFailTime = 2
    MaxFaults = 1
    MaxEdits = 0
    MaxInstalls = 1
    User = User
    None = None
SPECIFICATION FairSpec
CHECK_DEADLOCK FALSE
INVARIANT CallsWithinLimit
PROPERTIES
    DueJobsRun
    StuckModulesReset
