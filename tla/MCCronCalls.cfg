CONSTANTS
    w1 = w1  w2 = w2  j1 = j1  j2 = j2
    Workers = {w1, w2}
    Jobs = {j1, j2}
    Priority <- MCPriority
    DoAll = {j1}
    NumberCall <- MCNumberCall
    FirstCall = 1
    Interval = 2
    Instants = {0, 2, 4}
    MaxFailTime = 2
    MaxFaults = 0
    MaxEdits = 0
    MaxInstalls = 0
    User = User
    None = None
SPECIFICATION Spec
CHECK_DEADLOCK FALSE
INVARIANT NumberOfCalls
