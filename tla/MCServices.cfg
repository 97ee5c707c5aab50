CONSTANTS
    Attachments = {a1, a2}
    Files = {f1, f2}
    Transactions = {t1, t2}
    IOErrors = TRUE
    None = None
    Requests = {q1, q2}
    Main = Main
    Ranges = {r1, r2}
    NoRow = NoRow
    MaxDraws = 2
    MaxIssued = 5
    Pollers = {p1, p2}
    MaxId = 3
    MaxFaults = 1
SYMMETRY MCSymmetry
SPECIFICATION MCSpec
CHECK_DEADLOCK FALSE
INVARIANTS
    TypesOK
    GarbageListed
    NumbersInLine
    NothingPassedOver
    WaitersWoken
PROPERTY RemovesOnlyGarbage
