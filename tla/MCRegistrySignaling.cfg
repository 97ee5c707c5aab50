SPECIFICATION Spec
CONSTANTS
    w1 = w1
    w2 = w2
    r1 = r1
    k1 = k1
    k2 = k2
    Procs <- MCProcs
    Cron = {}
    Writers <- MCWriters
    Keys = {k1}
    Schema = Schema
    MaxTries = 1
    MaxWrites = 2
    MaxFaults = 1
    None = None
SYMMETRY MCSymmetry
INVARIANTS
    TypeOK
    ReadersCoherent
    NoDirtyEntry
CHECK_DEADLOCK FALSE
