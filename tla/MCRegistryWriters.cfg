SPECIFICATION Spec
CONSTANTS
    w1 = w1
    w2 = w2
    r1 = r1
    k1 = k1
    k2 = k2
    Procs <- MCProcs
    Cron = {}
    Writers <- MCWriters
    Keys <- MCKeys
    Schema = Schema
    MaxTries = 0
    MaxWrites = 2
    MaxFaults = 0
    None = None
INVARIANT
    CheckReturnsUpToDate
