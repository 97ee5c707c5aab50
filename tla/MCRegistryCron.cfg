SPECIFICATION Spec
CONSTANTS
    w1 = w1
    w2 = w2
    r1 = r1
    k1 = k1
    k2 = k2
    Procs = {w1, r1}
    Cron = {w1}
    Writers = {w1}
    Keys = {k1}
    Schema = Schema
    MaxTries = 0
    MaxWrites = 1
    MaxFaults = 0
    None = None
INVARIANT
    CheckReturnsUpToDate
