SPECIFICATION FairPoolSpec
CONSTANTS
    p1 = p1  w1 = w1  w2 = w2
    Keys = {k1, k2}
    Procs = {p1, p2}
    WorkerIds = {w1, w2}
    IdOf <- MCIdOf
    MaxAttempts = 2
    MaxLapses = 1
    Gated = FALSE
    NoWorker = NoWorker
    NoLease = NoLease
PROPERTIES EveryTaskSettles
CHECK_DEADLOCK FALSE
