SPECIFICATION Spec
CONSTANTS
    p1 = p1  w1 = w1  w2 = w2
    Keys = {k1, k2}
    Procs = {p1, p2, p3}
    WorkerIds = {w1, w2}
    IdOf <- MCIdOf
    MaxAttempts = 2
    MaxLapses = 3
    NoWorker = NoWorker
    NoLease = NoLease
INVARIANTS SingleHolder
PROPERTIES StaleLeaseWritesNothing ImplementsLedger
CHECK_DEADLOCK FALSE
