SPECIFICATION PoolSpec
CONSTANTS
    p1 = p1  w1 = w1  w2 = w2
    Keys = {k1}
    Procs = {p1, p2, p3}
    WorkerIds = {w1, w2}
    IdOf <- MCIdOf
    MaxAttempts = 2
    MaxLapses = 2
    Gated = TRUE
    NoWorker = NoWorker
    NoLease = NoLease
INVARIANTS ProposalsMatchQueue LogMatchesQueue
PROPERTIES QueueBehaviour
CHECK_DEADLOCK FALSE
