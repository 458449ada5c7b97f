SPECIFICATION EventSpec
CONSTANTS
    Writers = {w1, w2}
    MaxEvents = 2
INVARIANT EveryAcceptedIsKept
CHECK_DEADLOCK FALSE
