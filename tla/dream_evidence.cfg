SPECIFICATION DreamSpec
CONSTANTS
    Sources = {s1}
    Queries = {q1}
    Dreamers = {d1, d2}
    MaxRuns = 1
    MaxHits = 1
    EndOfTime = 3
    Options <- DreamOptions
    Window = 2
    RefreshAfter = 2
INVARIANTS IngestedRawHasEvidence
SYMMETRY DreamerSymmetry
CHECK_DEADLOCK FALSE
