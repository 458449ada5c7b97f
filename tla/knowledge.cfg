SPECIFICATION KnowledgeSpec
CONSTANTS
    Claims = {1, 2, 3}
    None = None
    Born <- MCBorn
    Pages = {p1, p2}
    Editors = {e1, e2}
    MaxChanges = 3
    Builders = {b1, b2}
    MaxSnapshots = 3
    MaxRecords = 1
    Sources = {s1}
    Queries = {q1}
    Dreamers = {d1, d2}
    MaxRuns = 1
    MaxHits = 1
    EndOfTime = 3
    Options <- DreamOptions
    Window = 2
    RefreshAfter = 2
INVARIANTS
    ResolvedStaysResolved
    StatementSurvives
    HistoryIsTold
    IndexExactWhenAlone
    RegistryKnowsGraph
    NoRunIsPassedOver
    LintOfADomainLosesNothing
    GraphFallsIntoComponents
SYMMETRY DreamerSymmetry
CHECK_DEADLOCK FALSE
