SPECIFICATION RequestsSpec
CONSTANTS
    Runners = {r1, r2}
    MaxAttempts = 2
    MaxOps = 3
    Sandboxed = FALSE
    Domains = 2
    MaxRuns = 2
    Seekers = {"first", "second"}
    Cascades <- MCCascades
    Ttl <- MCTtl
    Patience = 1
    MaxTime = 2
    MaxAsks = 2
INVARIANTS
    TrailTellsEffects
    NothingRunsUngated
    TaskTellsTrail
    AskedToReadOnlyReads
    RefusedBeforeWriting
    ScheduledTwiceOnlyAddsFindings
    AnswerAddsUp
    AgreementRanksFirst
SYMMETRY RunnerSymmetry
CHECK_DEADLOCK FALSE
