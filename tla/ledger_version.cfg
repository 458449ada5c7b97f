SPECIFICATION ReviewSpec
CONSTANTS
    note = note  page = page  pack = pack  x1 = x1  x2 = x2  x3 = x3
    Ids = {note, page, pack}
    Contents = {x1, x2, x3}
    Sessions = {s1, s2}
    Says <- MCSays
    KindOf <- MCKindOf
    MaxVerdicts = 2
    MaxAnswers = 1
    Nothing = Nothing
    books = books  chain = chain
    c1 = c1  c2 = c2  c3 = c3  g1 = g1  g2 = g2  s1 = s1  s2 = s2  p1 = p1  p2 = p2
    Claims = {c1, c2, c3}
    Pages = {g1, g2}
    Proposals <- MCProposals
    Procs = {p1, p2}
    Versioned = TRUE
    MaxOps = 4
    MaxOverlapping = 3
    None = None
PROPERTIES VersionedRewriteLosesNothing
SYMMETRY ReviewSymmetry
CHECK_DEADLOCK FALSE
