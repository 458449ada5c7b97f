SPECIFICATION StoresSpec
CONSTANTS
    Writers = {w1, w2, w3}
    MaxEvents = 4
    Kernels = {k1, k2}
    Steps = {s1}
    MaxSignals = 2
    MaxCalls = 2
    CalendarClients = {c1, c2}
    Months = {1, 2}
    Uids = {1, 2, 3}
    Bodies <- Pasted
    MaxCalendarCommands = 3
    Handles = {h0, h1}
    DefaultHandle = h0
    Processes = {u1, u2}
    MaxRows = 2
    SkillIds = {i1, i2}
    Clients = {d1, d2}
    MaxCommands = 3
    Packs <- PackNames
    SeedCases <- TwoCases
    Scripts = {e1, e2}
    MaxStarts = 2
    MaxRecords = 2
    AcceptedFloor = 100
    Digests <- ThreeDigests
    Keys = {key}
    Agents = {a1, a2}
    Paths = {p1, p2}
    Marks = {m1, m2}
    MaxDigests = 3
    MaxRecall = 2
    MaxEdits = 3
    DayLength = 5
    WorkStart = 1
    WorkEnd = 5
    Weekdays = {0, 1}
    MinGap = 1
INVARIANTS
    AcceptedIsKept
    ParentComesFirst
    NoSignalForgotten
    ExactWhenAlone
    AppointmentsStay
    HandleNamesOneUser
    SkillsStayListed
    CountsAreBacked
    KnownByTheBest
    PlansKeepAppointments
    
SYMMETRY Symmetry
CHECK_DEADLOCK FALSE
