SPECIFICATION SkillsSpec
CONSTANTS
    SkillIds = {s1, s2}
    Clients = {c1, c2}
    MaxCommands = 3
INVARIANTS RegistryOwnsStatus
SYMMETRY ClientSymmetry
CHECK_DEADLOCK FALSE
