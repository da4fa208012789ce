SPECIFICATION LikedSpec
CONSTANTS
    a1 = a1
    a2 = a2
    s1 = s1
    s2 = s2
    Platforms <- OnlyPlex
    Remaps <- NoRemap
    Items = {a1}
    Lists <- OneList
    Names = {n1, n2}
    Ids = {1, 2, 3}
    Procs = {s1}
    PollAttempts = 2
    MaxEdits = 2
    MaxForeign = 0
    Deletes = FALSE
    MaxFaults = 1
    MaxCrashes = 0
PROPERTIES
    Repairs
CHECK_DEADLOCK FALSE
