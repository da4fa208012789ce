SPECIFICATION FairSpec
CONSTANTS
    a1 = a1
    a2 = a2
    s1 = s1
    s2 = s2
    Platforms <- Both
    Remaps = {FALSE}
    Items = {a1, a2}
    Lists <- ShortLists
    Names = {n1, n2}
    Ids = {1, 2, 3, 4, 5, 6}
    Procs = {s1}
    PollAttempts = 2
    MaxEdits = 2
    MaxForeign = 1
    Deletes = TRUE
    MaxFaults = 1
    MaxCrashes = 1
INVARIANTS
    TypeOK
    ServerIsKnown
PROPERTIES
    ForeignNeedsConsent
    Mirrors
CHECK_DEADLOCK FALSE
