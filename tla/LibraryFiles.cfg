SPECIFICATION Spec
CONSTANTS
    Tracks = {1, 2}
    Bases = {"a"}
    BaseOf <- OneName
    Numbers = {1, 2}
    Containers = {"mp4", "mkv"}
    Assets = {1, 2}
    Procs = {1, 2}
    MaxStarts = 4
    MaxForeign = 1
    MaxCrashes = 1
CHECK_DEADLOCK FALSE
INVARIANTS TypeOK FolderMatchesRows
PROPERTIES VideosAreKept
