SPECIFICATION Spec
CONSTANTS
    p1 = p1
    p2 = p2
    q1 = q1
    q2 = q2
    t1 = t1
    Playlists = {p1}
    LikedSongs = {}
    Tracks = {t1}
    Assets = {1, 2, 3}
    Procs = {q1, q2}
    Startup = q1
    Kinds <- SyncAgainstReplace
    Disconnects = TRUE
    Uncaught = FALSE
    MaxEdits = 2
    MaxCrashes = 1
PROPERTIES
    SwapKeepsServing
CHECK_DEADLOCK FALSE
