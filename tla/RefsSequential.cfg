SPECIFICATION Spec
CONSTANTS
    p1 = p1
    p2 = p2
    q1 = q1
    q2 = q2
    t1 = t1
    Playlists = {p1, p2}
    LikedSongs = {p2}
    Tracks = {t1}
    Assets = {1, 2, 3}
    Procs = {q1}
    Startup = q1
    Kinds <- OneDoesAll
    Disconnects = FALSE
    Uncaught = TRUE
    MaxEdits = 1
    MaxCrashes = 1
INVARIANTS
    TypeOK
    ListedIsReferenced
    SnapshotSkipsNoChange
    ReferencesMatchTracks
PROPERTIES
    ServedStaysServed
    WantedIsKept
