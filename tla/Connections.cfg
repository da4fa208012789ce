SPECIFICATION FairSpec
CONSTANTS
    Playlists = {liked, own, open}
    Liked = liked
    Open = {open}
    Requests = {r1, r2}
    Scheduler = scheduler
    Callbacks = {c1, c2}
    States = {s1, s2}
    Grants = {g1, g2}
    None = none
    MaxAsked = 2
    MaxFaults = 1
INVARIANTS TypeOK ReauthNamesTheToken FirstSyncIsOwed StateIsUsedOnce
PROPERTIES FinalStaysFinal DueIsServed
