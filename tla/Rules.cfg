SPECIFICATION Spec
CONSTANTS
    Threshold = 70
    MaxMarks = 1
    MaxFeatured = 1
    MaxLength = 5
    Chars = {"a", "b", " ", "/", "-", "(", ")"}
    Artists <- SomeArtists
    Titles <- SomeTitles
CHECK_DEADLOCK FALSE
INVARIANTS ScoresRankRightly ScanAdoptsRightly MuxingServes LyricsAreTheTracks
