CONSTANTS
    r1 = r1
    r2 = r2
    v0 = v0
    v1 = v1
    v2 = v2
    Runs = {r1, r2}
    Versions = {v0, v1, v2}
    Old = v0
    Stopped = {v0, v1}
    NQuestions = 2
    Casts <- FourCasts
    None = None
    Torn = Torn
SPECIFICATION ReadersSpec
INVARIANTS
    TypeOK
    CleanRunIsServedWhole
    FileSurvivesTheDatabase
    DeletedRunStaysGone
    BaselineDanglesOnlyByDelete
    RunsAreReadWhole
CHECK_DEADLOCK FALSE
