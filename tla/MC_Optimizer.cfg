SPECIFICATION LiveSpec
CONSTANTS
    MinShotFrame = 2
    CLEAR_RANGE = 1
    Unstackable = {"skill"}
    Scripts <- MCScripts
    Objectives <- MCObjectives
    GiveUps = {2, 99999}
    ResetToBest = 3
    MaxLength = 3
    EndOffset = 1
    Reach = 2
    ShotGap = 1
    MAX_N = 2
    Circle = 16
    INVALID_ANGLE = 25
    RandomYaws = {0, 8}
    SmallYaws <- MCSmallYaws
    SearchMaxs <- MCSearchMaxs
    MappingIterations = 1
    EPS = 2
    MaxCount = 3
    MaxPicks = 2
    MaxEdits = 1
INVARIANTS BestReproducible CliffFound
PROPERTIES OrderKept SearchesEnd
CHECK_DEADLOCK FALSE
