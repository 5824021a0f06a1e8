CONSTANTS
    MinShotFrame = 2
    CLEAR_RANGE = 1
    Unstackable = {"skill"}
    BUFFER_SIZE = 8
    LineLength <- MCLineLength
    InitialScripts <- MCInitialScripts
    Frames = {0, 2, 3, 4, 5}
    Names = {"tas_view_yaw", "skill"}
    Values = {1, 2}
    TurnFrames = {1, 2}
    Deltas <- MCDeltas
    MaxEdits = 2
SPECIFICATION Spec
INVARIANTS
    Sorted
    RoundTrips
    ShotsFire
    SplicePreserves
    PatchesSound
