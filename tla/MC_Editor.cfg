CONSTANTS
    MinShotFrame = 2
    CLEAR_RANGE = 1
    Unstackable = {"skill"}
    InitialScript <- MCScript
    Commands <- MCCommands
    Frames = {2, 3}
    Angles = {0, 1}
    Snap = 2
    Moves <- MCMoves
    TurnFrames = {1}
    WeaponDelay = 2
    OptimizedScripts <- MCOptimized
    InOrder = TRUE
    Undisturbed = TRUE
    MaxActions = 4
SPECIFICATION Spec
INVARIANTS
    NothingStale
PROPERTIES
    TypedTakesEffect
    ModesUndo
    EditsDated
    BlocksKept
