CONSTANTS
    MinShotFrame = 2
    CLEAR_RANGE = 1
    Unstackable = {"skill"}
    InitialScript <- MCScript
    Commands <- MCSavestateCommands
    Frames = {2, 3, 4}
    Angles = {0, 1}
    Snap = 2
    Moves <- MCMoves
    TurnFrames = {1}
    WeaponDelay = 2
    OptimizedScripts <- MCOptimized
    InOrder = FALSE
    Undisturbed = TRUE
    MaxActions = 6
SPECIFICATION Spec
INVARIANT
    SavestateLabels
