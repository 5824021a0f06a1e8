CONSTANTS
    MinShotFrame = 8
    CLEAR_RANGE = 2
    Unstackable = {"skill"}
    Scripts <- MCScripts
    UserCommands <- MCUserCommands
    MaxTyped <- MCMaxTyped
    MaxLoad = 1
    MaxFrame = 24
    LevelExits = {6}
    UNPAUSE_FRAMES = 4
    MIN_SAVESTATE = 3
    frequency = 4
    SAVESTATE_WINDOW = 3
    tas_savestate_auto = TRUE
SPECIFICATION LiveSpec
INVARIANTS
    EditModeFaithful
    EditModeSettings
    SavestateTable
PROPERTIES
    LoadingEnds
    PauseSticks
    RunsEnd
