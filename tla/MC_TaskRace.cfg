SPECIFICATION Spec
CONSTANTS
    Client = {c1, c2}
    Predictor = c1
    Efficacy = {1, 2}
    LastFrame = 2
    ScriptEnd = 4
    MAX_LENGTH = 3
    MaxEvents = 2
PROPERTY TasksWait
CHECK_DEADLOCK FALSE
