SPECIFICATION LiveSpec
CONSTANTS
    Client = {c1, c2}
    Predictor = c1
    Efficacy <- MCEfficacy
    LastFrame = 2
    ScriptEnd = 4
    MAX_LENGTH = 3
    MaxEvents = 3
CHECK_DEADLOCK FALSE
INVARIANTS ShownIsCurrent BestRunSpreads LineFaithful
PROPERTIES TaskAfterPrediction SearchResumes
