SPECIFICATION Spec
CONSTANTS
    Name = {"e1m1", "e1m2"}
    MaxBackups = 3
    MaxSaves = 4
    MaxEdits = 2
    MaxCrashes = 1
INVARIANT SavesSurvive
CHECK_DEADLOCK FALSE
