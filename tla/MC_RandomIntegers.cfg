CONSTANTS
    Args <- MCArgs
    MAX_N = 4
SPECIFICATION RandomSpec
INVARIANTS
    DrawIntervalNonempty
    ResultSpaced
PROPERTY
    Terminates
