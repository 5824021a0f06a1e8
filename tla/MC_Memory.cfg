SPECIFICATION Spec
CONSTANTS
    HEADER = 40
    MINFRAGMENT = 64
    Cap = 360
    Sizes = {1, 90}
    hunk_size = 11
    Users = {u1, u2, u3}
    HunkSizes = {1, 3}
    CacheSizes = {2, 3}
INVARIANTS
    ZoneConsistent
    ScanComplete
    CacheSound
PROPERTY
    AllocationsEnd
