SPECIFICATION Spec
CONSTANTS
    MaxFrames = 3
    Seconds = 2
    Minutes = 2
    Hours = 2
    Dropped = 2
    KeepEvery = 2
    Origins <- MCOrigins
    FileLen = 10
    Gaps <- MCGaps
    MaxMisread = 2
    LockAfter = 1
    None = None
INVARIANTS
    RepairIsRight
    StartIsTrue
CHECK_DEADLOCK FALSE
