SPECIFICATION Spec
CONSTANTS
    Workers = {w1, w2}
    Totals = {0, 5, 14}
    TargetChunk = 8
    Overlap = 4
    Offsets = {0, 1}
    Jitter = 1
    Levels = 2
    None = None
    Frame = 4
INVARIANTS
    EveryFrameInAChunk
    OkIsWhole
    FramesOnce
PROPERTIES
    DecodeIsTask
CHECK_DEADLOCK FALSE
