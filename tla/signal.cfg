SPECIFICATION SignalSpec
CONSTANTS
    MaxFrames = 25
    Seconds = 60
    Minutes = 60
    Hours = 24
    Dropped = 2
    KeepEvery = 10
    Starts <- MCStarts
    Frames = 12
    Hurt = {1, 3, 6, 12}
    DropFrame = FALSE
    Ends = 90
    Num = 147147
    Den = 100
    FirstFrames = 5
    MaxEncoded = 400
    Parts = 2
    Capacity = 7
    RingPrefill = 1
    RingStarts = {1}
    Nothing = Nothing
    MaxEpochs = 2
    MaxFrame = 4
    MaxLate = 2
    MaxAhead = 1
    MaxBehind = 3
INVARIANTS
    IntactIsFound
    FoundIsTrue
    NoDrift
    QueueIsAccounted
PROPERTIES
    HeardAsMade
CHECK_DEADLOCK FALSE
