SPECIFICATION TransportSpec
CONSTANTS
    MaxOutputs = 2
    MaxSchedulers = 2
    MaxEvents = 2
    Day = 3
    StartTimecode = {0}
    Prefill = 2
    MAX_ATTEMPTS = 1
    MAX_RECOVERY_ATTEMPTS = 2
    GuiWaits = TRUE
INVARIANTS
    PlayingAgrees
    StoppedStaysStopped
    TimecodeOnTime
CHECK_DEADLOCK FALSE
