SPECIFICATION FairTransportSpec
CONSTANTS
    MaxOutputs = 1
    MaxSchedulers = 1
    MaxEvents = 1
    Day = 3
    StartTimecode = {0}
    Prefill = 2
    MAX_ATTEMPTS = 1
    MAX_RECOVERY_ATTEMPTS = 1
    GuiWaits = TRUE
PROPERTIES
    StopReturns
CHECK_DEADLOCK FALSE
