SPECIFICATION ProcessSpec
CONSTANTS
    NoProbe = NoProbe
    NoPair = NoPair
    None = None
    NotYet = NotYet
    Cases <- MCCases
    Chain <- MCChain
    HardwareEncoder = {"vaapi"}
    Calls = {"watch", "output", "wait"}
    MaxLines = 3
    PipeSize = 2
    Limit = 3
INVARIANTS
    PreviewIsWritten
    NoLtcWritten
    PartialIsReported
    NoOrphan
    LinesDelivered
PROPERTIES
    ConversionIsTask
    CallIsTask
CHECK_DEADLOCK FALSE
