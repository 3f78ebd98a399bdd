SPECIFICATION TaggingSpec
CONSTANTS
    Clips = 2
    Names <- MCNames
    Folders <- MCFolders
    Templates <- MCTemplates
    MaxSessions = 2
    Starts <- MCStarts
    SampleRate = 8000
    NoBox = NoBox
INVARIANTS NothingLost ReportedIsTrue HarmIsReported
CHECK_DEADLOCK FALSE
