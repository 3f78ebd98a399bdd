SPECIFICATION StatusSpec
CONSTANTS
    Conversion = Conversion
    OffloadCopy = OffloadCopy
    Kind = {Conversion, OffloadCopy}
    NoKind = NoKind
    Outcome = {"Succeeded", "Cancelled", "Failed"}
    MaxJobs = 2
    MaxItems = 0
PROPERTIES
    OffloadSettles
    JobsAreReaped
    ShutdownReturns
