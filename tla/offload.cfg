SPECIFICATION OffloadSpec
CONSTANTS
    OffloadCopy = OffloadCopy
    Kind = {OffloadCopy}
    NoKind = NoKind
    Outcome = {"Succeeded", "Cancelled"}
    MaxJobs = 1
    MaxItems = 0
    clip = clip
    take = take
    Files <- MCFiles
    Empty <- MCEmpty
    Device = {camA, camB}
    Parent = {day1, day2}
    None = None
INVARIANTS
    CompletedIsDelivered
PROPERTIES
    OffloadImplementsSupervisor
