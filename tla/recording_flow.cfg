SPECIFICATION FlowSpec
CONSTANTS
    FolderScan = FolderScan
    ClipProbe = ClipProbe
    LtcDecode = LtcDecode
    LtcGroupDecode = LtcGroupDecode
    Kind <- MCKind
    NoKind = NoKind
    Outcome = {"Succeeded", "Cancelled", "Failed"}
    MaxJobs = 3
    MaxItems = 1
    Panicking <- MCPanicking
    None = None
    cardA = cardA
    cardB = cardB
    clip1 = clip1
    clip2 = clip2
    clip3 = clip3
    Folder = {cardA, cardB}
    Contents <- MCContents
    Index = {1, 2}
INVARIANTS
    LiveWorkersListed
    FinishedNeverLost
    ShownFits
    ScannedFolderListed
PROPERTIES
    ImplementsSupervisor
