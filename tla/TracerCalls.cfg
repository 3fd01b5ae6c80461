CONSTANTS
    NoGas = NoGas
    NoLine = NoLine
    Unset = Unset
    Default = Default
    Paths <- MCPaths
    Readable <- MCReadable
    BlobPath = "guest.polkavm"
    EntryPc = 0
    Addresses = {0, 2, 8}
    MemLimit = 8
    Code <- CallsCode
    BlockCost <- CallsCost
    Locations <- CallsLocations
    GasLimit = 10
    DynamicPaging = FALSE
SPECIFICATION FairSpec
INVARIANTS
    TypeOK
    SnapshotsAtTheirLocation
    TablesBeforeMentions
    FramesMirrorGuest
    ArgumentsReachTheirCall
    SoftErrorsAreTold
    EndIsReported
    OpenAtTheEnd
    TraceFitsTheBudget
PROPERTIES
    StepsAreTheVisits
    TracerIsARecording
    RecordingReturns
    RecordingComesNearer
