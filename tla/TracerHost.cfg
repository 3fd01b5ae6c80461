CONSTANTS
    NoGas = NoGas
    NoLine = NoLine
    Unset = Unset
    Default = Default
    Paths <- MCPaths
    Readable <- MCReadable
    BlobPath = "guest.polkavm"
    EntryPc = 0
    Addresses = {0, 1, 8}
    MemLimit = 8
    Code <- HostCode
    BlockCost <- HostCost
    Locations <- HostLocations
    GasLimit = NoGas
    DynamicPaging = TRUE
SPECIFICATION FairSpec
INVARIANTS
    FramesMirrorGuest
    EndIsReported
    OpenAtTheEnd
