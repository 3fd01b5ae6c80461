CONSTANTS
    NoGas = NoGas
    NoLine = NoLine
    Unset = Unset
    Default = Default
    Paths <- MCPaths
    Readable <- MCReadable
    BlobPath = "guest.polkavm"
    EntryPc = 0
    Addresses = {0}
    MemLimit = 8
    Code <- IndirectCode
    BlockCost <- IndirectCost
    Locations <- NoLocations
    GasLimit = NoGas
    DynamicPaging = FALSE
SPECIFICATION Spec
INVARIANT FramesMirrorGuest
