CONSTANTS
    NoGas = NoGas
    NoLine = NoLine
    Unset = Unset
    Default = Default
    Paths <- MCPaths
    Readable <- MCReadable
    BlobPath = "guest.polkavm"
    EntryPc = 0
    Addresses = {0, 8}
    MemLimit = 8
    Code <- StoreImmCode
    BlockCost <- StoreImmCost
    Locations <- NoLocations
    GasLimit = NoGas
    DynamicPaging = FALSE
SPECIFICATION Spec
INVARIANT MemoryTrapIsSegfault
