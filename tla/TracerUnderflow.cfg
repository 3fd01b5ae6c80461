CONSTANTS
    NoGas = NoGas
    NoLine = NoLine
    Unset = Unset
    Default = Default
    Paths <- MCPaths
    Readable <- MCReadable
    BlobPath = "guest.polkavm"
    EntryPc = 0
    Addresses = {0}
    MemLimit = 8
    Code <- CallsCode
    BlockCost <- CallsCost
    Locations <- CallsLocations
    GasLimit = 12
    DynamicPaging = FALSE
SPECIFICATION Spec
INVARIANT FinalReturnHasAFrame
