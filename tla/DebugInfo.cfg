CONSTANTS
    Blobs <- MCBlobs
    Symbols <- MCSymbols
    SolPaths <- MCSolPaths
    NoPath = NoPath
    NoName = NoName
    None = None
    MaxPc = 5
SPECIFICATION Spec
INVARIANTS
    TypeOK
    FunctionAtIsTheLastExport
    ViewsAgree
    EntryIsRight
    ArgumentsAreNamed
