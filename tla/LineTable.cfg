CONSTANTS
    NL = NL
    x = x
    Bytes <- MCBytes
    Files <- MCFiles
    MaxLen = 3
SPECIFICATION Spec
INVARIANTS
    TypeOK
    TableDescribesFile
    TableIsUsable
