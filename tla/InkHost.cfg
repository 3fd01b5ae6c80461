CONSTANTS
    Cells = {0, 1, 2, 3}
    ReadOnly = {0}
    ByteValues = {0, 1}
    MaxData = 1
    Input <- MCInput
    Unset = Unset
    Setups <- MCSetups
SPECIFICATION Spec
INVARIANTS
    TypeOK
    InputArrives
PROPERTIES
    StorageIsAMap
