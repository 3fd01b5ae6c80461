CONSTANTS
    Procs = {p}
    Blobs = {contract}
    Dirs = {d}
    Pieces = {"a", "b", "c", "0"}
    Zero = "0"
    Contents <- SomeContents
    Valid <- SomeValid
    Leftovers <- SomeLeftovers
    Missing = Missing
    MaxEdits = 0
    Texts <- AllTexts
    Metered = {}
SPECIFICATION Spec
INVARIANTS
    InvalidHexIsReported
