CONSTANTS
    Procs = {p, q}
    Blobs = {contract}
    Dirs = {d, e}
    Pieces = {"a", "b", "c", "0"}
    Zero = "0"
    Contents <- SomeContents
    Valid <- SomeValid
    Leftovers <- SomeLeftovers
    Missing = Missing
    MaxEdits = 1
    Texts <- SomeTexts
    Metered = {p}
SPECIFICATION FairSpec
INVARIANTS
    TypeOK
    ReplayTracesWhatItFetched
    TracesAreOfPrograms
    SuccessIsItsOwnTrace
    HexNeverPanics
PROPERTIES
    DisabledTouchesNothing
    InvocationsAreRecordings
    EveryInvocationExits
