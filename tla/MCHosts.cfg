SPECIFICATION Spec
CONSTANTS
    a = a  b = b  c = c  z = z  v = v
    Host <- MCHost
    ZeroPort <- MCZeroPort
    Invalid <- MCInvalid
    HostPoolCapacity = 2
    Batches <- MCBatches
    SavedFiles <- MCSavedFiles
INVARIANTS
    NoDuplicates
    AcceptedKept
    GapExamined
    FittingListTaken
PROPERTIES
    SaveLoadRoundTrip
