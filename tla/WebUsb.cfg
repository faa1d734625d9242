SPECIFICATION PageSpec
CONSTANTS
    Lk = Lk
    Recovery = Recovery
    Images = {Lk, Recovery}
    Length <- FileLengths
    pi1 = pi1
    Pushes = {pi1}
    MaxSlice = 2
    Roots <- RootNames
    Files <- FileNames
    Content <- Lengths
    Override <- Overrides
    MaxChunk = 2
    MaxObjects = 2
    MaxEntries = 2
    MaxDisturbed = 3
INVARIANTS
    PushIsExact
    OffsetsInOrder
    SizeIsKept
PROPERTIES
    PushEnds
    ReadIsWhole
    PluggedServed
    BootsUnattended
CHECK_DEADLOCK FALSE
