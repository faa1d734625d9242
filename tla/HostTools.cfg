SPECIFICATION Spec
CONSTANTS
    MaxChars = 40
    Magic = 38357321
    MaxSlots = 4
    RomAddress = 1610612736
    RomOffset = 4096
    BlockSize = 64
    MaxMessage = 130
    ListWindow = 16
    PageSize = 64
    Rounds = 3
    Language = 1033
    StringTable <- GadgetStrings
    Texts <- SomeTexts
    Roms <- SomeRoms
    Planes <- SomePlanes
    ListStarts = {0, 5}
    Areas <- SomeAreas
    Fixed <- FixedBytes
    Timings <- SomeTimings
INVARIANTS
    StringsServed
    TablesLoaded
    DigestOfPadded
    PlanesNamed
    WindowHolds
    TimingReadBack
    FlipsInTurn
PROPERTIES
    TearingEnds
CHECK_DEADLOCK FALSE
