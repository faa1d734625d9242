SPECIFICATION Spec
CONSTANTS
    Ring = 4
    Bits = 2
    MaxSize = 5
    Undefined = Undefined
INVARIANTS
    TypeOK
    RingIsHistory
    WithinChunk
    OutputBounded
PROPERTIES
    StreamSpec
    Returns
CHECK_DEADLOCK FALSE
