SPECIFICATION Spec
CONSTANTS
    MaxChunks = 2
    Images <- AnyImages
    JsWord = 512
INVARIANTS
    AllOnChunk
    AllComplete
CHECK_DEADLOCK FALSE
