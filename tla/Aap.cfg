SPECIFICATION Spec
CONSTANTS
    Connections = 2
    MaxWire = 3
    MaxNoise = 2
INVARIANTS
    FirstIsOnline
    FirstNotRefused
PROPERTIES
    HandshakeCompletes
CHECK_DEADLOCK FALSE
