SPECIFICATION Spec
CONSTANTS
    Connections = 2
    MaxWire = 3
    MaxNoise = 2
INVARIANTS
    ConnectedIsOnline
CHECK_DEADLOCK FALSE
