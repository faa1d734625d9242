SPECIFICATION Spec
CONSTANTS
    t1 = t1
    t2 = t2
    Threads = {t1, t2}
    MaxFd = 4
    HostRequests <- EveryPath
    Faults = {"gadget", "ep0read", "assert", "select"}
    SlowIo = FALSE
    HostWaits = TRUE
INVARIANTS
    ExclusiveIo
    InEndpointOpen
    OutEndpointOpen
    DescriptorsAccounted
PROPERTIES
    DescriptorsStable
    EndpointPairSpec
    StopTakesEffect
    ConfiguredServes
CHECK_DEADLOCK FALSE
