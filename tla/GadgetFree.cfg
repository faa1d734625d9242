SPECIFICATION Spec
CONSTANTS
    t1 = t1
    t2 = t2
    Threads = {t1, t2}
    MaxFd = 2
    HostRequests <- ReconfiguringHost
    Faults = {"open", "thread", "write"}
    SlowIo = TRUE
    HostWaits = FALSE
INVARIANTS
    TypeOK
PROPERTIES
    SetupAnswered
CHECK_DEADLOCK FALSE
