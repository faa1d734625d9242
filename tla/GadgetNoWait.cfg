SPECIFICATION Spec
CONSTANTS
    t1 = t1
    t2 = t2
    Threads = {t1, t2}
    MaxFd = 4
    HostRequests <- ReconfiguringHost
    Faults = {}
    SlowIo = FALSE
    HostWaits = FALSE
INVARIANTS
    WaitedForTermination
CHECK_DEADLOCK FALSE
