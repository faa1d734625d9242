SPECIFICATION Spec
CONSTANTS
    a = a
    ctrl = ctrl
    shift = shift
    Keys = {a, ctrl, shift}
    Modifiers = {ctrl, shift}
    Unmapped = {ctrl, shift}
    MaxRead = 6
    MaxKeys = 2
    MaxQueue = 9
    Faults = {"epoll", "read", "write"}
INVARIANTS
    ModifiersAtRest
    HostInStep
CHECK_DEADLOCK FALSE
