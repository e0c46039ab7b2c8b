CONSTANTS
    Watches = {"rw"}
    Flags <- MC_Flags
    MaxGen = 2
    MaxPending = 2
SPECIFICATION Spec
INVARIANT DisabledWatchNotMonitored
CHECK_DEADLOCK FALSE
