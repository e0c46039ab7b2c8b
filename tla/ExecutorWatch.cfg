CONSTANTS
    Watches = {"rw"}
    Flags <- MC_Flags
    MaxGen = 2
    MaxPending = 2
SPECIFICATION Spec
INVARIANT TypeOK
INVARIANT HandleOnLiveWatch
INVARIANT InterestKept
CHECK_DEADLOCK FALSE
