\* Two timeouts, two adapters each, two queued expiries per adapter.
CONSTANTS
    Timeouts = {t1, t2}
    MaxGen = 2
    MaxPending = 2
SPECIFICATION TFairSpec
INVARIANT TTypeOK TimeoutHandleOnLive
PROPERTY EnabledTimeoutFires
CHECK_DEADLOCK FALSE
