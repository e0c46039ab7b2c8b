\* One timeout is enough for the counterexample.
CONSTANTS
    Timeouts = {t1}
    MaxGen = 2
    MaxPending = 2
SPECIFICATION TSpec
INVARIANT HandledOnlyWhenArmed
CHECK_DEADLOCK FALSE
