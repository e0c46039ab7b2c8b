\* Two buses whose executors come from make_executor(bus).
CONSTANTS
    Buses = {b1, b2}
    IoKinds = {"static"}
    MaxMsgs = 2
SPECIFICATION DSpec
INVARIANT DrainNotReentered
CHECK_DEADLOCK FALSE
