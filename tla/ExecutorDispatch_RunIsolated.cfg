\* Two buses whose executors come from make_executor(bus).
CONSTANTS
    Buses = {b1, b2}
    IoKinds = {"static"}
    MaxMsgs = 1
SPECIFICATION DSpec
INVARIANT RunIsolated
CHECK_DEADLOCK FALSE
