\* Two buses, each with its own io_service, two messages each.  The
\* application may stop calling once the messages are read: no deadlock check.
CONSTANTS
    Buses = {b1, b2}
    IoKinds = {"own"}
    MaxMsgs = 2
SPECIFICATION DFairSpec
INVARIANT DTypeOK RunIsolated
PROPERTY WakeupDrains
CHECK_DEADLOCK FALSE
