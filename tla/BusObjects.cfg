\* Two paths, two Objects, three registrations.  The model stops once the
\* constructor threw or the Bus is destroyed: no deadlock check.
CONSTANTS
    Paths = {p1, p2}
    Objects = {o1, o2}
    MaxAllocs = 3
SPECIFICATION BSpec
INVARIANT BTypeOK VTableReadLive
CHECK_DEADLOCK FALSE
PROPERTY ObjectsServedAsRegistered
