\* One path, one Object, two registrations.
CONSTANTS
    Paths = {p1}
    Objects = {o1}
    MaxAllocs = 2
SPECIFICATION BSpec
INVARIANT RegistrationOwned
CHECK_DEADLOCK FALSE
