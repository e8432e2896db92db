CONSTANTS
    p1 = p1
    p2 = p2
    Process = {p1}
    N = 3
    MaxCrashes = 3
    MaxFaults = 8
SPECIFICATION Spec
INVARIANTS
    AllOrNothing
    UndoneInReverse
PROPERTIES
    OverIsOver
    Settles
