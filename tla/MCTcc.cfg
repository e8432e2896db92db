CONSTANTS
    N = 3
    MaxCrashes = 3
    MaxFaults = 8
SPECIFICATION Spec
INVARIANTS
    AllOrNothing
    OneDirection
PROPERTIES
    DecisionStands
    ReservationsEnd
