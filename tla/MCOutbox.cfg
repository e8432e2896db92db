CONSTANTS
    a = a
    b = b
    Relay = {a, b}
    Record = {1, 2}
    BatchSize = 2
    MaxAttempts = 2
    DeadLetters = TRUE
    MaxFaults = 3
    MaxStops = 1
SPECIFICATION Spec
INVARIANTS
    NothingIsLost
    DuplicatesHaveAReason
PROPERTIES
    OutcomeStands
    EverythingSettles
