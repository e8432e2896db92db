CONSTANTS
    a = a
    b = b
    Relay = {a, b}
    Record = {1, 2}
    BatchSize = 2
    MaxAttempts = 2
    DeadLetters = TRUE
    MaxFaults = 0
    MaxStops = 0
SPECIFICATION Spec
INVARIANTS
    RecordsAreNotShared
