CONSTANTS
    p1 = p1
    p2 = p2
    Process = {p1, p2}
    N = 2
    MaxCrashes = 0
    MaxFaults = 0
SPECIFICATION Spec
INVARIANT CommittedMeansUncompensated
