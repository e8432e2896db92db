CONSTANTS
    t1 = t1
    t2 = t2
    d1 = d1
    d2 = d2
    r1 = r1
    r2 = r2
    Tx = {t1, t2}
    Db = {d1, d2}
    Row = {r1, r2}
    DbOf <- Home
    None = None
    Initial = Initial
    Nobody = Nobody
    Attempts = 1
    MaxOps = 1
    MaxCrashes = 1
    MaxFaults = 1
SPECIFICATION Spec
INVARIANTS
    CommittedForGood
