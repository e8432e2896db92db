CONSTANTS
    n1 = n1
    n2 = n2
    h1 = h1
    h2 = h2
    h3 = h3
    Node = {n1, n2}
    Hold = {h1, h2, h3}
    NoHold = NoHold
    TTL = 2
    Renewing = TRUE
    MaxErrors = 1
SPECIFICATION ElectionSpec
INVARIANTS
    DeposedAreTold
    WorkIsCovered
PROPERTIES
    CancelledReturn
    SomebodyLeads
