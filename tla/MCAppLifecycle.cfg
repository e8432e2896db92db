CONSTANTS
    s1 = s1
    s2 = s2
    s3 = s3
    Server = {s1, s2, s3}
    PreStopper = {s1}
    Runners = 1
SPECIFICATION Spec
INVARIANTS
    StartedMeansAllReady
    NobodyServesEarly
    ContainerOutlivesServers
PROPERTIES
    FailureShutsDown
    StartReturns
    SignalEndsApp
