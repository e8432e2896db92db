CONSTANTS
    b1 = b1
    b2 = b2
    b3 = b3
    b4 = b4
    Bean <- MCBean
    Identity <- MCIdentity
    Cond <- MCCond
    Nesting <- MCNesting
    Programs <- MCPrograms
SPECIFICATION Spec
INVARIANTS
    DecisionsAreWitnessed
    OneDefaultSurvives
    StratifiedOutcome
PROPERTY ResolvingTerminates
