CONSTANTS
    root = root
    a = a
    b = b
    c = c
    Bean <- MCBean
    Programs <- MCPrograms
SPECIFICATION Spec
INVARIANTS
    DependenciesFinishFirst
    InitializedInOrder
    EagerInjectionsAreBuilt
    DestroyedInReverse
PROPERTY RefreshReturns
