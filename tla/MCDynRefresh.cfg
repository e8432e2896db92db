CONSTANTS
    file = file
    remote = remote
    f = f
    g = g
    r1 = r1
    r2 = r2
    NoOne = NoOne
    Refresher = {r1, r2}
    Source = {file, remote}
    Field = {f, g}
    Objects <- MCObjects
    KeyOf <- MCKeyOf
    Unbindable <- MCUnbindable
    MaxVersion = 2
    Last <- MCLast
SPECIFICATION Spec
INVARIANTS
    ValuesMatchProperties
    RefreshIsFresh
    ListenersFollow
PROPERTIES
    ImplementsRegister
    RefreshReturns
