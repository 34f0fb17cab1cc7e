SPECIFICATION Spec
CONSTANTS
    d1 = d1
    o1 = o1
    Devices = {d1}
    Owners = {o1, o2}
    Callers = {k1, k2}
    OwnerOf <- OneDevice
    Connects <- SomeConnects
    NoSession = NoSession
    NoConnect = NoConnect
    MaxGeneration = 2
    MaxRegistrations = 2
SYMMETRY Symmetry
INVARIANTS
    Inv
    NeverStale
PROPERTIES
    ReturnsLiveMatch
    CatalogNeverOlder
CHECK_DEADLOCK FALSE
