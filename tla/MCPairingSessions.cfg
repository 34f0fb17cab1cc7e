SPECIFICATION Spec
CONSTANTS
    Sessions = {i1, i2}
    Codes = {k1, k2}
    Callers = {p1, p2, p3}
    MaxSessions = 2
    TTL = 2
    Retention = 3
    MaxTombstones = 2
    MaxAttempts = 2
    MaxChannels = 1
    Delivery = 1
    MaxTime = 3
    NoSession = NoSession
    NoCaller = NoCaller
    Owners = {o1, o2}
    MaxDevices = 1
SYMMETRY Symmetry
VIEW View
INVARIANTS
    Inv
    ClaimableHasChannel
    WithinDeviceLimit
PROPERTIES
    ImplementsPairingLedger
CHECK_DEADLOCK FALSE
