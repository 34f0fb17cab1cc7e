SPECIFICATION Spec
CONSTANTS
    Sessions = {i1, i2, i3}
    Codes = {k1, k2, k3}
    MaxSessions = 2
    TTL = 2
    Retention = 3
    MaxTime = 4
SYMMETRY Symmetry
INVARIANTS
    IInv
    CodeIsSingleUse
CHECK_DEADLOCK FALSE
