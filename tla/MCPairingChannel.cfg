SPECIFICATION FairSpec
CONSTANTS
    Sockets = {s1, s2}
    Calls = {a1, a2}
    NoSocket = NoSocket
    MaxReconnects = 2
INVARIANTS
    Inv
PROPERTIES
    PairedIsDelivered
    OneActiveSocket
    ClientSettles
CHECK_DEADLOCK FALSE
