SPECIFICATION Spec
CONSTANTS
    Devices = {d1}
    Connections = {c1, c2}
    Handshakes = {h1, h2}
    Operations = {o1, o2}
    MaxGeneration = 2
    None = None
SYMMETRY Symmetry
VIEW LiveState
INVARIANTS
    Inv
    RevokedIsNotReady
PROPERTIES
    AuthenticatedIsFresh
    ImplementsCredentialSessions
CHECK_DEADLOCK FALSE
