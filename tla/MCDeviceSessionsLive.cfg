SPECIFICATION FairSpec
CONSTANTS
    Devices = {d1}
    Connections = {c1}
    Handshakes = {h1}
    Operations = {o1, o2}
    MaxGeneration = 2
    None = None
PROPERTIES
    OperationsReturn
    ClosedLeavesRegistry
CHECK_DEADLOCK FALSE
