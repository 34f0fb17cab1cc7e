SPECIFICATION Spec
CONSTANTS
    Calls = {c1, c2, c3}
    NoCall = NoCall
    MaxRecoverySteps = 2
    MaxCrashes = 1
    MaxMutations = 1
SYMMETRY Symmetry
PROPERTIES
    DeliveredIsTerminal
CHECK_DEADLOCK FALSE
