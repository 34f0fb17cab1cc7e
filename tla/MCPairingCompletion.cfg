SPECIFICATION Spec
CONSTANTS
    Calls = {c1, c2, c3, c4}
    NoCall = NoCall
    MaxRecoverySteps = 2
    MaxCrashes = 1
    MaxMutations = 1
SYMMETRY Symmetry
VIEW LiveState
INVARIANTS
    Inv
    NoCallIsStuck
PROPERTIES
    AcknowledgedIsActive
    RecoveryRespectsMutations
    ResumeSucceeds
CHECK_DEADLOCK FALSE
