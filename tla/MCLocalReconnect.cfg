SPECIFICATION FairSpec
CONSTANTS
    Runs = {r1, r2, r3}
    NoRun = NoRun
    MaxFailures = 2
    MaxLives = 5
INVARIANTS
    Inv
PROPERTIES
    FinalStays
    ResetOnlyWhenStable
    StopEnds
CHECK_DEADLOCK FALSE
