SPECIFICATION ExecFairSpec
CONSTANTS
    Leader = leader
    Descendants = {d1, d2}
    Detachers = {d1}
    MaxOutput = 2
    MaxWritten = 4
INVARIANTS
    OutputIsExact
    NoSurvivors
PROPERTIES
    TerminationReturns
CHECK_DEADLOCK FALSE
