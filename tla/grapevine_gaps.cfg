SPECIFICATION SystemFairSpec
CONSTANTS
    r1 = r1
    r2 = r2
    Run <- TwoRuns
    MaxSequence = 2
    Faults = {"send"}
    None = None
    MaxCopies = 1
    Start = 0
    SubFaults = {}
    StopOnError = FALSE
INVARIANTS
    NoNumberLost
PROPERTIES
    ErrorsAreTransient
    GapsClose
    HeartbeatStops
    RecoveryStops
CHECK_DEADLOCK FALSE
