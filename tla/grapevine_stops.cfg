SPECIFICATION SystemFairSpec
CONSTANTS
    r1 = r1
    r2 = r2
    Run <- OneRun
    MaxSequence = 3
    Faults = {}
    None = None
    MaxCopies = 1
    Start = 0
    SubFaults = {}
    StopOnError = TRUE
PROPERTIES
    EverySequenceSeen
CHECK_DEADLOCK FALSE
