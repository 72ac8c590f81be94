SPECIFICATION Spec
CONSTANTS
    r1 = r1
    r2 = r2
    r3 = r3
    Run <- TwoRuns
    MaxSequence = 3
    Faults = {}
INVARIANTS
    EveryPublisherServes
CHECK_DEADLOCK FALSE
