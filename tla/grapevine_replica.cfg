SPECIFICATION SystemSpec
CONSTANTS
    r1 = r1
    r2 = r2
    Run <- TwoRuns
    MaxSequence = 3
    Faults = {"write"}
    None = None
    MaxCopies = 1
    Start = 0
    SubFaults = {"rpc"}
    StopOnError = FALSE
INVARIANTS
    ReplicaFollowsState
PROPERTIES
    StreamsInOrder
SYMMETRY TwoRunsSymmetry
CHECK_DEADLOCK FALSE
