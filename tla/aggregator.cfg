SPECIFICATION FairSpec
CONSTANTS
    w1 = w1
    w2 = w2
    Watcher <- TwoWatchers
    Last = 4
    Capacity = 2
    Faults = {"stream", "apply", "drop"}
INVARIANTS
    TypeOK
    NothingLost
    WaitingMeansCurrent
PROPERTIES
    EveryDeltaSeen
CHECK_DEADLOCK FALSE
