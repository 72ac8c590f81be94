SPECIFICATION FairSpec
CONSTANTS
    None = None
    Last = 3
    Message <- MCMessage
    MaxCopies = 2
    Start = 0
    StopOnError = FALSE
    Faults = {"rpc", "udp", "parse"}
INVARIANTS
    TypeOK
    SingleMissingIsExact
    SyncCoversHeap
    NeverEmptyStream
    BufferedMeansConnected
PROPERTIES
    ImplementsOrderedStream
    CatchesUp
