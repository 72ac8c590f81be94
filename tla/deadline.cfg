SPECIFICATION TimedSpec
CONSTANTS
    None = None
    Last = 2
    Message <- MCMessage
    MaxCopies = 1
    Start = 0
    StopOnError = FALSE
    Faults = {"rpc", "udp"}
    Timeout = 2
    Horizon = 6
INVARIANTS
    TimedTypeOK
    ExpiredIsDeadline
    OverdueNeedsSilence
CHECK_DEADLOCK FALSE
