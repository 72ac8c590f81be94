SPECIFICATION Spec
CONSTANTS
    r1 = r1
    r2 = r2
    r3 = r3
    Run <- ThreeRuns
    MaxSequence = 3
    Faults = {"apply", "encode", "write", "send", "crash"}
INVARIANTS
    TypeOK
    ConflictsOnlyWithHeartbeat
    StateAccounted
    StartedFirst
    LaterRunsAreLater
PROPERTIES
    ImplementsMasterLog
    HolesStay
SYMMETRY ThreeRunsSymmetry
CHECK_DEADLOCK FALSE
