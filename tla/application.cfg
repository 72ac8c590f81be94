SPECIFICATION Spec
CONSTANTS
    MID_PRICES <- MCPrices
    MIN_ORDERS = 1
    MAX_ORDERS = 2
    MAX_QUANTITY = 3
    U32 = 16
    LeafIds = {1, 2}
    Values = {1}
    I32 = 2
    Stores = {"file", "mock"}
    MaxRows = 4
INVARIANTS
    TypeOK
    NeverCrossed
    ReplicaCovers
    NeverMisfits
CHECK_DEADLOCK FALSE
