SPECIFICATION Spec
CONSTANTS
    Message <- MCMessage
    None = None
    MaxCopies = 3
INVARIANTS
    TypeOK
    CounterMirrorsHeap
    MaxIdExact
    GapsExact
