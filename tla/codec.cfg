SPECIFICATION Spec
CONSTANTS
    Message <- MCMessage
    Parses <- MCParses
    Foreign <- MCForeign
    MaxForeign = 4
    MAX_PAYLOAD_SIZE = 3
INVARIANTS
    TypeOK
    OwnTrafficDecodes
    NeverLostSilently
