\* A settled system without requests left has nothing to do.
SPECIFICATION Spec
CHECK_DEADLOCK FALSE
CONSTANTS
    JobIds = {1, 2}
    Keys <- MCKeys
    Types <- MCTypes
    TypeOf <- MCTypeOf
    Priority <- MCPriority
    MaxAttempts <- MCMaxAttempts
    Jids = {1, 2}
    TidalKeys <- MCTidalKeys
    MaxRequests = 3
    MaxFaults = 1
INVARIANTS
    TypeOK
    AnsweredIsCarried
    RemovalSticks
PROPERTY
    ProgressKept
