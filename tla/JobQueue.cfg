\* Two job rows over four keys; one crash, one swallowed database error.
SPECIFICATION FairSpec
CONSTANTS
    JobIds = {1, 2}
    Keys <- MCKeys
    Types <- MCTypes
    TypeOf <- MCTypeOf
    Priority <- MCPriority
    MaxAttempts <- MCMaxAttempts
    Executors <- MCExecutors
    Retryable <- MCRetryable
    MaxCrashes = 1
    MaxFaults = 1
INVARIANTS
    OneActivePerKey
    AttemptBudget
    HeldJobIsMine
    CancelHolds
PROPERTIES
    ImplementsContract
    RunningSettles
