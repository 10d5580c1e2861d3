\* One release; every actor, one crash, one database error.  Nothing is left to do
\* once the release has settled.
SPECIFICATION FairSpec
CONSTANTS
    JobIds = {1}
    Keys = {"a"}
    Types <- MCTypes
    TypeOf <- MCTypeOf
    Priority <- MCPriority
    MaxAttempts <- MCMaxAttempts
    MaxDeletes = 2
    MaxCancels = 1
    MaxCrashes = 2
    MaxFaults = 1
INVARIANTS
    TypeOK
    DurableFirst
    RemovalReachesIngest
    ReviewStaysVisible
PROPERTIES
    CancelledIsNotImported
    IngestSettles
CHECK_DEADLOCK FALSE
