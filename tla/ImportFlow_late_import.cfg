SPECIFICATION Spec
CHECK_DEADLOCK FALSE
CONSTANTS
    JobIds <- MCJobIds
    Keys <- MCKeys
    Types <- MCTypes
    TypeOf <- MCTypeOf
    Priority <- MCPriority
    MaxAttempts <- MCMaxAttempts
    Albums = {a1}
    MaxCancels = 1
    MaxCrashes = 0
    MaxFailures = 0
INVARIANT
    FailedMeansNotImported
