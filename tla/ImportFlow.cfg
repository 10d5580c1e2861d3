SPECIFICATION Spec
CHECK_DEADLOCK FALSE
CONSTANTS
    JobIds <- MCJobIds
    Keys <- MCKeys
    Types <- MCTypes
    TypeOf <- MCTypeOf
    Priority <- MCPriority
    MaxAttempts <- MCMaxAttempts
    Albums = {a1, a2}
    MaxCancels = 1
    MaxCrashes = 1
    MaxFailures = 2
INVARIANTS
    CancelStopsImport
    ReleaseRestored
    SuccessIsReal
    OneCommand
PROPERTY
    FilesStayWithRecord
