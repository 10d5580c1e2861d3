SPECIFICATION Spec
CHECK_DEADLOCK FALSE
CONSTANTS
    JobIds <- MCJobIds
    Keys <- MCKeys
    Types <- MCTypes
    TypeOf <- MCTypeOf
    Priority <- MCPriority
    MaxAttempts <- MCMaxAttempts
    Albums = {a1}
    MaxRequests = 2
    MaxRestarts = 1
    MaxFaults = 1
INVARIANTS
    HeldIsActionable
    HoldFollowsReview
    SwitchUndone
PROPERTIES
    RecordKept
    DiscardIsFinal
