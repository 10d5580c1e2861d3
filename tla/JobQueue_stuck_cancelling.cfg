\* Two jobs, one crash: a job that was being cancelled is never settled.
SPECIFICATION FairSpec
CONSTANTS
    JobIds = {1, 2}
    Keys <- TwoKeys
    Types <- TwoTypes
    TypeOf <- TwoTypeOf
    Priority <- TwoPriority
    MaxAttempts <- TwoMaxAttempts
    Executors <- TwoTypes
    Retryable <- TwoRetryable
    MaxCrashes = 1
    MaxFaults = 0
PROPERTIES
    EveryJobSettles
