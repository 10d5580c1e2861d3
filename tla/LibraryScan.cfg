\* Two job rows: a scan and an import, or two scans around a restart. Two track
\* files and two pool threads, so that a batch may hold both. A crash anywhere, also
\* between the statements that create a scan, or a write that is lost.
SPECIFICATION Spec
CONSTANTS
    JobIds = {1, 2}
    RunIds = {1, 2}
    Keys <- MCKeys
    Types <- MCTypes
    TypeOf <- MCTypeOf
    Priority <- MCPriority
    MaxAttempts <- MCMaxAttempts
    Modes <- MCModes
    Workers = 2
    MaxItems = 2
    MaxFaults = 1
    ScanKey = "scan"
    ScanType = "library_scan"
INVARIANTS
    TypeOK
    
    CompletedIsComplete
    
PROPERTY
    RunVerdictStands
