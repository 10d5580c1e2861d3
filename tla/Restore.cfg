\* A process that is down for good, or up without a request left, may stop.
SPECIFICATION Spec
CHECK_DEADLOCK FALSE
CONSTANTS
    NEntries = 2
    Ids = {r1, r2}
    NoId = NoId
    Retention = 1
    MaxVersion = 2
    MaxBoots = 3
    MaxBackups = 2
SYMMETRY Symmetric
INVARIANTS
    FailsClosed
    SafetyFirst
    AcceptedIsHonoured
PROPERTY
    ReportIsTrue
