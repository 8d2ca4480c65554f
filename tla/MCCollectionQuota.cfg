SPECIFICATION Spec
CONSTANTS
    SourceCount = 2
    PageCount = 1
    MaxItems = 2
    Stages = 6
    MaxCalls = 6
    AttemptLimit = 3
    RunCount = 3
    MaxFaults = 0
INVARIANT QuotaAloneLosesNothing
CHECK_DEADLOCK FALSE
