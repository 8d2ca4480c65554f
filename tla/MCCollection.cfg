SPECIFICATION FairSpec
CONSTANTS
    SourceCount = 2
    PageCount = 2
    MaxItems = 2
    Stages = 2
    MaxCalls = 2
    AttemptLimit = 3
    RunCount = 3
    MaxFaults = 1
INVARIANTS
    CollectionTypeOK
    CursorSkipsNothing
    SourceIsolation
PROPERTIES
    RunEnds
CHECK_DEADLOCK FALSE
