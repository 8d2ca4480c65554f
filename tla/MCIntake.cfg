SPECIFICATION FairSpec
CONSTANTS
    Versions <- TwoVersions
    Existing = {p, q}
    Runs = {r1}
    Nobody = Nobody
    AttemptLimit = 1
    MaxFaults = 1
    RowCap = 2
INVARIANTS
    IntakeTypeOK
PROPERTIES
    ResolvedUpdateIsProcessed
