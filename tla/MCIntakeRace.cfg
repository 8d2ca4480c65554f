SPECIFICATION Spec
CONSTANTS
    Versions <- TwoVersions
    Existing = {p}
    Runs = {r1, r2}
    Nobody = Nobody
    AttemptLimit = 1
    MaxFaults = 1
    RowCap = 3
SYMMETRY RunSymmetry
CONSTRAINT FewDecisions
INVARIANTS
    ApprovedIsBacked
    ResolvedUpdateFinishes
    ProcessedIsRecorded
    OneOpenDraft
    OpenReviewHasAWayOut
    DeferredStaysClaimable
PROPERTIES
    OnlyTheHolderCloses
    TakedownFence
    ArchivedStaysDown
