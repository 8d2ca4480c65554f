SPECIFICATION Spec
CONSTANTS
    Dates = {0, 30, 33}
    FirstReports <- RegistryReports
    LaterReports <- SomeReports
    MaxReports = 3
INVARIANTS
    CandidateTypeOK
    ReadyIsApprovable
    ReleaseIsExportable
    HeatIsNotOutdated
    AttentionHasPoints
    GateIsMonotone
    ConfidenceOnlyAdds
    EligibleIsHandled

    
CHECK_DEADLOCK FALSE
