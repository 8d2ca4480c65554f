SPECIFICATION Spec
CONSTANTS
    Versions <- OneVersion
    Existing = {p}
    Runs = {r1, r2}
    Nobody = Nobody
    AttemptLimit = 2
    MaxFaults = 2
    RowCap = 3
INVARIANTS
    CommittedUpdateCanBeFinalized
