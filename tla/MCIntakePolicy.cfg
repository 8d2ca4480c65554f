SPECIFICATION Spec
CONSTANTS
    Versions <- OneVersion
    Existing = {p}
    Runs = {r1}
    Nobody = Nobody
    AttemptLimit = 3
    MaxFaults = 1
    RowCap = 3
INVARIANTS
    EveryCandidateGetsPolicy
