SPECIFICATION Spec
CONSTANTS
    MaxBackups = 2
    MaxFaults = 6
INVARIANTS
    ManifestMeansBackup
    VerifiedIsStored
CHECK_DEADLOCK FALSE
