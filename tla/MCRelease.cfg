SPECIFICATION Spec
CONSTANTS
  Patterns = {p1, p2}
  DeploymentIds = {d1, d2}
  Artifacts = {a1, a2}
  NoDeployment = NoDeployment
  NoArtifact = NoArtifact
  MaxReleases = 3
  MaxChanges = 4
SYMMETRY Symmetry
INVARIANTS
  TypeOK
  ActiveIsDeployed
  PendingIsNewest
  ReceiptsReplayToActive
  ManifestFollowsChanges
  TriggerRefusesOnlyRebuilds
PROPERTY ImplementsLiveSite
CHECK_DEADLOCK FALSE
