SPECIFICATION Spec
CONSTANTS
  Patterns = {p1}
  DeploymentIds = {d1}
  Artifacts = {a1}
  NoDeployment = NoDeployment
  NoArtifact = NoArtifact
  MaxReleases = 2
  MaxChanges = 2
INVARIANT
  UnshownDecisionIsPending
CHECK_DEADLOCK FALSE
