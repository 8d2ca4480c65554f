SPECIFICATION PublisherSpec
CONSTANTS
  Patterns = {p1}
  DeploymentIds = {d1, d2, d3}
  Artifacts = {a1}
  NoDeployment = NoDeployment
  NoArtifact = NoArtifact
  MaxReleases = 3
  MaxChanges = 3
  StopRule = FALSE
INVARIANT
  AgreeWhenQuiet
CHECK_DEADLOCK FALSE
