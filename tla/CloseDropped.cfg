SPECIFICATION Spec
CONSTANTS
  Call = {1, 2}
  Name <- Names
  Unit = {"x", "y", "m", "bad"}
  Umask = {"shared"}
  PathMax = 4
  Magic = {"m"}
  Damaged = "bad"
  Inner = "a"
  Format <- MCFormat
  Stem <- MCStem
  BadName = {"x%"}
  Commits <- MCCommits
  DotGit = ".git"
  Outside = ".."
  Artifact <- MCArtifact
  Retries = 1
  Tree0 <- MCTree0
  Scenario <- CloseScenario
INVARIANT CloseErrorsPropagate
CHECK_DEADLOCK FALSE
