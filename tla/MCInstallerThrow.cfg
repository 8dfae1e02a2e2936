SPECIFICATION Spec
CONSTANTS
  NumTargets = 2
  Tracked <- TrackedFirst
  MaxRelease = 1
  MaxBuild = 1
  MaxHarmed = 0
  NoFile = NoFile
INVARIANTS
  FailureRestores
