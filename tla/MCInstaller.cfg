SPECIFICATION Spec
CONSTANTS
  NumTargets = 2
  Tracked <- TrackedFirst
  MaxRelease = 2
  MaxBuild = 2
  MaxHarmed = 0
  NoFile = NoFile
INVARIANTS
  BackupsPristine
  UndoRestores
  Recoverable
  InstalledIsCurrent
