SPECIFICATION Spec
CONSTANTS
  NumLevels = 3
  MaxMemCompactLevel = 1
  Calls <- MixedCalls
  WriteBuffer = 1
  CompactionTrigger = 1
  StopWritesTrigger = 1
  MaxWrites = 4
  MaxDisturbed = 3
  MaxWaiting = 2
  MaxSnapshots = 1
  MaxPinned = 1
  MaxCrashes = 1
INVARIANTS
  ReadsAreRight
  SyncedWritesSurvive
  FilesInUseExist
  LevelsAreDisjoint
PROPERTY WritesAreAnswered
CHECK_DEADLOCK FALSE
