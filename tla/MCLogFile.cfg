SPECIFICATION Spec
CONSTANTS
  BlockSize = 5
  HeaderSize = 2
  Sizes = {1, 2, 5}
  MaxRecords = 3
  MaxCrashes = 2
  MaxFailures = 1
INVARIANTS
  OnlyWholeRecordsAreRead
  AddedRecordsAreRead
CHECK_DEADLOCK FALSE
