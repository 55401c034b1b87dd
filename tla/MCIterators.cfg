SPECIFICATION IteratorSpec
CONSTANTS
  Databases <- SmallDatabases
  Keys <- ThreeKeys
  Written <- LateWrites
  RestartInterval = 2
  MaxSequence = 6
PROPERTIES
  ImplementsCursor
  CallsReturn
CHECK_DEADLOCK FALSE
