CONSTANTS
  MaxWrites = 3
  Others = {11}
  Refused = {2}
  MaxDrops = 2
  MaxDenials = 1
  MaxEnds = 1

SPECIFICATION Spec

INVARIANTS
  PendingWritesAreAnswerable
  NothingForgotten

PROPERTIES
  EntriesStay
  ClientCatchesUp

\* Once everything is stored and answered nothing has to happen.
CHECK_DEADLOCK FALSE
