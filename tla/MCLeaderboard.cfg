CONSTANTS
  Scores = {0, 1, 2}
  MaxEntries = 4

SPECIFICATION Spec

INVARIANTS
  RowsCanBeDrawn
  RowsAreOneEvent
  SettledHighestFirst

PROPERTY EntriesAppear

\* The bound on the entries ends a run.
CHECK_DEADLOCK FALSE
