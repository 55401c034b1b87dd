CONSTANTS
  Features = {1, 2}
  Values = {0, 1, 2}
  BoardSize = 3
  MaxSets = 3

SPECIFICATION DealtSpec

INVARIANTS
  EveryCardInOnePlace
  NeverTraps

PROPERTIES
  AlwaysPlayable
  DeckBeforeDiscards

\* The bound on the sets found ends a run.
CHECK_DEADLOCK FALSE
