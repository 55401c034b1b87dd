CONSTANTS
  Features = {1, 2, 3}
  Values = {0, 1, 2}
  BoardSize = 6

SPECIFICATION StartSpec

INVARIANT OverLeavesSix

PROPERTIES
  OthersStay
  OverIsFinal
  TapsImplementRound

\* The process may be stopped by the runtime: there is no next tap then.
CHECK_DEADLOCK FALSE
