CONSTANTS
  AllSets = 4
  FullScore = 4
  MaxSeconds = 7
  MaxGames = 3
  MaxLeaders = 3

SPECIFICATION ScreenSpec

INVARIANTS
  LabelsAreCurrent
  TimerKeepsTime
  AlertScoreIsCurrent
  EntriesOfAGameAgree
  EntriesInRange

\* The bounds on games and entries end a run.
CHECK_DEADLOCK FALSE
