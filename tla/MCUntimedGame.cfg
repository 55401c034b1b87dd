CONSTANTS
  AllSets = 4
  FullScore = 4
  MaxSeconds = 7
  MaxGames = 3
  MaxLeaders = 3

SPECIFICATION ScreenSpec

INVARIANT TimeCounts

CHECK_DEADLOCK FALSE
