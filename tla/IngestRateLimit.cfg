CONSTANTS
  s1 = s1
  s2 = s2
  Sources <- MCSources
  Order <- MCOrder
  FirstSkip = 2
  MaxSkip = 4
  Concurrency = 2
  MaxStreak = 2
  MaxDelay = 1
  MaxFeed = 0
SPECIFICATION Spec
PROPERTIES
  UndatedFallsBack
CHECK_DEADLOCK FALSE
