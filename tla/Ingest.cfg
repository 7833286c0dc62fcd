CONSTANTS
  s1 = s1
  s2 = s2
  Sources <- MCSources
  Order <- MCOrder
  FirstSkip = 2
  MaxSkip = 4
  Concurrency = 2
  MaxStreak = 3
  MaxDelay = 1
  MaxFeed = 3
SPECIFICATION FairSpec
INVARIANTS
  TypeOK
  TallyExact
PROPERTIES
  PenaltyServed
  RetryAfterHonoured
  HealthyNeverSkipped
  SourcesPolledAgain
  ShutdownStops
CHECK_DEADLOCK FALSE
