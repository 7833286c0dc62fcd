CONSTANTS
  e1 = e1
  e2 = e2
  p1 = p1
  Events <- MCEvents
  Partitions <- MCPartitions
  PartitionOf <- MCPartitionOf
  Requests = {r1, r2}
  Limit = 5
  MaxPosts = 2
  MaxFaults = 3
SPECIFICATION FairSpec
INVARIANTS
  TypeOK
  NoAcceptedEventLost
  AcceptedNeverOvercounts
  ConflictMeansStored
PROPERTIES
  ReplayNeverLoops
  AnsweredEventIsStored
CHECK_DEADLOCK FALSE
