\* Every kind of message that one of the tables takes, one partition, fair
\* instances, one fault or stop signal.
CONSTANTS
  c1 = c1
  c2 = c2
  p1 = p1
  p2 = p2
  e1 = e1
  e2 = e2
  Consumers = {c1, c2}
  Partitions = {p1}
  Events = {e1, e2}
  PartitionOf <- SinglePartition
  Kinds = {"valid", "missing_fields", "invalid_id", "refused"}
  MaxRetries = 1
  MaxLog = 1
  MaxFaults = 1
SPECIFICATION FairSpec
PROPERTIES
  EveryMessageCommitted
  ShutdownCompletes
  HandlerFailureMeansOutage
CHECK_DEADLOCK FALSE
