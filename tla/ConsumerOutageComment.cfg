\* The comment of consumer/main.py:83-86 on a topic with messages that can be
\* recorded nowhere.
CONSTANTS
  c1 = c1
  c2 = c2
  p1 = p1
  p2 = p2
  e1 = e1
  e2 = e2
  Consumers = {c1}
  Partitions = {p1}
  Events = {e1, e2}
  PartitionOf <- SinglePartition
  Kinds = {"valid", "unstorable", "unrecordable"}
  MaxRetries = 1
  MaxLog = 1
  MaxFaults = 0
SPECIFICATION Spec
PROPERTIES
  HandlerFailureMeansOutage
CHECK_DEADLOCK FALSE
