\* Two instances share two partitions; two faults or stop signals.
CONSTANTS
  c1 = c1
  c2 = c2
  p1 = p1
  p2 = p2
  e1 = e1
  e2 = e2
  Consumers = {c1, c2}
  Partitions = {p1, p2}
  Events = {e1, e2}
  PartitionOf <- KeyedPartition
  Kinds = {"valid"}
  MaxRetries = 1
  MaxLog = 1
  MaxFaults = 2
SYMMETRY Symmetry
SPECIFICATION Spec
INVARIANTS
  TypeOK
  AtMostOneUncommitted
  PersistedNeverOvercounts
CHECK_DEADLOCK FALSE
