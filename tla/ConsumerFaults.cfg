\* Two instances compete for one partition of two messages, with two faults or
\* stop signals; the same event may be published twice, and a message that no
\* table takes may block the partition.
CONSTANTS
  c1 = c1
  c2 = c2
  p1 = p1
  p2 = p2
  e1 = e1
  e2 = e2
  Consumers = {c1, c2}
  Partitions = {p1}
  Events = {e1, e2}
  PartitionOf <- SinglePartition
  Kinds = {"valid", "refused", "unstorable", "unrecordable", "malformed"}
  MaxRetries = 1
  MaxLog = 2
  MaxFaults = 2
SYMMETRY SymmetrySingle
SPECIFICATION Spec
INVARIANTS
  CommittedAreSettled
  DlqMessagesHaveRows
PROPERTIES
  CommitNeverRewinds
  ImplementsDelivery
CHECK_DEADLOCK FALSE
