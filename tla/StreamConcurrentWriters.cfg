\* Two consumer instances write, one tab reads.
CONSTANTS
  NoConn = NoConn
  Writers = {w1, w2}
  Tabs = {t1}
  Conns = {k1, k2}
  MaxClients = 1
  MaxBatch = 2
  MaxId = 3
  MaxFaults = 0
SPECIFICATION Spec
INVARIANTS
  NothingSkipped
CHECK_DEADLOCK FALSE
