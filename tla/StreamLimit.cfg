\* Two tabs open at once where one stream is allowed.
CONSTANTS
  NoConn = NoConn
  Writers = {w1}
  Tabs = {t1, t2}
  Conns = {k1, k2}
  MaxClients = 1
  MaxBatch = 1
  MaxId = 1
  MaxFaults = 0
SPECIFICATION Spec
INVARIANTS
  StreamsWithinLimit
CHECK_DEADLOCK FALSE
