\* One consumer instance writes, two tabs read; a dropped connection may still
\* hold one of the two slots when its tab comes back.
CONSTANTS
  NoConn = NoConn
  Writers = {w1}
  Tabs = {t1, t2}
  Conns = {k1, k2, k3}
  MaxClients = 2
  MaxBatch = 1
  MaxId = 2
  MaxFaults = 1
SPECIFICATION FairSpec
INVARIANTS
  TypeOK
  SlotsAccounted
  NothingRepeats
  NothingSkipped
PROPERTIES
  RowsReachTabs
CHECK_DEADLOCK FALSE
