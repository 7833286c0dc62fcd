\* One tab loses its connection before it was sent anything.
CONSTANTS
  NoConn = NoConn
  Writers = {w1}
  Tabs = {t1}
  Conns = {k1, k2}
  MaxClients = 2
  MaxBatch = 2
  MaxId = 2
  MaxFaults = 1
SPECIFICATION Spec
PROPERTIES
  ReconnectSkipsNothing
CHECK_DEADLOCK FALSE
