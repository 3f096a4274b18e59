CONSTANTS
  Writers = {w1, w2}
  Stations = {b1, b2}
  None = None
  Threshold = 2
  MaxOps = 3
SPECIFICATION FairSpec
CHECK_DEADLOCK FALSE
INVARIANTS
  TypeOK
  OneConnectionPerStation
  OpenSessionIsListed
  StatusTaskWatchesSessions
  CleanExitForgets
PROPERTIES
  OpIdsOnlyDescend
  StaleConnectionsEvicted
  ClosedHandlersEnd
