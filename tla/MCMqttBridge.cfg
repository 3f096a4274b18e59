CONSTANTS
  MaxTraffic = 1
  MaxReceived = 2
SPECIFICATION FairSpec
CHECK_DEADLOCK FALSE
INVARIANTS
  TypeOK
  MessagesConserved
PROPERTIES
  DeafBridgeReconnects
  BothQueuesDrain
