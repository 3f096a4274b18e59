CONSTANTS
  Conns = {c1, c2}
  Acs = {a1}
  a1 = a1
  AcOf <- MCAcOf
  Eps = {e1, e2}
  Unknown = Unknown
  None = None
  MaxDl = 3
SPECIFICATION FairSpec
CHECK_DEADLOCK FALSE
INVARIANTS
  TypeOK
  QueuesInOrder
  ReportedOnce
PROPERTY QueuesDrain
