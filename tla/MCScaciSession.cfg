CONSTANTS
  Conns = {c1, c2}
  Acs = {c1, c2, Unknown}
  Unknown = Unknown
  AcOf <- MCAcOf
  Eps = {e1}
  None = None
  MaxUplinks = 1
  MaxChanges = 2
SPECIFICATION FairSpec
CHECK_DEADLOCK FALSE
INVARIANTS
  TypeOK
  ToldIsCurrent
PROPERTY UplinksDelivered
