CONSTANTS
  Conns = {c1, c2}
  Acs = {a1}
  a1 = a1
  AcOf <- MCAcOf
  Eps = {e1, e2}
  Unknown = Unknown
  None = None
  MaxDl = 3
SPECIFICATION Spec
SYMMETRY Symmetry
CHECK_DEADLOCK FALSE
INVARIANT QueuedDownlinkNotLost
