CONSTANTS
  Sensors = {e1}
  Stations = {b1, b2}
  None = None
  Snrs = {1, 2}
  Delay = 2
  Late = 1
  Boot = 4
  Wrap = 3
  Sanity = 2
  FirstCnt = 1
  MaxPackets = 5
  MaxTime = 9
SPECIFICATION Spec
SYMMETRY Symmetry
CHECK_DEADLOCK FALSE
INVARIANTS
  TypeOK
  BestCopyBuffered
  BufferAgeBounded
  PreferredIsLatestAccepted
  LossCountExact
PROPERTY WindowNotSplit
