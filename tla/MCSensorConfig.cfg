CONSTANTS
  Sensors = {e1, e2}
  Threads = {r1, r2}
  Tasks = {t1}
  Path = Path
  Free = Free
  None = None
  Torn = Torn
  MaxStations = 2
SPECIFICATION Spec
SYMMETRY Symmetry
INVARIANTS
  TypeOK
  AcceptedConfigurationKept
PROPERTY UndisturbedOperationsApply
