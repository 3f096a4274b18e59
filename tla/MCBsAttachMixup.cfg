CONSTANTS
  Writers = {w1, w2}
  Stations = {b1, b2}
  None = None
  Threshold = 1
  MaxOps = 4
  s1 = s1
  s2 = s2
  s3 = s3
  Sensors <- MCSensors
  Files <- MCMixupFiles
  Others = {}
  Malformed <- MCMalformed
SPECIFICATION AttachSpec
SYMMETRY Symmetry
CONSTRAINT HealthyConnections
CHECK_DEADLOCK FALSE
INVARIANT RecordedOnlyIfAcked
