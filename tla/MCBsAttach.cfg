CONSTANTS
  Writers = {w1, w2}
  Stations = {b1, b2}
  None = None
  Threshold = 1
  MaxOps = 3
  s1 = s1
  s2 = s2
  s3 = s3
  Sensors <- MCSensors
  Files <- MCFiles
  Others <- MCOthers
  Malformed <- MCMalformed
SPECIFICATION AttachSpec
SYMMETRY Symmetry
CONSTRAINTS
  OneAtATime
  OneChange
ACTION_CONSTRAINT ReloadsChange
CHECK_DEADLOCK FALSE
INVARIANTS
  AttachTypeOK
  SessionAsksEverySensor
  RecordsBackedByAnswers
 
