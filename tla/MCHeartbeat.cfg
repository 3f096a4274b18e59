CONSTANTS
  Sensors = {s1}
  Every = 2
  Late = 7
  MaxSilence = 30
  MaxCopies = 3
  Window = 10
  Multiplier = 4
  DefaultInterval = 4
  MinTimeout = 1
SPECIFICATION Spec
INVARIANTS
  TypeOK
  StateFollowsSilence
  RegularStaysOnline
