CONSTANTS
  Sizes = {1, 3}
  MaxUnits = 3
SPECIFICATION FramingSpec
CHECK_DEADLOCK FALSE
INVARIANTS
  StationMessagesInStep
  CenterMessagesComplete
