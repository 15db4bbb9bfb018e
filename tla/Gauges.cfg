SPECIFICATION Spec
CONSTANTS
  MaxRound = 4
INVARIANTS
  GaugesKeepUp
PROPERTIES
  ShortAtFirstOnly
CHECK_DEADLOCK FALSE
