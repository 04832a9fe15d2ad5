SPECIFICATION LedSpec
CONSTANTS
  Frames = 2
  MaxRequests = 4
INVARIANT LedInv
PROPERTIES ReplacesLongPattern ShortPatternEndsDark KeepsAnimating
CHECK_DEADLOCK FALSE
