SPECIFICATION FairSpec
CONSTANTS
  Capacity = 5
  MaxPresses = 4
  MaxFlashes = 3
INVARIANT GroveInv
PROPERTY SendsStop
CHECK_DEADLOCK FALSE
