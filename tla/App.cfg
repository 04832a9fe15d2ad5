SPECIFICATION FairSpec
CONSTANTS
  MaxEdits = 2
  MaxFaults = 2
INVARIANT AppInv
PROPERTIES NoStaleConfig PausesWhenDeleted ConfigConverges CounterFollowsShadow
CHECK_DEADLOCK FALSE
