SPECIFICATION MCSpec
CONSTANTS
  PinStates = {dry, wet}
  BootEpoch = 3
  BucketResetGap = 2
  DebounceGap = 1
  Limit <- MCLimit
INVARIANTS
  NodeInv
  ChangesArePending
  RowsInOrder
  StoresAgree
PROPERTY
  ImplementsWakeLoop
CHECK_DEADLOCK FALSE
