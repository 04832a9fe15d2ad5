SPECIFICATION Spec
CONSTANTS
  PinStates = {dry, wet}
  BootEpoch = 3
  BucketResetGap = 2
  DebounceGap = 2
  Limit <- MCRainLimit
PROPERTY
  CounterKeptWhileItRains
CHECK_DEADLOCK FALSE
