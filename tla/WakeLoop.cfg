SPECIFICATION WFairSpec
CONSTANTS
  PinStates = {dry, wet, full}
  NoSample = NoSample
  MaxResets = 1
PROPERTIES
  SettledInputsAreSampled
  TimerEventServed
  DigitalEventServed
