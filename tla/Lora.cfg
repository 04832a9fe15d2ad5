SPECIFICATION MCSpec
CONSTANTS
  Debounce = 0
  Timeout = 1
  Wrap = 64
  Word = 8
  MaxTips = 2
  MaxChanges = 2
  MaxTicks = 3
  MaxReboots = 1
INVARIANTS LinkInv CountsIncrease RainAndFloatsAgree
PROPERTY MovedSwitchIsLogged
CHECK_DEADLOCK FALSE
