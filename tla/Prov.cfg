SPECIFICATION PFairSpec
CONSTANTS
  MaxDrops = 2
  MaxReboots = 1
INVARIANT ProvInv
PROPERTIES ModeSwitchReturns IdleAgain
CHECK_DEADLOCK FALSE
