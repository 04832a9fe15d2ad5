SPECIFICATION QFairSpec
CONSTANTS
  Producers = {p1, p2}
  MaxMessages = 2
  Capacity = 2
  MaxFailures = 1
  NoMessage = NoMessage
INVARIANTS QueueInv FirstAttemptsInOrder
PROPERTIES EveryMessageSettles ImplementsStore
CHECK_DEADLOCK FALSE
