SPECIFICATION GSpec
CONSTANTS
  MaxFaults = 1
  Producers = {p1}
  MaxMessages = 1
  Capacity = 2
  MaxFailures = 0
  NoMessage = NoMessage
PROPERTIES AcceptedIsSent ResetReconnects
CHECK_DEADLOCK FALSE
