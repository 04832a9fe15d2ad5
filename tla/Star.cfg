SPECIFICATION FairSpec
CONSTANTS
  Nodes = {gauge, cistern}
  Gauge = gauge
  MaxTips = 1
  MaxSends = 2
  MaxResets = 1
INVARIANTS StarInv RainNeverOvercounted RowsOnceInOrder DatabaseWithinFile
PROPERTY NodesKeepSending
CHECK_DEADLOCK FALSE
