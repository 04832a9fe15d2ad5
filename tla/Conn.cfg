SPECIFICATION CFairSpec
CONSTANT MaxFaults = 2
INVARIANT ConnInv
PROPERTIES ReadyAgain AssociationReconnects
CHECK_DEADLOCK FALSE
