SPECIFICATION Spec
CONSTANTS
  MaxModelCalls = 1
  MaxEvents = 3
  MaxVersions = 3
  MaxFaults = 2
  DetachedEvents = TRUE
  ShortWrites = FALSE
INVARIANTS
  EventImpliesState
CHECK_DEADLOCK FALSE
