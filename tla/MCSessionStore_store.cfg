SPECIFICATION MCSpec
CONSTANTS
  MaxModelCalls = 2
  MaxEvents = 3
  MaxVersions = 4
  MaxFaults = 2
  DetachedEvents = FALSE
  ShortWrites = TRUE
INVARIANTS
  TypeOK CommitsImplyState CallsAreCounted EventsInOrder AckedIsDurable
PROPERTIES
  IsADurableLog
CHECK_DEADLOCK FALSE
