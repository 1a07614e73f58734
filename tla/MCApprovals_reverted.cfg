SPECIFICATION Spec
CONSTANTS
  None = None
  MaxRequests = 1
  MaxLaunches = 1
  MaxCalls = 2
  MaxFaults = 0
PROPERTIES ConsumedIsFinal
CHECK_DEADLOCK FALSE
