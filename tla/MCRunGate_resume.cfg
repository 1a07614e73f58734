SPECIFICATION Spec
CONSTANTS
  Runs = {r1, r2}
  Callers = {c1}
  Operations = {"start", "resume", "cancel"}
  Review = FALSE
  Expiring = FALSE
  MaxFaults = 0
  None = None
PROPERTIES CancelledIsFinal
CHECK_DEADLOCK FALSE
