SPECIFICATION Spec
CONSTANTS
  Runs = {r1, r2}
  Callers = {c1, c2}
  Operations = {"start", "resume", "approve", "cancel"}
  Review = TRUE
  Expiring = TRUE
  MaxFaults = 1
  None = None
SYMMETRY Symmetry
INVARIANTS TypeOK GateIsHeld OnlyApprovedRuns
PROPERTIES CancelHitsItsRun
CHECK_DEADLOCK FALSE
