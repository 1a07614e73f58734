SPECIFICATION FairSpec
CONSTANTS
  MaxSent = 4
  MaxFaults = 2
  InvalidLimit = 2
  Buffer = 2
INVARIANTS MarkedIsCovered HolesAreShown
PROPERTIES NeverBackwards EventuallyCurrent
CHECK_DEADLOCK FALSE
