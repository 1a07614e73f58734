SPECIFICATION Spec
CONSTANTS
  Pieces = {"gate", "asks", "races", "dispatch", "crossed", "retried",
            "days", "update", "starts", "beside"}
  r1 = r1
  r2 = r2
  c1 = c1
  t1 = t1
  t2 = t2
  None = None
INVARIANTS ApprovedOnce DispatchedOnce
PROPERTIES ConsumedBeforeEffect BegunEnds
CHECK_DEADLOCK FALSE
