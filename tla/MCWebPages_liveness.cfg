SPECIFICATION Spec
CONSTANTS
  Pages = {"owner", "form", "task", "loops", "invocation", "home", "reports"}
  Faults = 1
  t1 = t1
  t2 = t2
  e1 = e1
  e2 = e2
  None = None
PROPERTIES AwaitedArrives BusyEnds
CHECK_DEADLOCK FALSE
