SPECIFICATION Spec
CONSTANTS
  Pages = {"board", "employee", "wizard", "request", "tabs", "reports", "owner", "form", "task", "loops", "invocation", "home", "session"}
  Faults = 1
  t1 = t1
  t2 = t2
  e1 = e1
  e2 = e2
  None = None
INVARIANTS AtMostOnce ActsOnWhatIsShown ShownIsTrue NothingLeftBehind RefusedForKnownCauses
PROPERTIES NothingGoesBack
CHECK_DEADLOCK FALSE
