SPECIFICATION Spec
INVARIANTS
  SingleWriter BatchStaysStartable BudgetOvershoot RunningIsOwned CompletedIsVerified AcyclicWork
CHECK_DEADLOCK FALSE
