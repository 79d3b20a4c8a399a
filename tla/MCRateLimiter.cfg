SPECIFICATION FairSpec
CONSTANTS
  Requests = {r1, r2}
  Period = 2
  Positive = TRUE
  Budgets <- MCBudgets
  MaxTime = 5
  MaxGrants = 3
CHECK_DEADLOCK FALSE
INVARIANTS
  TypeOK
  RateBound
  AdmittedWithinRate
PROPERTIES
  ImplementsSlots
  Leaves
