SPECIFICATION Spec
CONSTANTS
  Admins = {a1, a2}
  Polling = {a1}
  MaxTokens = 2
CHECK_DEADLOCK FALSE
INVARIANT
  RefusalTold
