SPECIFICATION FairSpec
CONSTANTS
  Requests = {r1, r2}
  Concurrency = 1
  MaxRows = 2
INVARIANTS
  TypeOK
  SlotsAccounted
  PageTrue
PROPERTY
  Answered
