SPECIFICATION FairSpec
CONSTANTS
  Callers = {c1, c2}
  Workers = {w1, w2}
  MaxID = 3
  SpecialID = 2
  Words <- MCWords
  WordsOf <- MCWordsOf
  MaxEvents = 1
INVARIANTS
  TypeOK
  FlagHeldByOne
  StatsConsistent
  NoKeyCollision
  JobsConserved
  UpdateComplete
  FetchedWithinTotal
PROPERTIES
  ImplementsStore
  CallsReturn
