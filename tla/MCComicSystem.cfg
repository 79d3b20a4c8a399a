SPECIFICATION SysSpec
CONSTANTS
  Callers = {c1}
  Workers = {w1}
  Readers = {r1}
  MaxID = 1
  SpecialID = 0
  Words <- MCWords
  WordsOf <- MCWordsOf
  MaxEvents = 1
  TextOf <- MCTextOf
  Stem <- MCStem
  StopWords = {}
  MaxPhraseLen = 1
  Requests <- MCRequests
INVARIANT
  Found
PROPERTY
  ImplementsIndex
