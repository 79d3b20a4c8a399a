SPECIFICATION Spec
CONSTANTS
  Readers = {r1, r2}
  MaxID = 2
  Words <- MCWords
  WordsOf <- MCWordsOf
  TextOf <- MCTextOf
  Stem <- MCStem
  StopWords <- MCStopWords
  MaxPhraseLen = 3
  Requests <- MCRequests
  MaxEvents = 2
SYMMETRY MCSymmetry
INVARIANTS
  TypeOK
  NoTornRead
  FreshWhenSettled
  ISearchExact
  SearchExact
