SPECIFICATION FairSpec
CONSTANTS
  Readers = {r1}
  MaxID = 1
  Words <- MCWords
  WordsOf <- MCWordsOf
  TextOf <- MCTextOf
  Stem <- MCStem
  StopWords <- MCStopWords
  MaxPhraseLen = 3
  Requests <- MCRequests
  MaxEvents = 1
PROPERTIES
  SearchReturns
  EventHandled
  EventuallyFresh
