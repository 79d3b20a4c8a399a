SPECIFICATION FairSpec
CONSTANTS
  Admins = {a1}
  Polling = {a1}
  MaxTokens = 2
CHECK_DEADLOCK FALSE
PROPERTIES
  ExpiredPageLeaves
  ClickAnswered
