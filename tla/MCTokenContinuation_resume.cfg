SPECIFICATION FairSpec
CONSTANTS
  Server = {a, b}
  Budget = 2
  MaxRetries = 2
  MaxVersion = 2
  Attempts = 5
  MaxFaults = 1
INVARIANTS  SurvivesSync
PROPERTIES ExactPrefixIsCurrent RequestEnds
CHECK_DEADLOCK FALSE
