SPECIFICATION FairSpec
CONSTANTS
  MaxStreams = 3
  MaxFlushes = 1
  Cap = 2
  MaxStalls = 1
  MaxRmFails = 1
  MaxSweeps = 1
INVARIANT Durable
PROPERTIES NeverGoesBack SupersededCollected
CHECK_DEADLOCK FALSE
