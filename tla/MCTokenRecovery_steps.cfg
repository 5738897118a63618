SPECIFICATION FairSpec
CONSTANTS
  Req = {1, 2}
  Length = 2
  MaxStep = 2
  MaxRebuilds = 1
  MaxReschedules = 1
  MaxFaults = 2
  CatchesUp = TRUE
INVARIANTS  StepsRepeat
PROPERTIES TrainingEnds
CHECK_DEADLOCK FALSE
