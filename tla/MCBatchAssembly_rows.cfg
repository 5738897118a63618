SPECIFICATION FairSpec
CONSTANTS
  Modes = {"oneStep", "fullyAsync", "drkernel"}
  P = 2
  N = 4
  Workers = 2
  Dp = 2
  MinOk = 50
  Required = 2
  SyncEvery = 1
  Slack = 1
  Total = 5
  Kinds <- RowKinds
  Configs <- FilterConfigs
  None = None
  Raised = Raised
  Pending = Pending
INVARIANT RowsSound
PROPERTY StepsEnd
CHECK_DEADLOCK FALSE
