SPECIFICATION FairSpec
CONSTANTS
  Loops = {"dapo", "predictor", "queue"}
  GenBatch = 3
  TrainBatch = 2
  N = 2
  Ranks = 2
  Length = 2
  Epochs = 2
  TotalSteps = 3
  SaveFreq = 2
  Limits = {0, 2}
  MaxRestarts = 2
INVARIANTS  CheckpointsAgree
PROPERTIES TrainingEnds
CHECK_DEADLOCK FALSE
