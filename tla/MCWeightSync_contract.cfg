SPECIFICATION Spec
CONSTANTS
  ra = ra
  rb = rb
  rn = rn
  rs = rs
  actors = actors
  Replica <- SpareScale
  Initial <- JustA
  ScaleOut <- JustS
  Trainer = actors
  Mortal <- PairScale
  Suspect <- JustA
  MaxRetries = 1
  MaxVersion = 1
  RebuildGroup = FALSE
CHECK_DEADLOCK FALSE
PROPERTIES AdmittedAfterCommit ResumedUnlessPruned ImplementsContract
INVARIANTS OneCommunicator
