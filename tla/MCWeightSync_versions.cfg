SPECIFICATION FairSpec
CONSTANTS
  ra = ra
  rb = rb
  rn = rn
  rs = rs
  actors = actors
  Replica <- Pair
  Initial <- Pair
  ScaleOut = {}
  Trainer = actors
  Mortal <- JustA
  Suspect = {}
  MaxRetries = 1
  MaxVersion = 2
  RebuildGroup = FALSE
CHECK_DEADLOCK FALSE
INVARIANTS TypeOK AttemptFenced CommittedMembersAgree ServesCommitted GroupFresh
PROPERTIES SyncTerminates GivenUpIsIsolated
