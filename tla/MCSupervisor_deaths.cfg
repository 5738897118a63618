SPECIFICATION FairSpec
CONSTANTS
  ra = ra
  rb = rb
  rn = rn
  Replica <- ABN
  Initial <- AB
  Mortal <- AN
  Flaky = {rb}
  MissThreshold = 2
  CallsFail = TRUE
CHECK_DEADLOCK FALSE
INVARIANTS NoLostDeath HandledStaysOut Managed
PROPERTIES HandledOnce DeadLeavesTraffic
