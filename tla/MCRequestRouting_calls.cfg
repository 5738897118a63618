SPECIFICATION FairSpec
CONSTANTS
  x = x
  z = z
  p = p
  q = q
  Server <- XZ
  Initial <- JustX
  Request <- PQ
  Mortal <- JustX
  FullyAsync <- JustP
  MaxRetries = 1
  MaxTurns = 2
  MaxRestarts = 1
  MaxAdmits = 1
  CacheSize = 1
CHECK_DEADLOCK FALSE
INVARIANTS Balanced
PROPERTIES RoutedFresh EveryCallEnds
