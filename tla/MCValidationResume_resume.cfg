SPECIFICATION ValFairSpec
CONSTANTS
  a = a
  b = b
  c = c
  d = d
  Key = {a, b, c, d}
  Dataset <- ThreeChunks
  Rollouts = 3
  MaxCrashes = 3
INVARIANTS RowsComplete
PROPERTIES EvaluatesOnlyMissing RunsFinish
