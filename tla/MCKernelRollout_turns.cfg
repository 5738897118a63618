SPECIFICATION FairSpec
CONSTANTS
  Row = {p, q}
  MaxTurns = 2
  ResponseLength = 4
  Slack = 1
  Lengths = {2}
  MaxFeedback = 2
  MaxSubmits = 2
  Flaky = {p}
INVARIANTS RewardsMeasured CreditIsOfTurns
PROPERTIES GroupIsTrained
CHECK_DEADLOCK FALSE
