SPECIFICATION Spec
CONSTANTS
  Server = {a, b}
  Budget = 2
  MaxRetries = 2
  MaxVersion = 2
  Attempts = 5
  MaxFaults = 1
INVARIANTS HealthyRequestSucceeds
CHECK_DEADLOCK FALSE
