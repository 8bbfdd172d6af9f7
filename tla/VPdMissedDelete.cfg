SPECIFICATION FairSpec
CONSTANTS
  Servers = {a, b, c}
  MaxId = 0
  MaxFaults = 1
  Down = {a}
  Watched = FALSE
  Batch = 2
  None = None
PROPERTIES LeaderElected
CHECK_DEADLOCK FALSE
