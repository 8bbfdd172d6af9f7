SPECIFICATION PlacementSpec
CONSTANTS
  Servers = {a, b}
  MaxId = 4
  MaxFaults = 3
  Down = {}
  Watched = FALSE
  Batch = 2
  None = None
  CellStores = {1, 2, 3, 4}
  LimitReplicas = 3
  MaxPeerId = 7
  MaxConfVer = 4
  MaxAnswers = 1
  MaxEvents = 2
  Nodes = {n1, n2}
  InitCellCount = 2
  MaxBootEvents = 2
INVARIANTS TypeOK IdsUnique  FirstCellsDisjoint
PROPERTIES LeaderElected StaleLeaderStepsDown  NodesStart
CHECK_DEADLOCK FALSE
