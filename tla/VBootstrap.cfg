SPECIFICATION BootSpec
CONSTANTS
  Nodes = {n1, n2}
  InitCellCount = 2
  MaxBootEvents = 0
INVARIANT OnlyRecordedServed
CHECK_DEADLOCK FALSE
