SPECIFICATION FairSpec
CONSTANTS
  Writes = {w1}
  Reads = {}
  Splits = {}
  ConfChanges = {c1}
  RightKeys = {}
  Slots = {s1, s2}
  Nil = Nil
  ReusePool = FALSE
  BatchSize = 1
  MaxTerm = 2
  MaxForeign = 0
  ForeignTypes = {"normal"}
  MaxSnapshots = 0
  Removable = TRUE
INVARIANTS NoFault
PROPERTIES EveryWriteAnswered
CHECK_DEADLOCK FALSE
