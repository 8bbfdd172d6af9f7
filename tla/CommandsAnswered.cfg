SPECIFICATION FairSpec
CONSTANTS
  Writes = {w1}
  Reads = {r1, r2}
  Splits = {}
  ConfChanges = {}
  RightKeys = {}
  Slots = {s1, s2}
  Nil = Nil
  ReusePool = TRUE
  BatchSize = 1
  MaxTerm = 2
  MaxForeign = 0
  ForeignTypes = {"normal"}
  MaxSnapshots = 1
  Removable = FALSE
INVARIANTS NoFault
PROPERTIES EveryRequestAnswered
CHECK_DEADLOCK FALSE
