SPECIFICATION Spec
CONSTANTS
  Writes = {w1}
  Reads = {}
  Splits = {sp}
  ConfChanges = {}
  RightKeys = {w1}
  Slots = {s1, s2}
  Nil = Nil
  ReusePool = TRUE
  BatchSize = 1
  MaxTerm = 1
  MaxForeign = 0
  ForeignTypes = {"normal"}
  MaxSnapshots = 0
  Removable = FALSE
SYMMETRY SlotSymmetry
INVARIANTS OwnKeysOnly
CHECK_DEADLOCK FALSE
