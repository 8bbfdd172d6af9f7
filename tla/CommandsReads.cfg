SPECIFICATION Spec
CONSTANTS
  Writes = {w1}
  Reads = {r1}
  Splits = {}
  ConfChanges = {}
  RightKeys = {}
  Slots = {s1, s2}
  Nil = Nil
  ReusePool = TRUE
  BatchSize = 1
  MaxTerm = 3
  MaxForeign = 1
  ForeignTypes = {"normal"}
  MaxSnapshots = 1
  Removable = FALSE
SYMMETRY SlotSymmetry
INVARIANTS TypeOK ReadsSeeAckedWrites AppliedInOrder
CHECK_DEADLOCK FALSE
