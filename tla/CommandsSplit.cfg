SPECIFICATION Spec
CONSTANTS
  Writes = {w1, w2}
  Reads = {}
  Splits = {sp}
  ConfChanges = {}
  RightKeys = {w1}
  Slots = {s1, s2}
  Nil = Nil
  ReusePool = TRUE
  BatchSize = 2
  MaxTerm = 2
  MaxForeign = 1
  ForeignTypes = {"normal"}
  MaxSnapshots = 0
  Removable = FALSE
SYMMETRY SlotSymmetry
INVARIANTS StaleNeverChosen AckedIsApplied EpochRefused
CHECK_DEADLOCK FALSE
