SPECIFICATION Spec
CONSTANTS
  Batches <- MCBatches
  Scripts <- MCScripts
  BatchCliResps = 2
  MaxRaftErrors = 1
  MaxChanges = 2
  ReadyCap = 3
  MaxBreaks = 2
  MaxMoves = 3
  MaxLosses = 1
CHECK_DEADLOCK FALSE
INVARIANTS FramesHold OwnReply  OneReply
PROPERTIES IsChannel   
