SPECIFICATION StoresSpec
CONSTANTS
  Scenarios <- MCScenarios
  MaxCrashes = 1
  MaxJobs = 2
  Followers = {f1, f2}
  Lagging <- MCLagging
  Chunks = 3
  MaxSnapEvents = 2
INVARIANTS  DiskAgrees ApplyAssertions FilesWhole
PROPERTIES StaysRemoved LeavesCell SnapshotArrives
CHECK_DEADLOCK FALSE
