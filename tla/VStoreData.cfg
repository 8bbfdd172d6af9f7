SPECIFICATION StoresSpec
CONSTANTS
  Scenarios <- MCScenarios
  MaxCrashes = 1
  MaxJobs = 2
  Followers = {f1, f2}
  Lagging <- MCLagging
  Chunks = 2
  MaxSnapEvents = 0
INVARIANT
  DataKept
CHECK_DEADLOCK FALSE
