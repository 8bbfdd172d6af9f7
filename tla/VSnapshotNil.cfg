SPECIFICATION StoresSpec
CONSTANTS
  Scenarios <- MCScenarios
  MaxCrashes = 0
  MaxJobs = 1
  Followers = {f1, f2}
  Lagging <- MCLagging
  Chunks = 2
  MaxSnapEvents = 1
INVARIANT
  SendingFound
CHECK_DEADLOCK FALSE
