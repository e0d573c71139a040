SPECIFICATION TFairSpec
CONSTANTS
  j1 = j1
  j2 = j2
  loop = loop
  Job <- OneJob
  Loop = loop
  MaxJobs = 1
  Timed <- OneJob
  Pausable <- NoJob
  ThreadsMayFail = FALSE
  MaxRequests = 2
  MaxOutputs = 0
INVARIANTS
  CompletedMeansRan
PROPERTIES
  TargetsEnd
  
CHECK_DEADLOCK FALSE
