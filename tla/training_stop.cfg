SPECIFICATION TSpec
CONSTANTS
  j1 = j1
  j2 = j2
  loop = loop
  Job <- TwoJobs
  Loop = loop
  MaxJobs = 2
  Timed <- TwoJobs
  Pausable <- NoJob
  ThreadsMayFail = FALSE
  MaxRequests = 2
  MaxOutputs = 0
PROPERTIES
  StopHitsOnlyItsJob
CHECK_DEADLOCK FALSE
