SPECIFICATION FairSpec
CONSTANTS
  j1 = j1
  j2 = j2
  Job <- TwoJobs
  MaxJobs = 1
  Timed <- FirstJob
  Pausable <- FirstJob
  ThreadsMayFail = TRUE
INVARIANTS
  TypeOK
  SlotAccounting
  VerdictHonest
  LiveTargetsBounded
PROPERTIES
  CancelInTime
  TerminalKept
  FollowsLifecycle
  Finishes
  ImplementsPool
CHECK_DEADLOCK FALSE
