SPECIFICATION FairSpec
CONSTANTS
  s1 = s1
  s2 = s2
  b1 = b1
  b2 = b2
  w1 = w1
  NoSession = NoSession
  NoBackend = NoBackend
  Session <- TwoSessions
  Backend <- TwoBackends
  Worker <- OneWorker
  MaxAttempts = 2
INVARIANTS
  TypeOK
  SettledState
  ClosedHasNoBackend
PROPERTIES
  GivesUp
  ShutdownEnds
CHECK_DEADLOCK FALSE
