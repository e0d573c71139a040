SPECIFICATION Spec
CONSTANTS
  s1 = s1
  s2 = s2
  b1 = b1
  b2 = b2
  w1 = w1
  NoSession = NoSession
  NoBackend = NoBackend
  Session <- OneSession
  Backend <- TwoBackends
  Worker <- NoWorker
  MaxAttempts = 1
INVARIANTS
  CloseIsFinal
CHECK_DEADLOCK FALSE
