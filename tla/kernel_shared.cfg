SPECIFICATION Spec
CONSTANTS
  c1 = c1
  c2 = c2
  Caller <- TwoCallers
  Loop = c2
  MaxRequests = 3
  MaxOutputs = 1
INVARIANTS
  TypeOK
  NoCrossTalk
  OnlyOthersLoseOutput
CHECK_DEADLOCK FALSE
