SPECIFICATION Spec
CONSTANTS
  s1 = s1
  k1 = k1
  k2 = k2
  p1 = p1
  p2 = p2
  short = short
  long = long
  Session <- OneSession
  Kernel <- TwoKernels
  Path <- TwoPaths
  NoPath = NoPath
  Content <- Texts
  Large <- LongTexts
  NoCommand = NoCommand
  NoOutput = NoOutput
  MaxCalls = 3
INVARIANTS
  OkMeansDone
  OkSettles
SYMMETRY AnyNames
CHECK_DEADLOCK FALSE
