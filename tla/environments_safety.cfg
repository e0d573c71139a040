SPECIFICATION Spec
CONSTANTS
  s1 = s1
  k1 = k1
  k2 = k2
  f1 = f1
  v1 = v1
  Session <- OneSession
  Kernel <- TwoKernels
  Profile <- OneProfile
  Package <- TwoPackages
  Version <- OneVersion
  Absent = Absent
  NoCommand = NoCommand
  NoOutput = NoOutput
  NoProfile = NoProfile
  MaxShown = 1
  MaxCalls = 2
INVARIANTS
  TypeOK
  OkMeansDone
  RestoresSaved
PROPERTIES
  GivenUpInstallsNothing
SYMMETRY AnyNames
