SPECIFICATION Spec
CONSTANTS
  n1 = n1
  p1 = p1
  p2 = p2
  ip = ip
  IndexPath = ip
  d1 = d1
  Name <- Names
  Path <- Paths
  Content <- Data
  Artifact <- Models
  a1 = a1
  NoTask = NoTask
  MaxEntries = 3
INVARIANTS
  TypeOK
  NothingSilentlyLost
  RegisteredIsWhole
  NewestIntact
SYMMETRY AnyPaths
