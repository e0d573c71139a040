SPECIFICATION Spec
CONSTANT MaxConnects = 3
INVARIANTS
  TypeOK
  NothingLeftRunning
  NeverKillsTheirs
PROPERTIES
  ConnectedIsReal
