SPECIFICATION NSpec
CONSTANTS
  s1 = s1
  k1 = k1
  k2 = k2
  t1 = t1
  t2 = t2
  Session <- OneSession
  Kernel <- TwoKernels
  Text <- TwoTexts
  Default = Default
  NoTool = NoTool
  NoBook = NoBook
  Torn = Torn
  NoCommand = NoCommand
  NoOutput = NoOutput
  MaxCalls = 3
  MaxCells = 2
INVARIANTS
  OnlyAsked
PROPERTIES
  CellsInOrder
SYMMETRY AnyNames
