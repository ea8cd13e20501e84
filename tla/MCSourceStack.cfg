CONSTANTS
  MaxU = 15
  MaxI = 7
  Sizes = {0, 2, 3, 5}
  Faults = {{}, {"change", "partial"}}
  MaxWindows = 2
  Bounds = {0, 1, 3, 15}
  Steps <- SmallSteps
  Lengths = {1, 4}
  SniffCap = 4
  TailCap = 2
SPECIFICATION Spec
INVARIANTS
  TypeOK
  WindowsNest
  NoEscape
  CopyFaithful
  CopyComplete
  ExactAll
  RangeErrorsTrue
  HeadTrue
  CalmTailTrue
