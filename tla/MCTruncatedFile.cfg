CONSTANTS
  MaxU = 15
  MaxI = 7
  Sizes = {0, 2, 3, 5}
  Faults = {{"change"}}
  MaxWindows = 0
  Bounds = {0, 1, 3, 15}
  Steps <- SmallSteps
  Lengths = {1, 4}
  SniffCap = 4
  TailCap = 2
SPECIFICATION Spec
INVARIANT
  TailTrue
