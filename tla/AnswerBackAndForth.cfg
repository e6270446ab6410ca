CONSTANTS
  Height = 2
  Width = 3
  MaxSelections = 1
  MaxSwaps = 10
  Unfinished = Unfinished
SPECIFICATION OptimizeSpec
INVARIANT NoBackAndForth
CHECK_DEADLOCK FALSE
