CONSTANTS
  Height = 2
  Width = 3
  SwappingCost = 1
  SelectionCost = 1
  SelectionLimit = 2
  MaxCost = 7
  FixedArea <- MCFixedArea
SPECIFICATION Spec
INVARIANTS FeaturesExact DistancesExact ParityExact
PROPERTY PrunedStaysUnfinished
CHECK_DEADLOCK FALSE
