CONSTANTS
  Height = 2
  Width = 2
  SwappingCost = 1
  SelectionCost = 1
  NoHash = NoHash
  NoAnswer = NoAnswer
  Undefined = Undefined
  Problems <- EvenProblems
SPECIFICATION Spec
INVARIANT Solved
CHECK_DEADLOCK FALSE
