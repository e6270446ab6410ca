CONSTANTS
  Height = 2
  Width = 2
  SwappingCost = 2
  SelectionCost = 3
  SelectionLimit = 3
  MaxOptimum = 20
  NoAnswer = NoAnswer
SPECIFICATION IDASpec
INVARIANT AnswerOptimal
CHECK_DEADLOCK FALSE
