CONSTANTS
  Height = 2
  Width = 3
  MaxSelections = 2
  MaxSwaps = 9
  Unfinished = Unfinished
  BeamTasks <- MCBeamTasks
  Trust = 2
  Patience = 1
  Threads = {t1, t2}
  TreeMoves = {1, 2}
  MaxNodes = 3
  MaxSearches = 2
  SwappingCost = 1
  SelectionCost = 1
  SelectionLimit = 3
  MaxCost = 12
SPECIFICATION MCSpec
INVARIANTS SamePlay RotCountsTurns ResultNoWorse NoAdjacentSelections BeamAnswerCorrect NothingBetterLeftBehind AnswersKept HeuristicAdmissible
CHECK_DEADLOCK FALSE
