CONSTANTS
  Height = 5
  Width = 5
  FixedCells = {{}, {7, 12, 17}, {2, 7, 12, 17, 22}, {6, 7, 11, 13}}
  Multipliers = {1, 2, 3, 4, 6, 7}
  Offsets = {0, 1, 3, 8, 11, 16}
  FixedShapes <- MCShapes
  Starts <- MCStarts
  Shuffle <- MCShuffle
  DolphinProblems <- MCDolphinProblems
  StraightProblems <- MCStraightProblems
  BeamWidth = 1
SPECIFICATION Spec
INVARIANTS
  PromiseKept
  CarriesIfPossible
  ShortestMoves
  SettledStaysSettled
  EveryCandidateAligns
  LayersBounded
  StraightAnswerFits
  StraightSolves
CHECK_DEADLOCK FALSE
