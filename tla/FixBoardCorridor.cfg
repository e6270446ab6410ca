CONSTANTS
  Height = 16
  Width = 16
  FixedShapes <- MCCorridor
  Starts <- MCStart
  Shuffle <- MCShuffle
SPECIFICATION Spec
INVARIANT ShortestMoves
CHECK_DEADLOCK FALSE
