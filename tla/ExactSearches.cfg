CONSTANTS
  Height = 2
  Width = 2
  SwappingCost = 1
  SelectionCost = 1
  SelectionLimit = 3
  MaxOptimum = 12
  NoHash = NoHash
  NoAnswer = NoAnswer
  Undefined = Undefined
  Problems <- OddProblems
SPECIFICATION SearchSpec
INVARIANTS ExactAnswerCorrect AnswerOptimal CallsGetExactFeatures TypeOK MeetingNoticed AnswerCorrect
PROPERTIES Answered EntriesKept
CHECK_DEADLOCK FALSE
