CONSTANTS
  Height = 2
  Width = 2
  ShuffleMax = 100
  MaxInputs = 5
  MaxAnswers = 2
  Problems <- MCProblems
  Shuffles <- MCShuffles
  Answers <- MCAnswers
SPECIFICATION Spec
INVARIANTS PlayFollowsAnswer SolveEnabledUnlessInUse AnswerFitsBackup
PROPERTIES Progress AnswersInOrder TakenAnswersArrive
CHECK_DEADLOCK FALSE
