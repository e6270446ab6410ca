CONSTANTS
  Clients = {c1}
  MaxProblems = 1
SPECIFICATION FairSpec
PROPERTY RunReturns
CHECK_DEADLOCK FALSE
