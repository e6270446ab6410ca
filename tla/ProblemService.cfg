CONSTANTS
  Clients = {c1, c2}
  MaxProblems = 2
SPECIFICATION FairSpec
INVARIANTS TypeOK OneWriter StreamIntact Windows
PROPERTIES FeedSpec Delivered
CHECK_DEADLOCK FALSE
