SPECIFICATION FairSpec
CONSTANTS
  NumServers = 2
  NumWorkers = 2
  NumBuckets = 2
  Rounds = 2
  NumRequests = 3
  Flattened = TRUE
  RequestRetries = 2
  MayLose = FALSE
  MayRaise = {}
  MaxCrashes = 0
INVARIANTS
  AnswersInOrder
PROPERTY RunEnds
