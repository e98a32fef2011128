SPECIFICATION Spec
CONSTANTS
  NumServers = 1
  NumWorkers = 2
  NumBuckets = 2
  Rounds = 2
  NumRequests = 3
  Flattened = FALSE
  RequestRetries = 2
  MayLose = TRUE
  MayRaise = {"update", "infer"}
  MaxCrashes = 1
INVARIANTS
  BucketIntegrity
  RolloutWeights
  FreshPrefixCache
  AnswersInOrder
CHECK_DEADLOCK FALSE
