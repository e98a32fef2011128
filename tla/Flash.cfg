SPECIFICATION FairSpec
CONSTANTS
  Rank = {r0, r1}
  MaxSteps = 4
  EpochSteps = 4
  SaveSteps = 1
  SaveLimit = 2
  MaxVersion = 1
  ElasticModes = {FALSE, TRUE}
INVARIANTS
  TracerComplete
  EpochBatchesOnce
  ShutdownPrompt
PROPERTIES
  BestKept
  TrainingEnds
