SPECIFICATION FairSpec
CONSTANTS
  Rank = {r0, r1, r2}
  Main = r0
  MicroPerStep = 2
  GenerateEvery = 1
  MaxSteps = 4
  EvalSteps = 2
  EvalBatches = 2
  EvalOnStart = FALSE
  MaxResample = 1
  MayFail = FALSE
INVARIANTS
  RanksAgree
  OneBatchLag
  TrainStaleness
PROPERTY TrainingEnds
