SPECIFICATION Spec
CONSTANTS
  Rank = {r0, r1}
  Main = r0
  MicroPerStep = 2
  GenerateEvery = 4
  MaxSteps = 6
  EvalSteps = 1
  EvalBatches = 2
  EvalOnStart = FALSE
  MaxResample = 1
  MayFail = TRUE
CHECK_DEADLOCK FALSE
INVARIANTS
  NoLoadDuringRollout
PROPERTY ImplementsRolloutService
