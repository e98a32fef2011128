SPECIFICATION Spec
CONSTANTS
  Rank = {r0, r1}
  Main = r0
  Modes = {"fixed", "metric", "metric_ewma", "off"}
  MicroPerStep = 2
  MaxSteps = 4
  RefreshStep = 2
  Warmup = 1
  Window = 2
  ShortWindow = 1
  LongWindow = 2
  Consecutive = 2
  CheckInterval = 1
  MaxRefreshes = 2
  Cooldown = 2
  Ema = TRUE
  StudentStage3 = FALSE
INVARIANTS
  CollectivesMatch
  TeachersAgree
  FreshWindow
  OneBlendPerStep
PROPERTY RefreshRate
