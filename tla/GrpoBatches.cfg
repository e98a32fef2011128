SPECIFICATION GrpoSpec
CONSTANTS
  Ranks = 2
  Local = 4
  Group = 2
  MiniBatches = 2
  Iterations = 2
  MaxResample = 2
  Generations = 2
  Modes = {"plain", "dynamic_sample", "multi_turn"}
  MaybeBad <- FirstPrompt
INVARIANTS
  OwnAdvantage
  WholeGroups
  VariedGroups
  TrainedAlike
