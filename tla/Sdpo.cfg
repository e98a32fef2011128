SPECIFICATION SdpoSpec
CONSTANTS
  Ranks = 2
  Local = 3
  Group = 3
  MiniBatches = 3
  TauGood = 2
  TauFail = 1
  DeltaNum = 1
  DeltaDen = 2
  ScoresOf <- MCScoresOf
  MaybeUnsized = {0}
  Args <- MCArgs
INVARIANTS
  OwnImage
  BetterHint
  SameCollective
