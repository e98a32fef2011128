CONSTANTS
  Workers = {w1, w2}
  Ranks = 2
  MaxSamples = 4
  Lengths <- SampleLengths
  PackingInterval = 2
  PackingLength = 3
  MaxSkip = 1
  Strict = FALSE
  PastEnd = FALSE
SPECIFICATION Spec
INVARIANTS PackedOnce SameBatches
PROPERTY EpochEnds
