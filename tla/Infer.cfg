SPECIFICATION FairSpec
CONSTANTS
  a = a
  b = b
  c = c
  s = s
  Request = {a, b, c, s}
  ConfigOf <- MCConfigOf
  AdapterOf <- OneAdapter
  Streaming = {"stream"}
  MaybeMalformed = {b, s}
  StrictModes = {FALSE, TRUE}
  MaxBatch = 2
  MaxChunks = 1
INVARIANTS
  OwnAnswers
  StreamComplete
PROPERTY AllAnswered
