SPECIFICATION Spec
CONSTANTS
  Layers = 5
  MaxPasses = 3
  Kinds = {"train"}
INVARIANTS
  BackwardReads
  HandlerReset
