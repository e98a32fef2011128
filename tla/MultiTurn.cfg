SPECIFICATION TurnsSpec
CONSTANTS
  Ranks = 2
  Local = 2
  MaxTurns = 3
  TurnTokens <- MCTurnTokens
  Args <- MCArgs
INVARIANTS
  TurnsInPlace
  LogprobsFit
PROPERTY RolloutEnds
