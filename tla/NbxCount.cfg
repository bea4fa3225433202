CONSTANTS
  Rank = {0, 1, 2}
  NRep = 2
  Five = 2
  Draws <- MCDraws
SPECIFICATION Spec
INVARIANTS
  CountsWhatWasSent
