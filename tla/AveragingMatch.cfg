CONSTANTS
  Rank = {0, 1, 2}
  maxstep = 5
SPECIFICATION AvgSpec
INVARIANTS
  CollectivesMatch
