CONSTANTS
  size = 3
  N = 2
  Values = {0, 1, 2}
SPECIFICATION FairSortSpec
INVARIANTS
  PiecesBetweenPivots
  SortsTheData
  FindsAllDuplicates
PROPERTIES
  SortTerminates
