\* The program may stop in a Split (see AveragingMatch.cfg) and does stop
\* behind MPI_Finalize.
CHECK_DEADLOCK FALSE
CONSTANTS
  Rank = {0, 1, 2}
  maxstep = 5
SPECIFICATION FairAvgSpec
INVARIANTS
  AvgInv
  StopsOnlyWhenAllLate
  LeaversAgree
PROPERTIES
  FinishOrSplit
