CONSTANTS
  NSizes = 2
  NIterations = 2
  NSkips = 1
  Warmups = 1
  Window = 2
  Probes = 1
  World <- MCWorld
  Code <- MCCode
SPECIFICATION FairSpec
INVARIANTS
  TypeOK
  CollectivesMatch
  TextsKept
  OwnIteration
  NothingLeft
  TimedWorkDone
  EpochsHold
  SymmetricMemoryFree
PROPERTIES
  Terminates
