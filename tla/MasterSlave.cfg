CONSTANTS
  Slave = {1, 2, 3}
  NRuns = 4
  Slot = 2
  Length <- MCLength
SPECIFICATION FairMSSpec
INVARIANTS
  MSInv
  HeaderComplete
  ReadBack
  NothingLeftAtBarrier
PROPERTIES
  IsendCompleted
  ImplementsPool
  AllReturn
