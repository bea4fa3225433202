CONSTANTS
  NSlaves = 2
  Slave <- MCSlave
  NRuns = 7
  FSize = 2
  Length <- MCLength
SPECIFICATION FairRoundsSpec
INVARIANTS
  RoundsAreBatches
  HeaderComplete
  ReadInFull
  NoIndexError
PROPERTIES
  SameRoundDisjoint
  AllReturn
