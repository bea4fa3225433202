CONSTANTS
  NSlaves = 3
  Slave <- MCSlave
  NRuns = 4
  FSize = 1
  Length <- MCLength
SPECIFICATION RoundsSpec
INVARIANTS
  NoIndexError
