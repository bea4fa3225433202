CONSTANTS
  NSlaves = 2
  Slave <- MCSlave
  NRuns = 3
  FSize = 2
  Length <- MCLength
SPECIFICATION RoundsSpec
INVARIANTS
  EachRunAtItsOffset
