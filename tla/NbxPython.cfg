CONSTANTS
  nranks = 2
  Rank <- MCRank
  NRep = 1
  Draws <- MCDraws
SPECIFICATION FairPySpec
INVARIANTS
  PyInv
  NoAssertionError
  ReceivedEverything
  ListingsFrameTheExchange
PROPERTIES
  AllReturn
