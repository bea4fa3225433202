CONSTANTS
  NSizes = 2
  NIterations = 4
  NSkips = 1
  Warmups = 1
  Window = 2
  Probes = 1
  World <- WindowWorld
  Code <- WindowCode
SPECIFICATION Spec
INVARIANTS
  IterationsAsAsked
