SPECIFICATION Spec
CONSTANTS
  N = 4
  Cascade = 2
  Lines <- RaceLines
  FreeLines = TRUE
  Writes = {}
  MaxNest = 2
INVARIANTS
  VectorAcknowledged
