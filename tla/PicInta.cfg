SPECIFICATION FairSpec
CONSTANTS
  N = 4
  Cascade = 2
  Lines <- MCLines
  FreeLines = FALSE
  Writes <- MCWrites
  MaxNest = 2
INVARIANTS
  TypeOK
  ServiceMatchesHandlers
  NestedByPriority
  NoRequestLost
  SpuriousIsLast
  VectorAcknowledged
PROPERTIES
  FirstIsServed
