SPECIFICATION FairSpec
CONSTANTS
  Size = 2
  Spt = 2
  Cyls = 2
  Writable = TRUE
  Commands <- MCCommands
  MaxCommands = 2
  MaxFaults = 2
INVARIANTS
  SectorExact
PROPERTIES
  FloppyCommandEnds
