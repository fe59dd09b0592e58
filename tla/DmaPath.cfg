SPECIFICATION FairSpec
CONSTANTS
  Order <- MCOrder
  Chip <- MCChip
  Floppy = {"floppy"}
  Digit = 2
  Pages = {0, 1}
  Blocks <- MCBlocks
  MaxBlocks = 2
  MaxItems = 3
INVARIANTS
  TypeOK
  MemoryExact
  ReadExact
  AckWanted
  TcOnLast
PROPERTIES
  TransferEnds
