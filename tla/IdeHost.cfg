SPECIFICATION FairSpec
CONSTANTS
  SectorWords = 2
  CdWords = 2
  PacketWords = 2
  MaxChunk = 2
  BufWords = 4
  Sectors = 3
  SecBase = 2
  CylBase = 2
  HeadBase = 2
  LbaSpace = 64
  CountBase = 2
  Heads = 1
  Spt = 2
  Tasks <- MCTasks
  Packets <- MCPackets
  Kinds = {"hdd", "cd"}
  Jitter = FALSE
  CdAborts = FALSE
  MaxResets = 1
  MaxCommands = 2
INVARIANTS
  TypeOK
  BlockExact
  PacketResponseExact
  PacketEndsComplete
  WrittenIsKept
  TransferComplete
  FirstWriteBlockSilent
PROPERTIES
  CommandEnds
