SPECIFICATION Spec
CONSTANTS
  SectorWords = 2
  CdWords = 2
  PacketWords = 2
  MaxChunk = 2
  BufWords = 4
  Sectors = 3
  SecBase = 2
  CylBase = 2
  HeadBase = 2
  LbaSpace = 64
  CountBase = 2
  Heads = 1
  Spt = 2
  Tasks <- MCWrites
  Packets <- MCPackets
  Kinds = {"hdd"}
  Jitter = TRUE
  CdAborts = FALSE
  MaxResets = 0
  MaxCommands = 1
INVARIANT
  WrittenIsKept
