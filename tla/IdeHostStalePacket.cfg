SPECIFICATION Spec
CONSTANTS
  SectorWords = 2
  CdWords = 2
  PacketWords = 2
  MaxChunk = 2
  BufWords = 4
  Sectors = 3
  SecBase = 2
  CylBase = 2
  HeadBase = 2
  LbaSpace = 64
  CountBase = 2
  Heads = 1
  Spt = 2
  Tasks <- MCPacketTasks
  Packets <- MCPacketsBeyond
  Kinds = {"cd"}
  Jitter = FALSE
  CdAborts = TRUE
  MaxResets = 1
  MaxCommands = 2
INVARIANT
  SenseSucceeds
