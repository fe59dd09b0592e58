SPECIFICATION FairSpec
CONSTANTS
  MaxBurst = 2
  Widths <- MCWidths
  MaxShared = 2
  GusWords <- MCGusWords
  LanePairs = 1
  Bytes <- MCBytes
  GusRequests <- MCGusRequests
  FreeRelease = FALSE
INVARIANTS
  TypeOK
  RoutedToRequester
  LineWordInPlace
  WaiterHasRead
  SampleReadExact
PROPERTIES
  CpuAccessEnds
  Gf1AccessEnds
