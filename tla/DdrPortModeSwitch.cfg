SPECIFICATION Spec
CONSTANTS
  MaxBurst = 2
  Widths <- MCWidths
  MaxShared = 2
  GusWords <- MCGusWords
  LanePairs = 1
  Bytes <- MCBytes
  GusRequests <- MCGusRequests
  FreeRelease = TRUE
INVARIANT
  BurstHeld
