SPECIFICATION FairSpec
CONSTANTS
  Clients = {"c1", "c2"}
  Lines <- MCLines
  MaxQueued = 2
  Flood <- MCFlood
  Pages = {1, 2, 3, 4}
  Keep = 2
  KeyUses = 2
  Failing <- MCFailing
  Scenarios <- MCGoBack
  PollCycles = 2
  SetupClocks = 3
PROPERTY
  TimeAsDocumented
