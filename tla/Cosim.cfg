SPECIFICATION FairSpec
CONSTANTS
  Programs <- MCPrograms
  Vals = {0, 1}
  RegPersist = 3
  X87Persist = 2
  X87Period = 2
  Errors = {"bad", "lost"}
  MaxIssues = 2
  AnyPoint = FALSE
INVARIANTS
  TypeOK
  NoFalseAlarm
  SnapshotExact
PROPERTIES
  FollowsLockstep
  IssuesProcessed
