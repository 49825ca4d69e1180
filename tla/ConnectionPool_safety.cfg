SPECIFICATION FairSpec
CONSTANTS
  Free = Free
  SyncRequests = {s1, s2}
  AsyncRequests = {a1, a2, a3}
  PoolSize = 2
  Threads = 1
INVARIANTS
  RefusedOnlyWhenCrowded
  StandstillIsExplained
PROPERTIES
  OnlyTheTimeoutEndsAStall
  EveryRequestIsAnswered
CHECK_DEADLOCK FALSE
