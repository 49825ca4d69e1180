SPECIFICATION FairSpec
CONSTANTS
  r1 = r1
  r2 = r2
  p1 = p1
  Runs = {r1, r2}
  NoRun = NoRun
  Paths = {p1}
  PathOf <- SharedPath
  Serving = {r1, r2}
  Piped = {r2}
INVARIANTS
  LeakedServerIsExplained
  ExclusiveRunReportsItself
PROPERTIES
  ImplementsStreamCall
  EveryRunReturns
CHECK_DEADLOCK FALSE
