SPECIFICATION RqFairSpec
CONSTANTS
  j1 = j1
  j2 = j2
  Jobs = {j1, j2}
  Workers = 1
PROPERTIES
  EveryQueuedJobEnds
CHECK_DEADLOCK FALSE
