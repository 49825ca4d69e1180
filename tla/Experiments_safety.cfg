SPECIFICATION Spec
CONSTANTS
  Nothing = Nothing
  Machines = {m1, m2}
  Requests = {r1, r2, r3, r4, r5}
  TrialCounts = {0, 1, 2}
SYMMETRY RowSymmetry
INVARIANTS
  EvidenceIsReachable
  MachineIsKept
  ReportIsAccurate
  TableIsWhole
  UnreadableIsAFailedCopy
CHECK_DEADLOCK FALSE
