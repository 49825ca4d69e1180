SPECIFICATION BSpec
CONSTANTS
  q1 = q1
  q2 = q2
  Requests = {q1, q2}
  Modules = {"B2", "B5"}
  RuntimeModes = {"container", "bare_metal"}
  PatchStatuses = {"created", "ready"}
  Plans <- DaemonPlans
SYMMETRY RequestSymmetry
INVARIANTS
  ProfileHasASnapshot
  NothingOutlivesTheMachine
  StatusIsRecorded
  PassedBootstrapHolds
  MissingRuntimeIsExplained
CHECK_DEADLOCK FALSE
