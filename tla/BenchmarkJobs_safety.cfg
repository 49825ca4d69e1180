SPECIFICATION Spec
CONSTANTS
  j1 = j1
  j2 = j2
  Jobs = {j1, j2}
  Workers = 2
SYMMETRY JobSymmetry
INVARIANTS
  QueueDeliversOnce
  NoRowStrandedWithoutAFault
  LinkedArtifactsAreStored
  NoSilentLoss
  UnlinkedArtifactsAreExplained
CHECK_DEADLOCK FALSE
PROPERTIES
  ImplementsLifecycle
