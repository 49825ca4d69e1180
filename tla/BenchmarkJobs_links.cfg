SPECIFICATION Spec
CONSTANTS
  j1 = j1
  Jobs = {j1}
  Workers = 1
INVARIANTS
  UploadedIsLinked
CHECK_DEADLOCK FALSE
