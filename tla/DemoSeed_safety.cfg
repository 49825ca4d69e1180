SPECIFICATION Spec
CONSTANTS
  Nobody = Nobody
  Seeders = {s1, s2, s3, s4}
  Columns = {"status"}
SYMMETRY SeederSymmetry
INVARIANTS
  SerialSeedingIsIdempotent
  DemoDataIsWhole
PROPERTIES
  SeedingAgainAddsNothing
CHECK_DEADLOCK FALSE
