SPECIFICATION Spec
CONSTANTS
  field = field  mesh = mesh
  r1 = r1  r2 = r2  r3 = r3
  Vars = {field, mesh}
  TimeVarying = {field}
  Domains = {0, 1}
  Regions = {r1, r2, r3}
  MaxIter = 2
  Collects = TRUE
  AnyIteration = FALSE
SYMMETRY RegionSymmetry
INVARIANTS
  TypeOK
  ServerSurvives
  NoLeak
  NoSharing
CHECK_DEADLOCK FALSE
