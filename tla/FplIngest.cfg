SPECIFICATION Spec
CONSTANTS
  a = a
  b = b
  c = c
  i1 = i1
  i2 = i2
  r1 = r1
  r2 = r2
  Items = {i1, i2}
  Content <- MCContent
  Members = {a, b, c}
  Standings <- MCStandings
  PageSize = 1
  Cap = 2
  MaxPages = 4
  MaxAttempts = 2
  Threshold = 3
  Readers <- MCReaders
  MaxReads = 3
  MaxFailures = 2
  None = None
SYMMETRY MCSymmetry
INVARIANTS
  TypeOK
  NotModifiedLosesNothing
  PruneIsTruthful
CHECK_DEADLOCK FALSE
