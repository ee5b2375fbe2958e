SPECIFICATION Spec
CONSTANTS
  j1 = j1
  j2 = j2
  j3 = j3
  a = a
  b = b
  w1 = w1
  w2 = w2
  p1 = p1
  p2 = p2
  Jobs <- MCJobs
  Keys = {a}
  KeyOf <- MCKeyOf
  Unregistered = {}
  Workers <- MCWorkers
  Producers = {p1, p2}
  MaxAttempts = 2
  LockTimeout = 1
  BatchLimit = 2
  MaxBackoff = 2
  Horizon = 0
  MaxCrashes = 1
  None = None
SYMMETRY MCSymmetry
INVARIANTS
  TypeOK
  NoWedgedJob
  AttemptsAreFailures
  ExclusiveUnlessOverrun
  DuplicatesBounded
