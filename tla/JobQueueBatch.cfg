SPECIFICATION FairSpec
CONSTANTS
  j1 = j1
  j2 = j2
  j3 = j3
  a = a
  b = b
  w1 = w1
  w2 = w2
  p1 = p1
  p2 = p2
  Jobs <- MCTwoJobs
  Keys = {a, b}
  KeyOf <- MCTwoKeyOf
  Unregistered = {}
  Workers <- MCWorkers
  Producers = {p1}
  MaxAttempts = 2
  LockTimeout = 1
  BatchLimit = 2
  MaxBackoff = 2
  Horizon = 0
  MaxCrashes = 1
  None = None
PROPERTIES
  EveryClaimedJobIsRun
