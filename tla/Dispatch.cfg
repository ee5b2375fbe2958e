SPECIFICATION Spec
CONSTANTS
  u1 = u1
  u2 = u2
  Users = {u1, u2}
  Pro = {u1, u2}
  Every <- MCEvery
  Near <- MCNear
  IdleMax = 3
  CacheTtl = 2
  NearWindow = 2
  Lead = 7
  Week = 8
  MaxGameweek = 2
  Played = 2
  MaxTime = 16
  MaxSlow = 1
  MaxMishaps = 1
  MaxRewrites = 2
  None = None
CHECK_DEADLOCK FALSE
INVARIANTS
  TypeOK
  NeverTwice
  BriefedInTime
  ScheduleKept
PROPERTIES
  KeepsPromise
