SPECIFICATION Spec
CONSTANTS
  u1 = u1
  u2 = u2
  r1 = r1
  r2 = r2
  p1 = p1
  p2 = p2
  p3 = p3
  Users <- MCUsers
  Members <- MCUsers
  Entries = {7}
  Picks <- MCPicks
  Requests <- MCRequests
  Limit = 1
  MaxAttempts = 1
  MaxSessions = 1
  SessionTtl = 2
  PurgeAfter = 0
  MaxDay = 2
  MaxRequests = 4
  None = None
SYMMETRY MCSymmetry
CHECK_DEADLOCK FALSE
INVARIANTS
  TypeOK
  TokenUsedOnce
  EntryHasOneOwner
  DeletionEndsSessions
  ChoicesBounded
