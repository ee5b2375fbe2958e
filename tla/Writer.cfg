SPECIFICATION Spec
CONSTANTS
  r1 = r1
  r2 = r2
  Requests <- MCRequests
  Providers = 1
  Cap = 2
  MaxAttempts = 2
  RateLimit <- MCRateLimit
  Allowance <- MCAllowance
  MaxCost = 2
  MaxGameweek = 2
  MaxRun = 1
  MaxChanges = 1
  MaxRequests = 3
  MaxFailures = 1
  None = None
SYMMETRY MCSymmetry
CHECK_DEADLOCK FALSE
INVARIANTS
  TypeOK
  NeverOvercharged
  AllowanceBounded
  CapOvershootBounded
  BillBounded
  LabelIsTrue
  NoDeadlock
  OnlyRowsDelay
PROPERTIES
  WriterStays
  ServedInStep
