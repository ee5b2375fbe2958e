SPECIFICATION Spec
CONSTANTS
  s1 = s1
  s2 = s2
  r1 = r1
  r2 = r2
  Subs = {s1}
  Pass = Pass
  Requests <- MCRequests
  Period = 2
  GraceDays = 1
  SeasonEnd = 3
  DeliveryWindow = 1
  InvoiceNamesSubscription = TRUE
  MaxDay = 5
  MaxVersion = 3
  None = None
  NoRow = NoRow
SYMMETRY MCSymmetry
INVARIANTS
  TypeOK
  PaidTimeIsHonoured
  MirrorTrueInOrder
  FreeRideBounded
PROPERTIES
  ReplayIsNoOp
