SPECIFICATION Spec
CONSTANTS
  s1 = s1
  s2 = s2
  r1 = r1
  r2 = r2
  Subs = {s1}
  Pass = Pass
  Requests <- MCRequests
  Period = 3
  GraceDays = 1
  SeasonEnd = 3
  DeliveryWindow = 1
  InvoiceNamesSubscription = TRUE
  MaxDay = 6
  MaxVersion = 2
  None = None
  NoRow = NoRow
SYMMETRY MCSymmetry
INVARIANTS
  GraceIsGraceDays
