CONSTANTS
  a = a  b = b  c = c
  Members = {a, b, c}
  MembersAt <- MCMembersAt
  Shared = {a}
  Squadless = {}
  Visitors = {v1, v2}
  Processes = {p1, p2}
  MaxTable = 2
  MaxMishaps = 1
  None = None
  NoRun = NoRun
SPECIFICATION FairSpec
INVARIANTS TypeOK MarkerIsTrue
PROPERTY EventuallyCurrent
