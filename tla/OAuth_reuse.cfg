SPECIFICATION Spec
CONSTANTS
  Policy = {p1, p2}
  p1 = p1
  p2 = p2
  Down = Down
  Request = {r1, r2}
  r1 = r1
  r2 = r2
  PendingCap = 1
  DurableCap = 1
  MaxClient = 3
  MaxLogin = 2
  MaxPair = 3
PROPERTIES
  LosingReuseRevokes
